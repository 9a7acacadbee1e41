-------------------------- MODULE SasayakiLockstep --------------------------
(***************************************************************************)
(* What keeps two clients in step as long as nothing fails, as facts about *)
(* what is seen of a client from afar.                                     *)
(*                                                                         *)
(* Seen from afar a client has the database that its call will leave       *)
(* (Settled), at most one message that it has yet to hand in (Outs), a     *)
(* line of messages that it has yet to take (Lines), and the ciphertexts   *)
(* that it made (Made).  A call that begins settles its statements and its *)
(* message at once; the hub moves a message to the end of a line; an       *)
(* answer takes the head of a line and settles what it calls for.  No      *)
(* other step changes any of the four.                                     *)
(*                                                                         *)
(* This module says when two clients so seen are in step (the operators    *)
(* over dbs, outs, lines and made) and proves which changes of what is     *)
(* seen keep them so: a call that begins, a message that moves, a request, *)
(* an acceptance, a finished handshake and a text that are taken.          *)
(* SasayakiInStep proves that the steps of Sasayaki are such changes.      *)
(***************************************************************************)
EXTENDS SasayakiAgreement

\* Every place is mended, nothing fails, every text fits, contacts stay.
Faultless ==
    /\ Mended = Places \ {"delete"}
    /\ Faults = {}
    /\ Sizes \subseteq {"fits"}

-----------------------------------------------------------------------------
(* A client seen from afar *)

\* The call that runs, if any does.
Running(calls) ==
    IF \A w \in Workers : calls[w] = Idle THEN Idle
    ELSE calls[CHOOSE w \in Workers : calls[w] # Idle]

\* The connection that the client uses.
WireAt(k, wires) == IF k = Null THEN NoConn ELSE wires[k]
Wire(c) == WireAt(hubConn[c], conn)
Busy(wire) == wire.req # Null \/ wire.res # Null
Answered(wire) == wire.req = Null /\ wire.res # Null

\* The message that the hub does not have yet, the one that it has handed out,
\* and the ciphertexts of which the last one may not be on the wire yet.
OutOf(call, wire) == IF Sends(call.ask) /\ ~Answered(wire) THEN call.ask ELSE Null
HandedBy(wire) ==
    IF Answered(wire) /\ Hands(wire.res) THEN <<wire.res.msg>> ELSE <<>>
MadeBy(cts, call, wire) ==
    IF Texting(call.ask) /\ ~Busy(wire) THEN Append(cts, call.ask.content) ELSE cts

Settled == [c \in Clients |-> After4(db[c], Running(op[c]).writes)]
Outs  == [c \in Clients |-> OutOf(Running(op[c]), Wire(c))]
Lines == [c \in Clients |-> HandedBy(Wire(c)) \o pending[c]]
Made  == [c \in Clients |-> MadeBy(sent[c], Running(op[c]), Wire(c))]

\* A connection that was opened works, for one request at a time, that of the
\* call that runs; and the answer is one to this request.
InUse(call, wire) ==
    /\ Busy(wire) =>
          /\ call.writes = <<>> /\ call.ask # Null
          /\ wire.req = Null \/ wire.res = Null
          /\ wire.req # Null => wire.req = call.ask
          /\ wire.res # Null =>
                IF Sends(call.ask) THEN wire.res = [type |-> "success", ok |-> TRUE]
                ELSE wire.res.type = "message"
    /\ Sends(call.ask) => call.ask.fits
Synced ==
    \A c \in Clients :
        /\ hubConn[c] # Null => conn[hubConn[c]].up
        /\ InUse(Running(op[c]), Wire(c))

-----------------------------------------------------------------------------
(* A writer c with the database d, and a reader p with the database e *)

\* How many threads the writer created, how many the reader knows of, and how
\* many texts of a conversation the reader has decrypted.
Created(d, p) == IF IsAdded(d, p) THEN d.contacts[p].c1.turn ELSE 0
Noticed(e, c) == IF IsAdded(e, c) THEN e.contacts[c].c2.turn ELSE 0
Got(e, c, x) == IF HasConvo(e, x, c) THEN e.convos[x].c2.turn ELSE 0

\* Two states of which one is the other one, used more or less often.
Alike(s, t) == [s EXCEPT !.turn = 0] = [t EXCEPT !.turn = 0]

ContactsMatch(c, p, d, e) ==
    /\ Noticed(e, c) <= Created(d, p)
    /\ IsAdded(d, p) /\ IsAdded(e, c) => Alike(d.contacts[p].c1, e.contacts[c].c2)

\* Every thread that the writer created has a turn of its own, and the first
\* text was made in it.  The reader has the conversations of those threads that
\* it noticed; in the others it has written nothing.
ThreadMatches(c, p, d, e, x) ==
    LET row == d.convos[x] IN
    /\ row.c1.label = "initiatorThread" /\ row.c2.label = "responderThread"
    /\ row.c2.thread = row.c1.thread
    /\ Alike(row.c1.thread, d.contacts[p].c1)
    /\ row.c1.thread.turn < Created(d, p)
    /\ 1 <= row.c1.turn
    /\ IF row.c1.thread.turn < Noticed(e, c) THEN HasConvo(e, x, c)
       ELSE ~HasConvo(e, x, c) /\ row.c2.turn = 0
ThreadsMatch(c, p, d, e) ==
    /\ \A x \in DrawnWith(d, c, p) : ThreadMatches(c, p, d, e, x)
    /\ \A x, y \in DrawnWith(d, c, p) :
          d.convos[x].c1.thread.turn = d.convos[y].c1.thread.turn => x = y
    /\ \A n \in 0 .. Created(d, p) : n < Created(d, p) =>
          \E x \in DrawnWith(d, c, p) : d.convos[x].c1.thread.turn = n

ConvosMatch(c, p, d, e) ==
    \A x \in Draws : HasConvo(d, x, p) /\ HasConvo(e, x, c) =>
        /\ Alike(d.convos[x].c1, e.convos[x].c2)
        /\ e.convos[x].c2.turn <= d.convos[x].c1.turn

\* Every message in M is one that the reader has not had ...
NoneTwice(c, p, d, e, M) ==
    \A ct \in M :
        /\ ct.kind = "second" => Accepted(d.contacts[p], ct.init, ct.resp)
        /\ ct.kind = "aead" =>
              /\ HasConvo(d, ct.convo, p)
              /\ Alike(ct.key, d.convos[ct.convo].c1)
              /\ Got(e, c, ct.convo) <= ct.key.turn
              /\ ct.key.turn < d.convos[ct.convo].c1.turn

\* ... and every one that the reader has not had is in M.
NoneLost(c, p, d, e, M) ==
    /\ \A f, g \in Draws : Accepted(d.contacts[p], f, g) /\ ~IsAdded(e, c) =>
          \E ct \in M : ct.kind = "second" /\ ct.init = f /\ ct.resp = g
    /\ \A x \in Draws : HasConvo(d, x, p) =>
          \A n \in 0 .. d.convos[x].c1.turn :
              Got(e, c, x) <= n /\ n < d.convos[x].c1.turn =>
                  \E ct \in M : ct.kind = "aead" /\ ct.convo = x /\ ct.key.turn = n

Matched(c, p, d, e, M) ==
    /\ ContactsMatch(c, p, d, e)
    /\ ThreadsMatch(c, p, d, e)
    /\ ConvosMatch(c, p, d, e)
    /\ NoneTwice(c, p, d, e, M)
    /\ NoneLost(c, p, d, e, M)

\* Of the ciphertexts cts of the writer, those of one conversation are as many as
\* its state was used, the reader is shown the first ones that it decrypted, and
\* those in M are at the place that their state says.
TextsMatch(c, p, d, e, M, cts) ==
    \A x \in Draws :
        LET typed == TypedIn(cts, x, p)    shown == ShownIn(e, c, x) IN
        /\ Len(typed) = IF HasConvo(d, x, p) THEN d.convos[x].c1.turn ELSE 0
        /\ Len(shown) = Got(e, c, x)
        /\ \A k \in DOMAIN shown : k \in DOMAIN typed /\ shown[k] = typed[k]
        /\ \A ct \in M : ct.kind = "aead" /\ ct.convo = x =>
              typed[ct.key.turn + 1] = ct.text

-----------------------------------------------------------------------------
(* The order of messages *)

IsTitle(ct) == ct.key.label = "initiatorThread" /\ ct.key.turn = 0

\* The handshake comes before texts, the texts of a conversation come in the
\* order of their states, and titles in the order of their threads.
Before(ct, cu) ==
    /\ ct.kind = "aead" => cu.kind # "second"
    /\ ct.kind = "aead" /\ cu.kind = "aead" =>
          /\ ct.convo = cu.convo => ct.key.turn < cu.key.turn
          /\ IsTitle(ct) /\ IsTitle(cu) => ct.key.thread.turn < cu.key.thread.turn

\* A text names its writer, its reader and its conversation.
Addressed(c, p, x, ct) ==
    /\ c # p
    /\ ct.kind = "aead" => ct.from = c /\ ct.to = p /\ ct.convo = x /\ ct.text.by = c

LineOrdered(p, line) ==
    /\ \A i \in DOMAIN line : Addressed(line[i].from, p, line[i].convo, line[i].content)
    /\ \A i, j \in DOMAIN line : i < j /\ line[i].from = line[j].from =>
          Before(line[i].content, line[j].content)
OutOrdered(c, p, out, line) ==
    out # Null /\ out.to = p =>
        /\ Addressed(c, p, out.convo, out.content)
        /\ \A i \in DOMAIN line : line[i].from = c => Before(line[i].content, out.content)

\* What is on its way from c to p.
Ahead(c, line) == {line[i].content : i \in {j \in DOMAIN line : line[j].from = c}}
Last(p, out) == IF out # Null /\ out.to = p THEN {out.content} ELSE {}
Mail(c, p, line, out) == Ahead(c, line) \cup Last(p, out)

-----------------------------------------------------------------------------
(* The invariant *)

PairInStep(c, p, d, e, line, out, cts) ==
    /\ OutOrdered(c, p, out, line)
    /\ Matched(c, p, d, e, Mail(c, p, line, out))
    /\ TextsMatch(c, p, d, e, Mail(c, p, line, out), cts)

AllInStep(S, L, O, T) ==
    /\ \A p \in Clients : LineOrdered(p, L[p])
    /\ \A c \in Clients : O[c] # Null => O[c].to \in Clients \ {c}
    /\ \A c, p \in Clients : c # p => PairInStep(c, p, S[c], S[p], L[p], O[c], T[c])

InStep == Synced /\ AllInStep(Settled, Lines, Outs, Made)

-----------------------------------------------------------------------------
(* What calls make of a database *)

\* e is d with another row of one contact, or of one conversation.
ContactSet(d, e, p, row) ==
    /\ e \in Databases
    /\ e.contacts = [d.contacts EXCEPT ![p] = row]
    /\ e.convos = d.convos
    /\ e.messages = d.messages
ConvoSet(d, e, x, row) ==
    /\ e \in Databases
    /\ e.contacts = d.contacts
    /\ e.convos = [d.convos EXCEPT ![x] = row]
    /\ e.messages = d.messages

\* The parts of a database with a new row.
LEMMA RowSet ==
    ASSUME NEW d \in Databases, NEW e \in Databases
    PROVE  /\ \A p, row : e = [d EXCEPT !.contacts[p] = row] => ContactSet(d, e, p, row)
           /\ \A x, row : e = [d EXCEPT !.convos[x] = row] => ConvoSet(d, e, x, row)
<1>1. d = [contacts |-> d.contacts, convos |-> d.convos, messages |-> d.messages]
  BY DEF Databases
<1>2. ASSUME NEW p, NEW row, e = [d EXCEPT !.contacts[p] = row]
      PROVE  ContactSet(d, e, p, row)
  BY <1>1, <1>2 DEF ContactSet
<1>3. ASSUME NEW x, NEW row, e = [d EXCEPT !.convos[x] = row]
      PROVE  ConvoSet(d, e, x, row)
  BY <1>1, <1>3 DEF ConvoSet
<1> QED
  BY <1>2, <1>3

\* The statements on contacts.
LEMMA SetsContact ==
    ASSUME NEW d \in Databases, NEW p \in Clients
    PROVE  /\ \A f \in Draws :
                 ContactSet(d, Executed(d, addContact(p, f)), p, NewContact(0, f))
           /\ \A ct \in Contents :
                 ContactSet(d, Executed(d, addContactFromReq(p, ct)), p, NewContact(1, ct))
           /\ d.contacts[p] # Null => \A t1, t2 \in ThreadStates :
                 ContactSet(d, Executed(d, finalizeContact(p, t1, t2)), p,
                            [tag |-> 2, blob |-> Null, c1 |-> t1, c2 |-> t2])
           /\ d.contacts[p] # Null => \A t \in ThreadStates :
                 /\ ContactSet(d, Executed(d, updateThreadRatchetStates(p, t, Null)), p,
                               [d.contacts[p] EXCEPT !.c1 = t])
                 /\ ContactSet(d, Executed(d, updateThreadRatchetStates(p, Null, t)), p,
                               [d.contacts[p] EXCEPT !.c2 = t])
<1>1. \A st \in Statements : Executed(d, st) \in Databases
  BY ExecutedType
<1>2. ASSUME NEW f \in Draws
      PROVE  ContactSet(d, Executed(d, addContact(p, f)), p, NewContact(0, f))
  <2>1. Executed(d, addContact(p, f)) = [d EXCEPT !.contacts[p] = NewContact(0, f)]
    BY DEF Executed, Matches, addContact
  <2> QED
    BY <1>1, <2>1, RowSet, StatementsType
<1>3. ASSUME NEW ct \in Contents
      PROVE  ContactSet(d, Executed(d, addContactFromReq(p, ct)), p, NewContact(1, ct))
  <2>1. Executed(d, addContactFromReq(p, ct)) = [d EXCEPT !.contacts[p] = NewContact(1, ct)]
    BY DEF Executed, Matches, addContactFromReq
  <2> QED
    BY <1>1, <2>1, RowSet, StatementsType
<1>4. ASSUME d.contacts[p] # Null, NEW t1 \in ThreadStates, NEW t2 \in ThreadStates
      PROVE  ContactSet(d, Executed(d, finalizeContact(p, t1, t2)), p,
                        [tag |-> 2, blob |-> Null, c1 |-> t1, c2 |-> t2])
  <2>1. Executed(d, finalizeContact(p, t1, t2)) =
           [d EXCEPT !.contacts[p] = [tag |-> 2, blob |-> Null, c1 |-> t1, c2 |-> t2]]
    BY <1>4 DEF Executed, Matches, finalizeContact, Finalized
  <2> QED
    BY <1>1, <2>1, RowSet, StatementsType
<1>5. ASSUME d.contacts[p] # Null, NEW t \in ThreadStates
      PROVE  /\ ContactSet(d, Executed(d, updateThreadRatchetStates(p, t, Null)), p,
                           [d.contacts[p] EXCEPT !.c1 = t])
             /\ ContactSet(d, Executed(d, updateThreadRatchetStates(p, Null, t)), p,
                           [d.contacts[p] EXCEPT !.c2 = t])
  <2>1. /\ Executed(d, updateThreadRatchetStates(p, t, Null)) =
              [d EXCEPT !.contacts[p] = [d.contacts[p] EXCEPT !.c1 = t]]
        /\ Executed(d, updateThreadRatchetStates(p, Null, t)) =
              [d EXCEPT !.contacts[p] = [d.contacts[p] EXCEPT !.c2 = t]]
    BY <1>5, NullAssumption DEF Executed, Matches, updateThreadRatchetStates, SetOne
  <2> QED
    BY <1>1, <2>1, RowSet, StatementsType
<1> QED
  BY <1>2, <1>3, <1>4, <1>5

\* The statements on conversations.
LEMMA SetsConvo ==
    ASSUME NEW d \in Databases, NEW p \in Clients, NEW x \in Draws
    PROVE  /\ \A t \in Texts \cup {Null} : \A s1, s2 \in SessionKeys :
                 ConvoSet(d, Executed(d, createConvo(x, p, t, s1, s2)), x,
                          [peer |-> p, title |-> t, c1 |-> s1, c2 |-> s2])
           /\ HasConvo(d, x, p) => \A s \in SessionKeys :
                 /\ ConvoSet(d, Executed(d, updateSessionKeys(x, p, s, Null)), x,
                             [d.convos[x] EXCEPT !.c1 = s])
                 /\ ConvoSet(d, Executed(d, updateSessionKeys(x, p, Null, s)), x,
                             [d.convos[x] EXCEPT !.c2 = s])
           /\ HasConvo(d, x, p) => \A t \in Texts :
                 ConvoSet(d, Executed(d, updateTitle(x, p, t)), x,
                          [d.convos[x] EXCEPT !.title = t])
<1>1. \A st \in Statements : Executed(d, st) \in Databases
  BY ExecutedType
<1>2. ASSUME NEW t \in Texts \cup {Null}, NEW s1 \in SessionKeys, NEW s2 \in SessionKeys
      PROVE  ConvoSet(d, Executed(d, createConvo(x, p, t, s1, s2)), x,
                      [peer |-> p, title |-> t, c1 |-> s1, c2 |-> s2])
  <2>1. Executed(d, createConvo(x, p, t, s1, s2)) =
           [d EXCEPT !.convos[x] = [peer |-> p, title |-> t, c1 |-> s1, c2 |-> s2]]
    BY DEF Executed, Matches, createConvo
  <2>2. createConvo(x, p, t, s1, s2) \in Statements
    BY StatementsType
  <2> QED
    BY <1>1, <2>1, <2>2, RowSet
<1>3. ASSUME HasConvo(d, x, p), NEW s \in SessionKeys
      PROVE  /\ ConvoSet(d, Executed(d, updateSessionKeys(x, p, s, Null)), x,
                         [d.convos[x] EXCEPT !.c1 = s])
             /\ ConvoSet(d, Executed(d, updateSessionKeys(x, p, Null, s)), x,
                         [d.convos[x] EXCEPT !.c2 = s])
  <2>1. /\ Executed(d, updateSessionKeys(x, p, s, Null)) =
              [d EXCEPT !.convos[x] = [d.convos[x] EXCEPT !.c1 = s]]
        /\ Executed(d, updateSessionKeys(x, p, Null, s)) =
              [d EXCEPT !.convos[x] = [d.convos[x] EXCEPT !.c2 = s]]
    BY <1>3, NullAssumption DEF Executed, Matches, updateSessionKeys, SetOne, HasConvo
  <2> QED
    BY <1>1, <2>1, RowSet, StatementsType
<1>4. ASSUME HasConvo(d, x, p), NEW t \in Texts
      PROVE  ConvoSet(d, Executed(d, updateTitle(x, p, t)), x,
                      [d.convos[x] EXCEPT !.title = t])
  <2>1. Executed(d, updateTitle(x, p, t)) =
           [d EXCEPT !.convos[x] = [d.convos[x] EXCEPT !.title = t]]
    BY <1>4 DEF Executed, Matches, updateTitle, HasConvo
  <2> QED
    BY <1>1, <2>1, RowSet, StatementsType
<1> QED
  BY <1>2, <1>3, <1>4

\* A conversation that a row was set for is with the row's peer.
LEMMA ConvoThere ==
    ASSUME NEW d \in Databases, NEW e, NEW x \in Draws, NEW row,
           ConvoSet(d, e, x, row)
    PROVE  /\ e.convos[x] = row /\ row \in ConvoRows \cup {Null}
           /\ \A p : row \in ConvoRows /\ row.peer = p => HasConvo(e, x, p)
<1>1. d.convos \in [Draws -> ConvoRows \cup {Null}] /\ e.convos \in [Draws -> ConvoRows \cup {Null}]
  BY DEF Databases, ConvoSet
<1>2. e.convos[x] = row
  BY <1>1 DEF ConvoSet
<1> QED
  BY <1>1, <1>2, RowAssumption DEF HasConvo

\* Setting the row of a conversation twice.
LEMMA ConvoSetTwice ==
    ASSUME NEW d \in Databases, NEW e, NEW f, NEW x \in Draws, NEW row, NEW new,
           ConvoSet(d, e, x, row), ConvoSet(e, f, x, new)
    PROVE  ConvoSet(d, f, x, new)
<1>1. d.convos \in [Draws -> ConvoRows \cup {Null}]
  BY DEF Databases
<1> QED
  BY <1>1 DEF ConvoSet

\* sendInConvo.
LEMMA AfterSend ==
    ASSUME NEW d \in Databases, NEW p \in Clients, NEW x \in Draws, HasConvo(d, x, p),
           NEW s \in SessionKeys,
           NEW e, e = After4(d, <<updateSessionKeys(x, p, s, Null)>>)
    PROVE  ConvoSet(d, e, x, [d.convos[x] EXCEPT !.c1 = s])
<1>1. e = Executed(d, updateSessionKeys(x, p, s, Null))
  BY AfterOne
<1> QED
  BY <1>1, SetsConvo

\* The statements of sendNewThread, executed in d, leave e.
Starting(d, p, x, t, r, s1, s2, s, e) ==
    /\ d \in Databases /\ p \in Clients /\ d.contacts[p] # Null /\ x \in Draws /\ t \in Texts
    /\ r \in ThreadStates /\ s1 \in SessionKeys /\ s2 \in SessionKeys /\ s \in SessionKeys
    /\ e = After4(d, <<updateThreadRatchetStates(p, r, Null), createConvo(x, p, t, s1, s2),
                       updateSessionKeys(x, p, s, Null)>>)
ThreadSet(d, e, p, mine, x, row) ==
    /\ e \in Databases
    /\ e.contacts = [d.contacts EXCEPT ![p] = mine]
    /\ e.convos = [d.convos EXCEPT ![x] = row]
    /\ e.messages = d.messages

LEMMA AfterThread ==
    ASSUME NEW d, NEW p, NEW x, NEW t, NEW r, NEW s1, NEW s2, NEW s, NEW e,
           Starting(d, p, x, t, r, s1, s2, s, e),
           NEW mine, mine = [d.contacts[p] EXCEPT !.c1 = r],
           NEW new, new = [peer |-> p, title |-> t, c1 |-> s, c2 |-> s2]
    PROVE  ThreadSet(d, e, p, mine, x, new)
<1> USE DEF Starting
<1> DEFINE u1 == updateThreadRatchetStates(p, r, Null)
           u2 == createConvo(x, p, t, s1, s2)
           u3 == updateSessionKeys(x, p, s, Null)
           f == Executed(d, u1)
           g == Executed(f, u2)
           row == [peer |-> p, title |-> t, c1 |-> s1, c2 |-> s2]
<1>1. e = Executed(g, u3)
  BY AfterThree
<1>2. ContactSet(d, f, p, mine)
  BY SetsContact
<1> HIDE DEF f
<1>3. f \in Databases
  BY <1>2 DEF ContactSet
<1>4. ConvoSet(f, g, x, row) /\ row \in ConvoRows
  BY <1>3, SetsConvo DEF ConvoRows
<1> HIDE DEF g
<1>5. g \in Databases /\ HasConvo(g, x, p) /\ g.convos[x] = row
  BY <1>3, <1>4, ConvoThere DEF ConvoSet
<1>6. ConvoSet(g, e, x, new)
  <2>1. [g.convos[x] EXCEPT !.c1 = s] = new
    BY <1>5
  <2>2. ConvoSet(g, Executed(g, u3), x, [g.convos[x] EXCEPT !.c1 = s])
    BY <1>5, SetsConvo
  <2> QED
    BY <1>1, <2>1, <2>2
<1>7. ConvoSet(f, e, x, new)
  BY <1>3, <1>4, <1>6, ConvoSetTwice
<1> QED
  BY <1>2, <1>7 DEF ContactSet, ConvoSet, ThreadSet

\* The statement stores a text of the peer.
IsText(st, x) == st.do = "storeMessage" /\ st.id = x /\ ~st.mine

\* A text is stored.
LEMMA AfterStored ==
    ASSUME NEW f \in Databases, NEW p \in Clients, NEW x \in Draws, HasConvo(f, x, p),
           NEW st \in Statements, IsText(st, x), NEW e, e = Executed(f, st)
    PROVE  /\ e \in Databases /\ e.contacts = f.contacts /\ e.convos = f.convos
           /\ \A q, y : y \in Draws =>
                 ShownIn(e, q, y) = IF q = p /\ y = x THEN Append(ShownIn(f, q, y), st.text)
                                    ELSE ShownIn(f, q, y)
<1> DEFINE mr == [convo |-> st.id, mine |-> st.mine, text |-> st.text]
<1>1. mr.text = st.text
  OBVIOUS
<1>2. \A q, y : IsShown(f, mr, q, y) <=> y = x /\ HasConvo(f, x, q)
  BY DEF IsShown, IsText, HasConvo
<1>4. e \in Databases /\ e.contacts = f.contacts
  <2>1. st.do \notin ContactStatements
    BY DEF ContactStatements, IsText
  <2> QED
    BY <2>1, ExecutedType, ExecutedFrame
<1>5. e.convos = f.convos /\ mr \in MessageRows /\ e.messages = Append(f.messages, mr)
  BY ExecutedMessages DEF IsText
<1> HIDE DEF mr
<1>6. ASSUME NEW q, NEW y \in Draws
      PROVE  ShownIn(e, q, y) = IF q = p /\ y = x THEN Append(ShownIn(f, q, y), st.text)
                                ELSE ShownIn(f, q, y)
  <2>1. IsShown(f, mr, q, y) <=> q = p /\ y = x
    BY <1>2 DEF HasConvo
  <2>2. /\ IsShown(f, mr, q, y) => ShownIn(e, q, y) = Append(ShownIn(f, q, y), mr.text)
        /\ ~IsShown(f, mr, q, y) => ShownIn(e, q, y) = ShownIn(f, q, y)
    BY <1>5, ShownStored
  <2> QED
    BY <1>1, <2>1, <2>2
<1> QED
  BY <1>4, <1>5, <1>6

\* A text in a conversation that is known.
LEMMA AfterText ==
    ASSUME NEW d \in Databases, NEW p \in Clients, NEW x \in Draws, HasConvo(d, x, p),
           NEW s \in SessionKeys, NEW st \in Statements, IsText(st, x),
           NEW e, e = After4(d, <<updateSessionKeys(x, p, Null, s), st>>)
    PROVE  /\ e \in Databases /\ e.contacts = d.contacts
           /\ e.convos = [d.convos EXCEPT ![x] = [d.convos[x] EXCEPT !.c2 = s]]
           /\ \A q, y : y \in Draws =>
                 ShownIn(e, q, y) = IF q = p /\ y = x THEN Append(ShownIn(d, q, y), st.text)
                                    ELSE ShownIn(d, q, y)
<1>1. PICK f : f = Executed(d, updateSessionKeys(x, p, Null, s))
  OBVIOUS
<1>2. e = Executed(f, st)
  BY <1>1, AfterTwo
<1>3. ConvoSet(d, f, x, [d.convos[x] EXCEPT !.c2 = s])
  BY <1>1, SetsConvo
<1>4. d.convos[x] \in ConvoRows /\ d.convos \in [Draws -> ConvoRows \cup {Null}]
  BY DEF Databases, HasConvo
<1>5. PICK o, u, k1, k2 : d.convos[x] = [peer |-> o, title |-> u, c1 |-> k1, c2 |-> k2]
  BY <1>4 DEF ConvoRows
<1>6. /\ f \in Databases /\ f.contacts = d.contacts /\ f.messages = d.messages
      /\ f.convos = [d.convos EXCEPT ![x] = [d.convos[x] EXCEPT !.c2 = s]]
      /\ f.convos[x] = [d.convos[x] EXCEPT !.c2 = s]
  BY <1>3, <1>4 DEF ConvoSet
<1>7. /\ f.convos[x] # Null /\ d.convos[x] # Null
      /\ f.convos[x].peer = d.convos[x].peer /\ f.convos[x].title = d.convos[x].title
  <2>1. f.convos[x] = [peer |-> o, title |-> u, c1 |-> k1, c2 |-> s]
    BY <1>5, <1>6
  <2>2. f.convos[x] \in ConvoRows
    BY <1>4, <1>5, <2>1 DEF ConvoRows
  <2> QED
    BY <1>5, <2>1, <2>2, RowAssumption DEF HasConvo
<1>8. HasConvo(f, x, p)
  BY <1>7 DEF HasConvo
<1>9. ASSUME NEW q, NEW y \in Draws
      PROVE  ShownIn(f, q, y) = ShownIn(d, q, y)
  <2>1. CASE y = x
    <3>1. f.convos[y] = Null <=> d.convos[y] = Null
      BY <1>7, <2>1
    <3>2. d.convos[y] # Null => /\ f.convos[y].peer = d.convos[y].peer
                               /\ f.convos[y].title = d.convos[y].title
      BY <1>7, <2>1
    <3>3. f.messages = d.messages
      BY <1>6
    <3> QED
      BY <3>1, <3>2, <3>3, ShownRow
  <2>2. CASE y # x
    <3>1. f.convos[y] = d.convos[y]
      BY <1>4, <1>6, <2>2
    <3>2. f.messages = d.messages
      BY <1>6
    <3> QED
      BY <3>1, <3>2, ShownRow
  <2> QED
    BY <2>1, <2>2
<1>10. /\ e \in Databases /\ e.contacts = f.contacts /\ e.convos = f.convos
  BY <1>2, <1>6, <1>8, AfterStored
<1>11. ASSUME NEW q, NEW y \in Draws
       PROVE  ShownIn(e, q, y) = IF q = p /\ y = x THEN Append(ShownIn(f, q, y), st.text)
                                 ELSE ShownIn(f, q, y)
  <2>1. f \in Databases /\ e = Executed(f, st) /\ HasConvo(f, x, p)
    BY <1>2, <1>6, <1>8
  <2> QED
    BY <2>1, AfterStored, SMTT(20)
<1> QED
  BY <1>6, <1>9, <1>10, <1>11

\* e has a new conversation x with p, of which it shows the text t.
Opens(d, e, p, x, t, r, s1, s) ==
    /\ e \in Databases
    /\ e.contacts = [d.contacts EXCEPT ![p] = [d.contacts[p] EXCEPT !.c2 = r]]
    /\ e.convos = [d.convos EXCEPT ![x] = [peer |-> p, title |-> t, c1 |-> s1, c2 |-> s]]
    /\ \A q, y : y \in Draws =>
          ShownIn(e, q, y) = IF q = p /\ y = x THEN <<t>> ELSE ShownIn(d, q, y)

\* The first text of a conversation.
LEMMA AfterNew ==
    ASSUME NEW d \in Databases, Homed(d), NEW p \in Clients, d.contacts[p] # Null,
           NEW x \in Draws, d.convos[x] = Null,
           NEW t \in Texts, t.by = p, NEW r \in ThreadStates,
           NEW s1 \in SessionKeys, NEW s2 \in SessionKeys, NEW s \in SessionKeys,
           NEW e, e = After4(d, <<createConvo(x, p, Null, s1, s2),
                                  updateThreadRatchetStates(p, Null, r),
                                  updateSessionKeys(x, p, Null, s),
                                  updateTitle(x, p, t)>>)
    PROVE  Opens(d, e, p, x, t, r, s1, s)
<1> DEFINE u1 == createConvo(x, p, Null, s1, s2)
           u2 == updateThreadRatchetStates(p, Null, r)
           u3 == updateSessionKeys(x, p, Null, s)
           u4 == updateTitle(x, p, t)
           f == Executed(d, u1)
           g == Executed(f, u2)
           h == Executed(g, u3)
           row1 == [peer |-> p, title |-> Null, c1 |-> s1, c2 |-> s2]
           row3 == [peer |-> p, title |-> Null, c1 |-> s1, c2 |-> s]
           row4 == [peer |-> p, title |-> t, c1 |-> s1, c2 |-> s]
<1>1. e = Executed(h, u4)
  BY AfterFour
<1>2. ConvoSet(d, f, x, row1) /\ row1 \in ConvoRows
  BY SetsConvo DEF ConvoRows
<1> HIDE DEF f
<1>3. f \in Databases /\ f.contacts = d.contacts /\ f.convos[x] = row1
  BY <1>2, ConvoThere DEF ConvoSet
<1>4. ContactSet(f, g, p, [d.contacts[p] EXCEPT !.c2 = r])
  BY <1>3, SetsContact
<1> HIDE DEF g
<1>5. /\ g \in Databases /\ g.convos = f.convos /\ g.messages = f.messages
      /\ g.contacts = [d.contacts EXCEPT ![p] = [d.contacts[p] EXCEPT !.c2 = r]]
  BY <1>3, <1>4 DEF ContactSet
<1>6. HasConvo(g, x, p)
  BY <1>2, <1>3, <1>5, RowAssumption DEF HasConvo
<1>7. ConvoSet(g, h, x, row3)
  <2>1. [g.convos[x] EXCEPT !.c2 = s] = row3
    BY <1>3, <1>5
  <2>2. ConvoSet(g, Executed(g, u3), x, [g.convos[x] EXCEPT !.c2 = s])
    BY <1>5, <1>6, SetsConvo
  <2> QED
    BY <2>1, <2>2
<1> HIDE DEF h
<1>8. h \in Databases /\ h.convos[x] = row3 /\ row3 \in ConvoRows /\ row3.peer = p
  BY <1>5, <1>7, ConvoThere DEF ConvoSet, ConvoRows
<1>9. HasConvo(h, x, p)
  BY <1>8, RowAssumption DEF HasConvo
<1>10. ConvoSet(h, e, x, row4)
  <2>1. [h.convos[x] EXCEPT !.title = t] = row4
    BY <1>8
  <2> QED
    BY <1>1, <1>8, <1>9, <2>1, SetsConvo
<1>11. /\ e \in Databases /\ e.messages = d.messages
       /\ e.contacts = [d.contacts EXCEPT ![p] = [d.contacts[p] EXCEPT !.c2 = r]]
  BY <1>2, <1>5, <1>7, <1>10 DEF ConvoSet
<1>12. /\ e.convos = [d.convos EXCEPT ![x] = row4]
       /\ h.convos = [d.convos EXCEPT ![x] = row3] /\ h.messages = d.messages
  <2>1. d.convos \in [Draws -> ConvoRows \cup {Null}]
    BY DEF Databases
  <2> QED
    BY <2>1, <1>2, <1>5, <1>7, <1>10 DEF ConvoSet
<1>13. e.convos \in [Draws -> ConvoRows \cup {Null}] /\ d.convos \in [Draws -> ConvoRows \cup {Null}]
  BY <1>11 DEF Databases
<1>14. e.convos[x] = row4 /\ row4 \in ConvoRows /\ row4 # Null
  BY <1>12, <1>13, RowAssumption DEF ConvoRows
<1>15. ASSUME NEW q, NEW y \in Draws
       PROVE  ShownIn(e, q, y) = IF q = p /\ y = x THEN <<t>> ELSE ShownIn(d, q, y)
  <2>1. CASE y # x
    BY <1>11, <1>12, <1>13, <2>1, ShownRow
  <2>2. CASE y = x /\ q # p
    BY <1>14, <2>2 DEF ShownIn
  <2>3. CASE y = x /\ q = p
    <3> DEFINE rest == TextsAt(h.messages, TheirsIn(h, x))
    <3>1. TitleIn(h.convos[x], p) = <<>> /\ TitleIn(e.convos[x], p) = <<t>>
      BY <1>8, <1>14, NullAssumption DEF TitleIn
    <3>2. ShownIn(h, p, x) = <<>>
      BY <1>8, <1>9, <1>12, <3>1, ShownNew DEF HasConvo
    <3>3. rest \in Seq(Texts)
      <4>1. h.messages \in Seq(MessageRows) /\ \A mr \in MessageRows : mr.text \in Texts
        BY <1>8 DEF Databases, MessageRows
      <4> QED
        BY <4>1, TextsAtElements
    <3>4. TextsAt(e.messages, TheirsIn(e, x)) = rest
      <4>1. e.messages = h.messages
        BY <1>11, <1>12
      <4> QED
        BY <4>1 DEF TheirsIn
    <3>5. <<>> \o rest = <<>>
      BY <1>9, <3>1, <3>2 DEF ShownIn, HasConvo
    <3>6. ShownIn(e, p, x) = <<t>> \o rest
      <4>1. e.convos[x] # Null /\ e.convos[x].peer = p
        BY <1>14
      <4> HIDE DEF row4, rest
      <4> QED
        BY <3>1, <3>4, <4>1 DEF ShownIn
    <3> HIDE DEF rest
    <3>7. rest = <<>>
      BY <3>3, <3>5
    <3> QED
      BY <2>3, <3>6, <3>7
  <2> QED
    BY <2>1, <2>2, <2>3
<1> QED
  BY <1>11, <1>12, <1>15 DEF Opens

-----------------------------------------------------------------------------
(* What one of two clients knows of the other *)

\* What c, with the database d, has of p is also in the database e of p.
Peers(c, p, d, e) ==
    /\ \A x \in Draws : HasConvo(d, x, p) =>
          (x.who = c /\ IsAdded(d, p)) \/ (x.who = p /\ HasConvo(e, x, c))
    /\ \A x \in Draws : x.who = p /\ d.convos[x] # Null => HasConvo(d, x, p)
    /\ IsAdded(d, p) => LET row == d.contacts[p] IN
          /\ Twins(row)
          /\ row.c1.from = "initiator" => Accepted(e.contacts[c], row.c1.init, row.c1.resp)
          /\ row.c1.from = "responder" => Begun(e.contacts[c], row.c1.init)
    /\ d.contacts[p] # Null /\ d.contacts[p].tag = 1 /\ d.contacts[p].blob.kind = "first" =>
          Begun(e.contacts[c], d.contacts[p].blob.init)

\* It is so when databases agree.
LEMMA PeersOf ==
    ASSUME Stays, NEW c \in Clients, NEW p \in Clients, c # p, NEW d, NEW D, Agrees(c, d, D)
    PROVE  Peers(c, p, d, D[p])
<1>1. ASSUME NEW x \in Draws, d.convos[x] # Null
      PROVE  ConvoAgrees(c, x, d.convos[x], D)
  BY <1>1 DEF Agrees
<1>2. ASSUME NEW x \in Draws, HasConvo(d, x, p)
      PROVE  (x.who = c /\ IsAdded(d, p)) \/ (x.who = p /\ HasConvo(D[p], x, c))
  <2>1. x.who = c => x \in DrawnWith(d, c, p)
    BY <1>2 DEF DrawnWith
  <2>2. x.who = c => IsAdded(d, p)
    BY <2>1 DEF Agrees, Counted
  <2> QED
    BY <1>1, <1>2, <2>2 DEF ConvoAgrees, HasConvo
<1>3. ASSUME NEW x \in Draws, x.who = p, d.convos[x] # Null
      PROVE  HasConvo(d, x, p)
  BY <1>1, <1>3 DEF ConvoAgrees, HasConvo
<1>4. d.contacts[p] # Null => ContactAgrees(c, p, d.contacts[p], D[p].contacts[c])
  BY DEF Agrees
<1> QED
  BY <1>2, <1>3, <1>4 DEF Peers, IsAdded, ContactAgrees

\* A finished contact's states.
LEMMA AddedStates ==
    ASSUME NEW d \in Databases, NEW p \in Clients, IsAdded(d, p)
    PROVE  /\ d.contacts[p] \in ContactRows
           /\ d.contacts[p].c1 \in ThreadStates /\ d.contacts[p].c2 \in ThreadStates
           /\ Accepted(d.contacts[p], d.contacts[p].c1.init, d.contacts[p].c1.resp)
                 <=> d.contacts[p].c1.from = "responder"
<1>1. d.contacts[p] \in ContactRows
  BY DEF Databases, IsAdded
<1> QED
  BY <1>1, RowFields DEF IsAdded, Accepted

\* The rows of a conversation.
LEMMA ConvoStates ==
    ASSUME NEW d \in Databases, NEW x \in Draws, NEW p, HasConvo(d, x, p)
    PROVE  /\ d.convos[x] \in ConvoRows /\ d.convos[x] # Null
           /\ d.convos[x].c1 \in SessionKeys /\ d.convos[x].c2 \in SessionKeys
           /\ d.convos[x].c1.turn \in Nat /\ d.convos[x].c2.turn \in Nat
           /\ d.convos[x].c1.thread \in ThreadStates
           /\ d.convos[x].c1.thread.turn \in Nat
<1>1. d.convos[x] \in ConvoRows /\ d.convos[x] # Null
  BY DEF Databases, HasConvo
<1>2. d.convos[x].c1 \in SessionKeys /\ d.convos[x].c2 \in SessionKeys
  BY <1>1 DEF ConvoRows
<1> QED
  BY <1>1, <1>2 DEF SessionKeys, ThreadStates

\* The counts are numbers.
LEMMA CountsType ==
    ASSUME NEW d \in Databases, NEW p \in Clients
    PROVE  /\ Created(d, p) \in Nat /\ Noticed(d, p) \in Nat
           /\ \A x \in Draws : Got(d, p, x) \in Nat
<1>1. IsAdded(d, p) => d.contacts[p].c1.turn \in Nat /\ d.contacts[p].c2.turn \in Nat
  BY AddedStates DEF ThreadStates
<1>2. \A x \in Draws : HasConvo(d, x, p) => d.convos[x].c2.turn \in Nat
  BY ConvoStates
<1> QED
  BY <1>1, <1>2 DEF Created, Noticed, Got

\* Two states that differ at most in how often they were used.
LEMMA AlikeStates ==
    /\ \A s, t \in SessionKeys : Alike(s, t) <=> s.thread = t.thread /\ s.label = t.label
    /\ \A s, t \in ThreadStates :
          Alike(s, t) <=> s.init = t.init /\ s.resp = t.resp /\ s.from = t.from
    /\ \A s, t \in SessionKeys : Alike(s, t) /\ s.turn = t.turn => s = t
    /\ \A s, t \in ThreadStates : Alike(s, t) /\ s.turn = t.turn => s = t
<1>1. ASSUME NEW s \in SessionKeys, NEW t \in SessionKeys
      PROVE  /\ Alike(s, t) <=> s.thread = t.thread /\ s.label = t.label
             /\ Alike(s, t) /\ s.turn = t.turn => s = t
  <2>1. /\ s = [thread |-> s.thread, label |-> s.label, turn |-> s.turn]
        /\ t = [thread |-> t.thread, label |-> t.label, turn |-> t.turn]
    BY DEF SessionKeys
  <2>2. Alike(s, t) <=> s.thread = t.thread /\ s.label = t.label
    BY <2>1 DEF Alike
  <2> QED
    BY <2>1, <2>2
<1>2. ASSUME NEW s \in ThreadStates, NEW t \in ThreadStates
      PROVE  /\ Alike(s, t) <=> s.init = t.init /\ s.resp = t.resp /\ s.from = t.from
             /\ Alike(s, t) /\ s.turn = t.turn => s = t
  <2>1. /\ s = [init |-> s.init, resp |-> s.resp, from |-> s.from, turn |-> s.turn]
        /\ t = [init |-> t.init, resp |-> t.resp, from |-> t.from, turn |-> t.turn]
    BY DEF ThreadStates
  <2>2. Alike(s, t) <=> s.init = t.init /\ s.resp = t.resp /\ s.from = t.from
    BY <2>1 DEF Alike
  <2> QED
    BY <2>1, <2>2
<1> QED
  BY <1>1, <1>2

\* What was typed in a conversation are texts.
LEMMA TypedType ==
    ASSUME NEW cts \in Seq(Ciphertexts), NEW x, NEW p
    PROVE  TypedIn(cts, x, p) \in Seq(Texts)
<1>1. \A ct \in Ciphertexts : ct.text \in Texts
  BY DEF Ciphertexts
<1> QED
  BY <1>1, TextsAtElements DEF TypedIn

-----------------------------------------------------------------------------
(* Steps that two clients in step do not notice of each other *)

\* The writer's database d becomes f, which differs in nothing that matters to
\* the reader, with e ...
SameWriter(c, p, d, f, e) ==
    /\ IsAdded(f, p) <=> IsAdded(d, p)
    /\ IsAdded(d, p) => f.contacts[p].c1 = d.contacts[p].c1
    /\ \A x \in Draws : HasConvo(f, x, p) <=> HasConvo(d, x, p)
    /\ \A x \in Draws : HasConvo(d, x, p) =>
          /\ f.convos[x].c1 = d.convos[x].c1
          /\ f.convos[x].c2.thread = d.convos[x].c2.thread
          /\ f.convos[x].c2.label = d.convos[x].c2.label
          /\ f.convos[x].c2.turn = d.convos[x].c2.turn \/ HasConvo(e, x, c)

\* ... and the reader's database e becomes f.
SameReader(c, p, d, e, f) ==
    /\ Noticed(f, c) = Noticed(e, c)
    /\ IsAdded(d, p) => /\ IsAdded(f, c) <=> IsAdded(e, c)
                        /\ IsAdded(e, c) => f.contacts[c].c2 = e.contacts[c].c2
    /\ \A x \in Draws : HasConvo(d, x, p) =>
          /\ HasConvo(f, x, c) <=> HasConvo(e, x, c)
          /\ HasConvo(e, x, c) => f.convos[x].c2 = e.convos[x].c2
    /\ \A x \in Draws : /\ Got(f, c, x) = Got(e, c, x)
                        /\ ShownIn(f, c, x) = ShownIn(e, c, x)

\* But for first handshake messages M and N are the same.
SameMail(M, N) ==
    /\ \A ct \in M : ct.kind # "first" => ct \in N
    /\ \A ct \in N : ct.kind # "first" => ct \in M
SameTyped(s, t, p) == \A x \in Draws : TypedIn(s, x, p) = TypedIn(t, x, p)

\* Nothing changes.
LEMMA SameAll ==
    ASSUME NEW c, NEW p, NEW d, NEW e
    PROVE  /\ SameWriter(c, p, d, d, e) /\ SameReader(c, p, d, e, e)
           /\ \A M : SameMail(M, M)
           /\ \A s : SameTyped(s, s, p)
BY DEF SameWriter, SameReader, SameMail, SameTyped

\* One of the two changes so.
LEMMA WriterChanges ==
    ASSUME NEW c \in Clients, NEW p \in Clients, NEW d \in Databases, NEW f \in Databases,
           NEW e \in Databases, SameWriter(c, p, d, f, e),
           NEW M \in SUBSET Contents, NEW N, SameMail(M, N), Matched(c, p, d, e, M)
    PROVE  Matched(c, p, f, e, N)
<1>1. Created(f, p) = Created(d, p)
  BY DEF SameWriter, Created
<1>2. \A g, h : Accepted(f.contacts[p], g, h) <=> Accepted(d.contacts[p], g, h)
  BY DEF SameWriter, Accepted, IsAdded
<1>3. DrawnWith(f, c, p) = DrawnWith(d, c, p)
  BY DEF SameWriter, DrawnWith
<1>4. ContactsMatch(c, p, f, e)
  BY <1>1 DEF ContactsMatch, Matched, SameWriter
<1>5. \A x \in DrawnWith(d, c, p) : x \in Draws /\ HasConvo(d, x, p)
  BY DEF DrawnWith
<1>6. \A x \in DrawnWith(d, c, p) : f.convos[x].c1 = d.convos[x].c1 /\ IsAdded(d, p)
  <2>1. \A x \in DrawnWith(d, c, p) : ThreadMatches(c, p, d, e, x)
    BY DEF Matched, ThreadsMatch
  <2>2. ASSUME NEW x \in DrawnWith(d, c, p)
        PROVE  IsAdded(d, p)
    <3>1. d.convos[x].c1.thread.turn < Created(d, p) /\ d.convos[x].c1.thread.turn \in Nat
      BY <2>1, <1>5, ConvoStates DEF ThreadMatches
    <3> QED
      BY <3>1 DEF Created
  <2> QED
    BY <1>5, <2>2 DEF SameWriter
<1>7. ThreadsMatch(c, p, f, e)
  <2>1. ASSUME NEW x \in DrawnWith(f, c, p)
        PROVE  ThreadMatches(c, p, f, e, x)
    <3>1. ThreadMatches(c, p, d, e, x) /\ HasConvo(d, x, p) /\ IsAdded(d, p) /\ x \in Draws
      BY <1>3, <1>5, <1>6 DEF Matched, ThreadsMatch
    <3>2. f.convos[x].c2.turn = d.convos[x].c2.turn \/ HasConvo(e, x, c)
      BY <3>1 DEF SameWriter
    <3> QED
      BY <1>1, <3>1, <3>2 DEF ThreadMatches, SameWriter
  <2>2. \A x, y \in DrawnWith(f, c, p) :
           f.convos[x].c1.thread.turn = f.convos[y].c1.thread.turn => x = y
    BY <1>3, <1>6 DEF Matched, ThreadsMatch
  <2>3. \A n \in 0 .. Created(f, p) : n < Created(f, p) =>
           \E x \in DrawnWith(f, c, p) : f.convos[x].c1.thread.turn = n
    BY <1>1, <1>3, <1>6 DEF Matched, ThreadsMatch
  <2> QED
    BY <2>1, <2>2, <2>3 DEF ThreadsMatch
<1>8. ConvosMatch(c, p, f, e)
  BY DEF Matched, ConvosMatch, SameWriter
<1>9. NoneTwice(c, p, f, e, N)
  <2>1. ASSUME NEW ct \in N, ct.kind = "second" PROVE Accepted(f.contacts[p], ct.init, ct.resp)
    BY <1>2, <2>1 DEF SameMail, Matched, NoneTwice
  <2>2. ASSUME NEW ct \in N, ct.kind = "aead"
        PROVE  /\ HasConvo(f, ct.convo, p)
               /\ Alike(ct.key, f.convos[ct.convo].c1)
               /\ Got(e, c, ct.convo) <= ct.key.turn
               /\ ct.key.turn < f.convos[ct.convo].c1.turn
    <3>1. ct \in M
      BY <2>2 DEF SameMail
    <3>2. HasConvo(d, ct.convo, p) /\ ct.convo \in Draws
      BY <2>2, <3>1, ContentsKinds DEF Matched, NoneTwice, Ciphertexts
    <3> QED
      BY <2>2, <3>1, <3>2 DEF Matched, NoneTwice, SameWriter
  <2> QED
    BY <2>1, <2>2 DEF NoneTwice
<1>10. NoneLost(c, p, f, e, N)
  <2>1. ASSUME NEW g \in Draws, NEW h \in Draws, Accepted(f.contacts[p], g, h), ~IsAdded(e, c)
        PROVE  \E ct \in N : ct.kind = "second" /\ ct.init = g /\ ct.resp = h
    BY <1>2, <2>1 DEF SameMail, Matched, NoneLost
  <2>2. ASSUME NEW x \in Draws, HasConvo(f, x, p), NEW n \in 0 .. f.convos[x].c1.turn,
               Got(e, c, x) <= n, n < f.convos[x].c1.turn
        PROVE  \E ct \in N : ct.kind = "aead" /\ ct.convo = x /\ ct.key.turn = n
    <3>1. HasConvo(d, x, p) /\ f.convos[x].c1 = d.convos[x].c1
      BY <2>2 DEF SameWriter
    <3> QED
      BY <2>2, <3>1 DEF Matched, NoneLost, SameMail
  <2> QED
    BY <2>1, <2>2 DEF NoneLost
<1> QED
  BY <1>4, <1>7, <1>8, <1>9, <1>10 DEF Matched

LEMMA ReaderChanges ==
    ASSUME NEW c \in Clients, NEW p \in Clients, NEW d \in Databases, NEW e \in Databases,
           NEW f \in Databases, SameReader(c, p, d, e, f),
           NEW M \in SUBSET Contents, NEW N, SameMail(M, N), Matched(c, p, d, e, M)
    PROVE  Matched(c, p, d, f, N)
<1>1. ContactsMatch(c, p, d, f)
  BY DEF Matched, ContactsMatch, SameReader
<1>2. ThreadsMatch(c, p, d, f)
  <2>1. ASSUME NEW x \in DrawnWith(d, c, p)
        PROVE  ThreadMatches(c, p, d, f, x)
    <3>1. ThreadMatches(c, p, d, e, x) /\ HasConvo(d, x, p) /\ x \in Draws
      BY DEF DrawnWith, Matched, ThreadsMatch
    <3> QED
      BY <3>1 DEF ThreadMatches, SameReader
  <2> QED
    BY <2>1 DEF Matched, ThreadsMatch
<1>3. ConvosMatch(c, p, d, f)
  BY DEF Matched, ConvosMatch, SameReader
<1>4. NoneTwice(c, p, d, f, N)
  <2>1. ASSUME NEW ct \in N, ct.kind = "second" PROVE Accepted(d.contacts[p], ct.init, ct.resp)
    BY <2>1 DEF SameMail, Matched, NoneTwice
  <2>2. ASSUME NEW ct \in N, ct.kind = "aead"
        PROVE  /\ HasConvo(d, ct.convo, p)
               /\ Alike(ct.key, d.convos[ct.convo].c1)
               /\ Got(f, c, ct.convo) <= ct.key.turn
               /\ ct.key.turn < d.convos[ct.convo].c1.turn
    <3>1. ct \in M
      BY <2>2 DEF SameMail
    <3>2. HasConvo(d, ct.convo, p) /\ ct.convo \in Draws
      BY <2>2, <3>1, ContentsKinds DEF Matched, NoneTwice, Ciphertexts
    <3> QED
      BY <2>2, <3>1, <3>2 DEF Matched, NoneTwice, SameReader
  <2> QED
    BY <2>1, <2>2 DEF NoneTwice
<1>5. NoneLost(c, p, d, f, N)
  <2>1. ASSUME NEW g \in Draws, NEW h \in Draws, Accepted(d.contacts[p], g, h), ~IsAdded(f, c)
        PROVE  \E ct \in N : ct.kind = "second" /\ ct.init = g /\ ct.resp = h
    <3>1. IsAdded(d, p)
      BY <2>1 DEF Accepted, IsAdded
    <3> QED
      BY <2>1, <3>1 DEF SameMail, Matched, NoneLost, SameReader
  <2>2. ASSUME NEW x \in Draws, HasConvo(d, x, p), NEW n \in 0 .. d.convos[x].c1.turn,
               Got(f, c, x) <= n, n < d.convos[x].c1.turn
        PROVE  \E ct \in N : ct.kind = "aead" /\ ct.convo = x /\ ct.key.turn = n
    BY <2>2 DEF Matched, NoneLost, SameMail, SameReader
  <2> QED
    BY <2>1, <2>2 DEF NoneLost
<1> QED
  BY <1>1, <1>2, <1>3, <1>4, <1>5 DEF Matched

\* And the texts stay where they are.
LEMMA TextsStay ==
    ASSUME NEW c, NEW p, NEW d, NEW f, NEW e, NEW g, NEW M, NEW N, NEW s, NEW t,
           \A x \in Draws : HasConvo(f, x, p) <=> HasConvo(d, x, p),
           \A x \in Draws : HasConvo(d, x, p) => f.convos[x].c1.turn = d.convos[x].c1.turn,
           \A x \in Draws : Got(g, c, x) = Got(e, c, x) /\ ShownIn(g, c, x) = ShownIn(e, c, x),
           SameMail(M, N), SameTyped(s, t, p),
           TextsMatch(c, p, d, e, M, s)
    PROVE  TextsMatch(c, p, f, g, N, t)
<1> SUFFICES ASSUME NEW x \in Draws
             PROVE  LET typed == TypedIn(t, x, p)    shown == ShownIn(g, c, x) IN
                    /\ Len(typed) = IF HasConvo(f, x, p) THEN f.convos[x].c1.turn ELSE 0
                    /\ Len(shown) = Got(g, c, x)
                    /\ \A k \in DOMAIN shown : k \in DOMAIN typed /\ shown[k] = typed[k]
                    /\ \A ct \in N : ct.kind = "aead" /\ ct.convo = x =>
                          typed[ct.key.turn + 1] = ct.text
  BY DEF TextsMatch
<1>1. TypedIn(t, x, p) = TypedIn(s, x, p)
  BY DEF SameTyped
<1>2. \A ct \in N : ct.kind = "aead" => ct \in M
  BY DEF SameMail
<1> QED
  BY <1>1, <1>2 DEF TextsMatch

\* Both may change, one after the other.
LEMMA NothingNoticed ==
    ASSUME NEW c \in Clients, NEW p \in Clients, NEW d \in Databases, NEW f \in Databases,
           NEW e \in Databases, NEW g \in Databases,
           SameWriter(c, p, d, f, e), SameReader(c, p, f, e, g),
           NEW M \in SUBSET Contents, NEW N \in SUBSET Contents, SameMail(M, N),
           NEW s, NEW t, SameTyped(s, t, p), Matched(c, p, d, e, M), TextsMatch(c, p, d, e, M, s)
    PROVE  Matched(c, p, f, g, N) /\ TextsMatch(c, p, f, g, N, t)
<1>1. Matched(c, p, f, e, N)
  BY WriterChanges
<1>2. Matched(c, p, f, g, N)
  BY <1>1, ReaderChanges, SameAll
<1>3. TextsMatch(c, p, f, g, N, t)
  BY TextsStay DEF SameWriter, SameReader
<1> QED
  BY <1>2, <1>3

-----------------------------------------------------------------------------
(* The oldest message decrypts *)

\* ct is the oldest of the messages that are on their way; the others are in N.
Oldest(M, ct, N) ==
    /\ M = {ct} \cup N
    /\ \A cu \in N : Before(ct, cu)

\* No text of the conversation x between the ones that the reader had and the
\* oldest message is missing.
LEMMA OldestIsNext ==
    ASSUME NEW c \in Clients, NEW p \in Clients, NEW d \in Databases, NEW e \in Databases,
           NEW M \in SUBSET Contents, NEW ct, NEW N, Oldest(M, ct, N), ct.kind = "aead",
           NoneTwice(c, p, d, e, M), NoneLost(c, p, d, e, M)
    PROVE  Got(e, c, ct.convo) = ct.key.turn
<1>1. ct \in Ciphertexts /\ ct.convo \in Draws /\ ct.key.turn \in Nat
  BY ContentsKinds DEF Oldest, Ciphertexts, SessionKeys
<1>2. /\ HasConvo(d, ct.convo, p) /\ Got(e, c, ct.convo) <= ct.key.turn
      /\ ct.key.turn < d.convos[ct.convo].c1.turn
  BY DEF Oldest, NoneTwice
<1>3. Got(e, c, ct.convo) \in Nat /\ d.convos[ct.convo].c1.turn \in Nat
  BY <1>1, <1>2, CountsType, ConvoStates
<1> DEFINE n == Got(e, c, ct.convo)
<1>4. SUFFICES ASSUME n < ct.key.turn PROVE FALSE
  BY <1>1, <1>2, <1>3
<1>5. PICK cu \in M : cu.kind = "aead" /\ cu.convo = ct.convo /\ cu.key.turn = n
  BY <1>1, <1>2, <1>3, <1>4 DEF NoneLost
<1>6. cu \in N
  BY <1>4, <1>5, <1>1, <1>3 DEF Oldest
<1>7. ct.key.turn < cu.key.turn
  BY <1>5, <1>6 DEF Oldest, Before
<1> QED
  BY <1>1, <1>3, <1>4, <1>5, <1>7

\* The first text of the oldest new thread was made with the state that the
\* reader keeps for new threads.
LEMMA OldestThread ==
    ASSUME NEW c \in Clients, NEW p \in Clients, NEW d \in Databases, NEW e \in Databases,
           NEW M \in SUBSET Contents, NEW ct, NEW N, Oldest(M, ct, N), ct.kind = "aead",
           Matched(c, p, d, e, M), NEW x, x = ct.convo, x.who = c, ~HasConvo(e, x, c)
    PROVE  /\ HasConvo(d, x, p) /\ ct.key.turn = 0 /\ d.convos[x].c2.turn = 0
           /\ ct.key.label = "initiatorThread"
           /\ ct.key.thread = d.convos[x].c1.thread
           /\ ct.key.thread.turn = Noticed(e, c)
<1>1. ct \in Ciphertexts /\ x \in Draws /\ ct.key \in SessionKeys
  BY ContentsKinds DEF Oldest, Ciphertexts
<1>2. HasConvo(d, x, p) /\ Alike(ct.key, d.convos[x].c1)
  BY DEF Oldest, Matched, NoneTwice
<1>3. ct.key.turn = 0
  BY OldestIsNext DEF Matched, Got
<1>4. x \in DrawnWith(d, c, p)
  BY <1>1, <1>2 DEF DrawnWith
<1>5. ThreadMatches(c, p, d, e, x)
  BY <1>4 DEF Matched, ThreadsMatch
<1>6. ct.key.thread = d.convos[x].c1.thread /\ ct.key.label = "initiatorThread"
  BY <1>1, <1>2, <1>5, ConvoStates, AlikeStates, SMTT(20) DEF ThreadMatches
<1> DEFINE m == Noticed(e, c)    n == d.convos[x].c1.thread.turn
<1>7. m \in Nat /\ n \in Nat /\ Created(d, p) \in Nat
  BY <1>1, <1>2, ConvoStates, CountsType
<1>8. m <= n /\ n < Created(d, p) /\ d.convos[x].c2.turn = 0
  BY <1>5, <1>7 DEF ThreadMatches
<1>9. ASSUME m < n PROVE FALSE
  <2>1. m \in 0 .. Created(d, p) /\ m < Created(d, p)
    BY <1>7, <1>8, <1>9
  <2>2. PICK y \in DrawnWith(d, c, p) : d.convos[y].c1.thread.turn = m
    BY <2>1 DEF Matched, ThreadsMatch
  <2>3. y \in Draws /\ HasConvo(d, y, p) /\ ThreadMatches(c, p, d, e, y)
    BY DEF DrawnWith, Matched, ThreadsMatch
  <2>4. Got(e, c, y) = 0 /\ 1 <= d.convos[y].c1.turn /\ d.convos[y].c1.turn \in Nat
    BY <1>7, <2>2, <2>3, ConvoStates DEF ThreadMatches, Got
  <2>5. PICK cu \in M : cu.kind = "aead" /\ cu.convo = y /\ cu.key.turn = 0
    BY <2>3, <2>4 DEF Matched, NoneLost
  <2>6. cu.key \in SessionKeys /\ Alike(cu.key, d.convos[y].c1)
    BY <2>5, ContentsKinds DEF Ciphertexts, Matched, NoneTwice
  <2>7. cu.key.thread.turn = m /\ IsTitle(cu)
    BY <2>2, <2>3, <2>5, <2>6, ConvoStates, AlikeStates DEF ThreadMatches, IsTitle
  <2>8. cu \in N
    BY <1>6, <1>9, <1>7, <2>7 DEF Oldest
  <2>9. IsTitle(ct)
    BY <1>3, <1>6 DEF IsTitle
  <2>10. ct.key.thread.turn < cu.key.thread.turn
    BY <2>5, <2>7, <2>8, <2>9 DEF Oldest, Before
  <2> QED
    BY <1>6, <1>7, <1>9, <2>7, <2>10
<1> QED
  BY <1>2, <1>3, <1>6, <1>7, <1>8, <1>9

\* The answer of p to the handshake is not behind a text of c.
LEMMA OldestAfterHandshake ==
    ASSUME NEW c \in Clients, NEW p \in Clients, NEW d \in Databases, NEW e \in Databases,
           Peers(c, p, d, e), NEW M \in SUBSET Contents, NEW ct, NEW N, Oldest(M, ct, N),
           ct.kind = "aead", NoneLost(c, p, d, e, M), IsAdded(d, p)
    PROVE  IsAdded(e, c)
<1> DEFINE row == d.contacts[p]
<1>1. row.c1 \in ThreadStates
  BY AddedStates
<1>2. row.c1.init \in Draws /\ row.c1.resp \in Draws
      /\ (row.c1.from = "initiator" \/ row.c1.from = "responder")
  BY <1>1 DEF ThreadStates
<1>3. CASE row.c1.from = "initiator"
  BY <1>3 DEF Peers, Accepted, IsAdded
<1>4. CASE row.c1.from = "responder"
  <2>1. Accepted(row, row.c1.init, row.c1.resp)
    BY <1>4, AddedStates
  <2>2. SUFFICES ASSUME ~IsAdded(e, c) PROVE FALSE
    OBVIOUS
  <2>3. PICK cu \in M : cu.kind = "second"
    BY <1>2, <2>1, <2>2 DEF NoneLost
  <2> QED
    BY <2>3 DEF Oldest, Before
<1> QED
  BY <1>2, <1>3, <1>4

\* The reader can use the oldest message: in the conversation if it has it,
\* else in a new one with the state that it keeps for threads of the writer.
LEMMA OldestDecrypts ==
    ASSUME NEW c \in Clients, NEW p \in Clients, c # p,
           NEW d \in Databases, NEW e \in Databases,
           Peers(c, p, d, e), Peers(p, c, e, d),
           NEW M \in SUBSET Contents, NEW ct, NEW N, Oldest(M, ct, N), ct.kind = "aead",
           Matched(c, p, d, e, M), NEW x, x = ct.convo
    PROVE  /\ IsAdded(e, c) /\ HasConvo(d, x, p)
           /\ \/ HasConvo(e, x, c) /\ e.convos[x].c2 = ct.key
              \/ /\ e.convos[x] = Null /\ x.who = c
                 /\ ct.key = InitiatorThread(e.contacts[c].c2)
                 /\ d.convos[x].c1.thread = e.contacts[c].c2
                 /\ d.convos[x].c2.turn = 0
<1>1. ct \in Ciphertexts /\ x \in Draws /\ ct.key \in SessionKeys
  BY ContentsKinds DEF Oldest, Ciphertexts
<1>2. HasConvo(d, x, p) /\ Alike(ct.key, d.convos[x].c1)
  BY DEF Oldest, Matched, NoneTwice
<1>3. (x.who = c /\ IsAdded(d, p)) \/ (x.who = p /\ HasConvo(e, x, c))
  BY <1>1, <1>2 DEF Peers
<1>4. IsAdded(e, c)
  <2>1. CASE x.who = c /\ IsAdded(d, p)
    BY <2>1, OldestAfterHandshake DEF Matched
  <2>2. CASE x.who = p /\ HasConvo(e, x, c)
    BY <1>1, <2>2 DEF Peers
  <2> QED
    BY <1>3, <2>1, <2>2
<1>5. CASE HasConvo(e, x, c)
  <2>1. e.convos[x].c2 \in SessionKeys /\ d.convos[x].c1 \in SessionKeys
    BY <1>1, <1>2, <1>5, ConvoStates
  <2>2. Alike(d.convos[x].c1, e.convos[x].c2)
    BY <1>1, <1>2, <1>5 DEF Matched, ConvosMatch
  <2>3. e.convos[x].c2.turn = ct.key.turn
    BY <1>5, OldestIsNext DEF Matched, Got
  <2> QED
    BY <1>1, <1>2, <1>4, <1>5, <2>1, <2>2, <2>3, AlikeStates
<1>6. CASE ~HasConvo(e, x, c)
  <2>1. x.who = c /\ IsAdded(d, p)
    BY <1>3, <1>6
  <2>2. e.convos[x] = Null
    BY <1>1, <1>6, <2>1 DEF Peers
  <2>3. /\ ct.key.turn = 0 /\ d.convos[x].c2.turn = 0
        /\ ct.key.label = "initiatorThread"
        /\ ct.key.thread = d.convos[x].c1.thread
        /\ ct.key.thread.turn = Noticed(e, c)
    BY <1>6, <2>1, OldestThread
  <2>4. ThreadMatches(c, p, d, e, x)
    BY <1>1, <1>2, <2>1 DEF DrawnWith, Matched, ThreadsMatch
  <2>5. /\ d.convos[x].c1.thread \in ThreadStates /\ d.contacts[p].c1 \in ThreadStates
        /\ e.contacts[c].c2 \in ThreadStates
    BY <1>1, <1>2, <1>4, <2>1, AddedStates, ConvoStates
  <2>6. /\ Alike(d.convos[x].c1.thread, d.contacts[p].c1)
        /\ Alike(d.contacts[p].c1, e.contacts[c].c2)
    BY <1>4, <2>1, <2>4 DEF ThreadMatches, Matched, ContactsMatch
  <2>7. Alike(d.convos[x].c1.thread, e.contacts[c].c2)
    BY <2>5, <2>6, AlikeStates
  <2>8. d.convos[x].c1.thread = e.contacts[c].c2
    BY <1>4, <2>3, <2>5, <2>7, AlikeStates DEF Noticed
  <2>9. ct.key = InitiatorThread(e.contacts[c].c2)
    BY <1>1, <2>3, <2>8 DEF InitiatorThread, SessionKeys
  <2> QED
    BY <1>2, <1>4, <2>1, <2>2, <2>3, <2>8, <2>9
<1> QED
  BY <1>5, <1>6

-----------------------------------------------------------------------------
(* Reading the oldest message *)

\* f has what e has of the client q, and shows the same of it.
Untouched(e, f, q) ==
    /\ f.contacts[q] = e.contacts[q]
    /\ \A y \in Draws :
          /\ HasConvo(f, y, q) <=> HasConvo(e, y, q)
          /\ HasConvo(e, y, q) => f.convos[y] = e.convos[y]
          /\ ShownIn(f, q, y) = ShownIn(e, q, y)

LEMMA UntouchedSame ==
    ASSUME NEW e, NEW f, NEW q, Untouched(e, f, q), NEW p, NEW g
    PROVE  SameWriter(p, q, e, f, g) /\ SameReader(q, p, g, e, f)
<1>1. IsAdded(f, q) <=> IsAdded(e, q)
  BY DEF Untouched, IsAdded
<1>2. \A y \in Draws : Got(f, q, y) = Got(e, q, y)
  BY DEF Untouched, Got
<1>3. Noticed(f, q) = Noticed(e, q)
  BY <1>1 DEF Untouched, Noticed
<1> QED
  BY <1>1, <1>2, <1>3 DEF Untouched, SameWriter, SameReader

\* What the database e of a client becomes when it reads the text ct of c ...
ShowsNext(c, e, f, ct) ==
    \A q \in Clients : \A y \in Draws :
        ShownIn(f, q, y) = IF q = c /\ y = ct.convo THEN Append(ShownIn(e, q, y), ct.text)
                           ELSE ShownIn(e, q, y)

\* ... in a conversation that it has,
ReadsText(c, e, f, ct) ==
    /\ HasConvo(e, ct.convo, c) /\ e.convos[ct.convo].c2 = ct.key
    /\ f.contacts = e.contacts
    /\ f.convos = [e.convos EXCEPT ![ct.convo] =
                      [e.convos[ct.convo] EXCEPT !.c2 = AfterAEAD(ct.key)]]
    /\ ShowsNext(c, e, f, ct)

\* ... or in a new one,
ReadsTitle(c, e, f, ct) ==
    LET t2 == e.contacts[c].c2 IN
    /\ IsAdded(e, c) /\ e.convos[ct.convo] = Null
    /\ ct.key = InitiatorThread(t2)
    /\ f.contacts = [e.contacts EXCEPT ![c] = [e.contacts[c] EXCEPT !.c2 = Ratchet(t2)]]
    /\ f.convos = [e.convos EXCEPT ![ct.convo] =
                      [peer |-> c, title |-> ct.text,
                       c1 |-> ResponderThread(t2), c2 |-> AfterAEAD(ct.key)]]
    /\ ShowsNext(c, e, f, ct)

\* ... or when it reads the answer of c to its handshake.
Finishes(c, e, f, ct) ==
    /\ e.contacts[c] # Null /\ e.contacts[c].tag = 0
    /\ f.contacts = [e.contacts EXCEPT ![c] =
                        [tag |-> 2, blob |-> Null,
                         c1 |-> ThreadState(ct.init, ct.resp, "initiator"),
                         c2 |-> ThreadState(ct.init, ct.resp, "responder")]]
    /\ f.convos = e.convos /\ f.messages = e.messages

\* The other messages are still the ones that the reader has not had ...
LEMMA ReadOn ==
    ASSUME NEW c \in Clients, NEW p \in Clients, NEW d \in Databases,
           NEW e \in Databases, NEW f \in Databases,
           NEW M \in SUBSET Contents, NEW ct, NEW N, Oldest(M, ct, N), ct.kind = "aead",
           NoneTwice(c, p, d, e, M), NoneLost(c, p, d, e, M),
           IsAdded(e, c) => IsAdded(f, c),
           Got(f, c, ct.convo) = ct.key.turn + 1,
           \A y \in Draws \ {ct.convo} : Got(f, c, y) = Got(e, c, y)
    PROVE  NoneTwice(c, p, d, f, N) /\ NoneLost(c, p, d, f, N)
<1>1. \A cu \in M : cu.kind = "aead" => cu.convo \in Draws /\ cu.key.turn \in Nat
  BY ContentsKinds DEF Ciphertexts, SessionKeys
<1>2. N \subseteq M /\ ct \in M
  BY DEF Oldest
<1>3. NoneTwice(c, p, d, f, N)
  <2>1. ASSUME NEW cu \in N, cu.kind = "aead"
        PROVE  Got(f, c, cu.convo) <= cu.key.turn
    <3>1. CASE cu.convo = ct.convo
      <4>1. ct.key.turn < cu.key.turn
        BY <2>1, <3>1 DEF Oldest, Before
      <4> QED
        BY <1>1, <1>2, <2>1, <3>1, <4>1
    <3>2. CASE cu.convo # ct.convo
      BY <1>1, <1>2, <2>1, <3>2 DEF NoneTwice
    <3> QED
      BY <3>1, <3>2
  <2> QED
    BY <1>2, <2>1 DEF NoneTwice
<1>4. NoneLost(c, p, d, f, N)
  <2>1. ASSUME NEW g \in Draws, NEW h \in Draws, Accepted(d.contacts[p], g, h), ~IsAdded(f, c)
        PROVE  \E cu \in N : cu.kind = "second" /\ cu.init = g /\ cu.resp = h
    BY <2>1 DEF NoneLost, Oldest
  <2>2. ASSUME NEW x \in Draws, HasConvo(d, x, p), NEW n \in 0 .. d.convos[x].c1.turn,
               Got(f, c, x) <= n, n < d.convos[x].c1.turn
        PROVE  \E cu \in N : cu.kind = "aead" /\ cu.convo = x /\ cu.key.turn = n
    <3>1. Got(e, c, x) <= n /\ (x = ct.convo => ct.key.turn < n)
      <4>1. Got(e, c, ct.convo) <= ct.key.turn
        BY <1>2 DEF NoneTwice
      <4>2. Got(e, c, ct.convo) \in Nat /\ n \in Nat
        BY <1>1, <1>2, <2>2, CountsType, ConvoStates
      <4> QED
        BY <1>1, <1>2, <2>2, <4>1, <4>2
    <3>2. PICK cu \in M : cu.kind = "aead" /\ cu.convo = x /\ cu.key.turn = n
      BY <2>2, <3>1 DEF NoneLost
    <3>3. cu # ct
      BY <1>1, <1>2, <2>2, <3>1, <3>2
    <3> QED
      BY <3>2, <3>3 DEF Oldest
  <2> QED
    BY <2>1, <2>2 DEF NoneLost
<1> QED
  BY <1>3, <1>4

\* ... and it is shown the next of the texts that were typed.
LEMMA ShownOn ==
    ASSUME NEW c \in Clients, NEW p \in Clients, NEW d \in Databases,
           NEW e \in Databases, NEW f \in Databases,
           NEW M \in SUBSET Contents, NEW ct, NEW N, Oldest(M, ct, N), ct.kind = "aead",
           NEW cts \in Seq(Ciphertexts), TextsMatch(c, p, d, e, M, cts), NoneTwice(c, p, d, e, M),
           Got(e, c, ct.convo) = ct.key.turn,
           Got(f, c, ct.convo) = ct.key.turn + 1,
           \A y \in Draws \ {ct.convo} : Got(f, c, y) = Got(e, c, y),
           ShowsNext(c, e, f, ct)
    PROVE  TextsMatch(c, p, d, f, N, cts)
<1>1. ct \in Ciphertexts /\ ct.convo \in Draws /\ ct.key.turn \in Nat /\ ct.text \in Texts
  BY ContentsKinds DEF Oldest, Ciphertexts, SessionKeys
<1> SUFFICES ASSUME NEW x \in Draws
             PROVE  LET typed == TypedIn(cts, x, p)    shown == ShownIn(f, c, x) IN
                    /\ Len(typed) = IF HasConvo(d, x, p) THEN d.convos[x].c1.turn ELSE 0
                    /\ Len(shown) = Got(f, c, x)
                    /\ \A k \in DOMAIN shown : k \in DOMAIN typed /\ shown[k] = typed[k]
                    /\ \A cu \in N : cu.kind = "aead" /\ cu.convo = x =>
                          typed[cu.key.turn + 1] = cu.text
  BY DEF TextsMatch
<1> DEFINE typed == TypedIn(cts, x, p)
           old == ShownIn(e, c, x)
           new == ShownIn(f, c, x)
<1>2. /\ Len(typed) = IF HasConvo(d, x, p) THEN d.convos[x].c1.turn ELSE 0
      /\ Len(old) = Got(e, c, x)
      /\ \A k \in DOMAIN old : k \in DOMAIN typed /\ old[k] = typed[k]
      /\ \A cu \in M : cu.kind = "aead" /\ cu.convo = x => typed[cu.key.turn + 1] = cu.text
  BY DEF TextsMatch
<1>3. \A cu \in N : cu.kind = "aead" /\ cu.convo = x => typed[cu.key.turn + 1] = cu.text
  BY <1>2 DEF Oldest
<1>4. CASE x # ct.convo
  <2>1. new = old /\ Got(f, c, x) = Got(e, c, x)
    BY <1>4 DEF ShowsNext
  <2> QED
    BY <1>2, <1>3, <2>1
<1>5. CASE x = ct.convo
  <2>1. new = Append(old, ct.text) /\ old \in Seq(Texts)
    BY <1>1, <1>5, ShownType DEF ShowsNext
  <2>2. Len(old) = ct.key.turn
    BY <1>2, <1>5
  <2>3. HasConvo(d, x, p) /\ ct.key.turn < d.convos[x].c1.turn /\ d.convos[x].c1.turn \in Nat
    BY <1>5, ConvoStates DEF Oldest, NoneTwice
  <2>4. typed[ct.key.turn + 1] = ct.text
    BY <1>2, <1>5 DEF Oldest
  <2>5. DOMAIN typed = 1 .. Len(typed)
    BY TypedType
  <2> HIDE DEF typed, old, new
  <2>6. Len(new) = ct.key.turn + 1
    BY <1>1, <2>1, <2>2
  <2>7. ASSUME NEW k \in DOMAIN new
        PROVE  k \in DOMAIN typed /\ new[k] = typed[k]
    <3>1. CASE k = ct.key.turn + 1
      BY <1>1, <1>2, <2>1, <2>2, <2>3, <2>4, <2>5, <3>1
    <3>2. CASE k # ct.key.turn + 1
      <4>1. k \in DOMAIN old /\ new[k] = old[k]
        BY <1>1, <2>1, <2>2, <2>7, <3>2
      <4> QED
        BY <1>2, <4>1
    <3> QED
      BY <3>1, <3>2
  <2> QED
    BY <1>2, <1>3, <1>5, <2>6, <2>7 DEF typed, new
<1> QED
  BY <1>4, <1>5

\* What reading a text changes of the rows.
LEMMA ReadsTextRows ==
    ASSUME NEW c \in Clients, NEW e \in Databases, NEW f \in Databases,
           NEW ct \in Ciphertexts, ReadsText(c, e, f, ct), NEW x, x = ct.convo
    PROVE  /\ x \in Draws /\ HasConvo(f, x, c)
           /\ f.convos[x].c1 = e.convos[x].c1
           /\ f.convos[x].c2.thread = ct.key.thread /\ f.convos[x].c2.label = ct.key.label
           /\ f.convos[x].c2.turn = ct.key.turn + 1
           /\ Got(e, c, x) = ct.key.turn /\ Got(f, c, x) = ct.key.turn + 1
           /\ \A y \in Draws \ {x} : f.convos[y] = e.convos[y]
<1>1. x \in Draws /\ ct.key \in SessionKeys
  BY DEF Ciphertexts
<1>2. HasConvo(e, x, c) /\ e.convos[x].c2 = ct.key /\ e.convos[x] \in ConvoRows
  BY <1>1, ConvoStates DEF ReadsText
<1>3. /\ e.convos \in [Draws -> ConvoRows \cup {Null}]
      /\ f.convos \in [Draws -> ConvoRows \cup {Null}]
  BY DEF Databases
<1>4. PICK o, u, k1, k2 : e.convos[x] = [peer |-> o, title |-> u, c1 |-> k1, c2 |-> k2]
  BY <1>2 DEF ConvoRows
<1>5. /\ f.convos[x] = [e.convos[x] EXCEPT !.c2 = AfterAEAD(ct.key)]
      /\ \A y \in Draws \ {x} : f.convos[y] = e.convos[y]
  BY <1>1, <1>3 DEF ReadsText
<1>6. f.convos[x] = [peer |-> o, title |-> u, c1 |-> k1, c2 |-> AfterAEAD(ct.key)]
  BY <1>4, <1>5
<1>7. f.convos[x] # Null
  <2>1. f.convos[x] \in ConvoRows
    BY <1>1, <1>2, <1>4, <1>6, KeysType DEF ConvoRows
  <2> QED
    BY <2>1, RowAssumption
<1>8. /\ f.convos[x].peer = e.convos[x].peer /\ f.convos[x].c1 = e.convos[x].c1
      /\ f.convos[x].c2 = AfterAEAD(ct.key)
  BY <1>4, <1>6
<1>9. /\ AfterAEAD(ct.key).thread = ct.key.thread /\ AfterAEAD(ct.key).label = ct.key.label
      /\ AfterAEAD(ct.key).turn = ct.key.turn + 1
  BY <1>1 DEF AfterAEAD, SessionKeys
<1>10. HasConvo(f, x, c)
  BY <1>2, <1>7, <1>8 DEF HasConvo
<1> QED
  BY <1>1, <1>2, <1>5, <1>8, <1>9, <1>10 DEF Got

\* A text of a conversation that the reader has: for the reader ...
LEMMA TextReader ==
    ASSUME NEW c \in Clients, NEW p \in Clients, NEW d \in Databases,
           NEW e \in Databases, NEW f \in Databases,
           NEW M \in SUBSET Contents, NEW ct \in Ciphertexts, NEW N, Oldest(M, ct, N),
           NEW cts \in Seq(Ciphertexts),
           Matched(c, p, d, e, M), TextsMatch(c, p, d, e, M, cts), ReadsText(c, e, f, ct)
    PROVE  Matched(c, p, d, f, N) /\ TextsMatch(c, p, d, f, N, cts)
<1> DEFINE x == ct.convo
<1>1. /\ x \in Draws /\ HasConvo(f, x, c)
      /\ f.convos[x].c1 = e.convos[x].c1
      /\ f.convos[x].c2.thread = ct.key.thread /\ f.convos[x].c2.label = ct.key.label
      /\ f.convos[x].c2.turn = ct.key.turn + 1
      /\ Got(e, c, x) = ct.key.turn /\ Got(f, c, x) = ct.key.turn + 1
      /\ \A y \in Draws \ {x} : f.convos[y] = e.convos[y]
  BY ReadsTextRows
<1>2. HasConvo(e, x, c) /\ e.convos[x].c2 = ct.key /\ f.contacts = e.contacts
  BY DEF ReadsText
<1>3. /\ \A y \in Draws : HasConvo(f, y, c) <=> HasConvo(e, y, c)
      /\ \A y \in Draws \ {x} : Got(f, c, y) = Got(e, c, y)
  BY <1>1, <1>2 DEF HasConvo, Got
<1>4. (IsAdded(f, c) <=> IsAdded(e, c)) /\ Noticed(f, c) = Noticed(e, c)
  BY <1>2 DEF IsAdded, Noticed
<1>5. ct.kind = "aead" /\ ct.key \in SessionKeys
  BY DEF Ciphertexts
<1>6. ContactsMatch(c, p, d, f)
  BY <1>2, <1>4 DEF Matched, ContactsMatch
<1>7. ThreadsMatch(c, p, d, f)
  BY <1>3, <1>4 DEF Matched, ThreadsMatch, ThreadMatches, DrawnWith
<1>8. /\ HasConvo(d, x, p) /\ Alike(ct.key, d.convos[x].c1)
      /\ ct.key.turn < d.convos[x].c1.turn
  BY <1>5 DEF Matched, NoneTwice, Oldest
<1>9. ConvosMatch(c, p, d, f)
  <2>1. ASSUME NEW y \in Draws, HasConvo(d, y, p), HasConvo(f, y, c)
        PROVE  /\ Alike(d.convos[y].c1, f.convos[y].c2)
               /\ f.convos[y].c2.turn <= d.convos[y].c1.turn
    <3>1. CASE y = x
      <4>1. d.convos[x].c1 \in SessionKeys /\ f.convos[x].c2 \in SessionKeys
        BY <1>1, <1>8, ConvoStates
      <4>2. Alike(d.convos[x].c1, f.convos[x].c2)
        BY <1>1, <1>5, <1>8, <4>1, AlikeStates
      <4>3. ct.key.turn + 1 <= d.convos[x].c1.turn
        BY <1>5, <1>8, <4>1, SMTT(20) DEF SessionKeys
      <4> QED
        BY <1>1, <3>1, <4>2, <4>3
    <3>2. CASE y # x
      BY <1>1, <1>3, <2>1, <3>2 DEF Matched, ConvosMatch
    <3> QED
      BY <3>1, <3>2
  <2> QED
    BY <2>1 DEF ConvosMatch
<1>10. NoneTwice(c, p, d, f, N) /\ NoneLost(c, p, d, f, N)
  BY <1>1, <1>3, <1>4, <1>5, ReadOn DEF Matched
<1>11. TextsMatch(c, p, d, f, N, cts)
  BY <1>1, <1>3, <1>5, ShownOn DEF Matched, ReadsText
<1> QED
  BY <1>6, <1>7, <1>9, <1>10, <1>11 DEF Matched

\* ... for it as the writer of the other direction ...
LEMMA TextWriter ==
    ASSUME NEW c \in Clients, NEW p \in Clients, NEW d,
           NEW e \in Databases, NEW f \in Databases,
           NEW ct \in Ciphertexts, ReadsText(c, e, f, ct), HasConvo(d, ct.convo, p)
    PROVE  SameWriter(p, c, e, f, d)
<1> DEFINE x == ct.convo
<1>1. /\ x \in Draws /\ HasConvo(f, x, c)
      /\ f.convos[x].c1 = e.convos[x].c1
      /\ f.convos[x].c2.thread = ct.key.thread /\ f.convos[x].c2.label = ct.key.label
      /\ \A y \in Draws \ {x} : f.convos[y] = e.convos[y]
  BY ReadsTextRows
<1>2. HasConvo(e, x, c) /\ e.convos[x].c2 = ct.key /\ f.contacts = e.contacts
  BY DEF ReadsText
<1> QED
  BY <1>1, <1>2 DEF SameWriter, HasConvo, IsAdded

\* ... and for everyone else.
LEMMA TextOthers ==
    ASSUME NEW c \in Clients, NEW e \in Databases, NEW f \in Databases,
           NEW ct \in Ciphertexts, ReadsText(c, e, f, ct), NEW q \in Clients, q # c
    PROVE  Untouched(e, f, q)
<1> DEFINE x == ct.convo
<1>1. /\ x \in Draws /\ HasConvo(f, x, c) /\ HasConvo(e, x, c) /\ f.contacts = e.contacts
      /\ \A y \in Draws \ {x} : f.convos[y] = e.convos[y]
  BY ReadsTextRows DEF ReadsText
<1> QED
  BY <1>1 DEF Untouched, HasConvo, ReadsText, ShowsNext

\* What reading a title changes of the rows.
LEMMA ReadsTitleRows ==
    ASSUME NEW c \in Clients, NEW e \in Databases, NEW f \in Databases,
           NEW ct \in Ciphertexts, ReadsTitle(c, e, f, ct), NEW x, x = ct.convo,
           NEW t2, t2 = e.contacts[c].c2
    PROVE  /\ x \in Draws /\ t2 \in ThreadStates /\ HasConvo(f, x, c) /\ e.convos[x] = Null
           /\ f.convos[x].c1 = ResponderThread(t2)
           /\ f.convos[x].c2 = AfterAEAD(ct.key) /\ ct.key.turn = 0
           /\ Got(e, c, x) = 0 /\ Got(f, c, x) = 1
           /\ \A y \in Draws \ {x} : f.convos[y] = e.convos[y]
           /\ IsAdded(e, c) /\ IsAdded(f, c)
           /\ f.contacts[c].c1 = e.contacts[c].c1 /\ f.contacts[c].c2 = Ratchet(t2)
           /\ \A q \in Clients \ {c} : f.contacts[q] = e.contacts[q]
<1>1. x \in Draws /\ ct.key \in SessionKeys /\ ct.text \in Texts
  BY DEF Ciphertexts
<1>2. /\ IsAdded(e, c) /\ e.convos[x] = Null /\ ct.key = InitiatorThread(t2)
      /\ t2 \in ThreadStates /\ e.contacts[c] \in ContactRows
  BY AddedStates DEF ReadsTitle
<1>3. /\ e.convos \in [Draws -> ConvoRows \cup {Null}]
      /\ f.convos \in [Draws -> ConvoRows \cup {Null}]
      /\ e.contacts \in [Clients -> ContactRows \cup {Null}]
      /\ f.contacts \in [Clients -> ContactRows \cup {Null}]
  BY DEF Databases
<1>4. /\ f.convos[x] = [peer |-> c, title |-> ct.text,
                        c1 |-> ResponderThread(t2), c2 |-> AfterAEAD(ct.key)]
      /\ \A y \in Draws \ {x} : f.convos[y] = e.convos[y]
  BY <1>1, <1>3 DEF ReadsTitle
<1>5. f.convos[x] # Null
  <2>1. ResponderThread(t2) \in SessionKeys /\ AfterAEAD(ct.key) \in SessionKeys
    BY <1>1, <1>2, KeysType
  <2>2. f.convos[x] \in ConvoRows
    BY <1>1, <1>4, <2>1 DEF ConvoRows
  <2> QED
    BY <2>2, RowAssumption
<1>6. HasConvo(f, x, c)
  BY <1>4, <1>5 DEF HasConvo
<1>7. /\ f.contacts[c] = [e.contacts[c] EXCEPT !.c2 = Ratchet(t2)]
      /\ \A q \in Clients \ {c} : f.contacts[q] = e.contacts[q]
  BY <1>3 DEF ReadsTitle
<1>8. e.contacts[c].tag = 2
  BY <1>2 DEF IsAdded
<1>9. PICK b, k1, k2 : e.contacts[c] = [tag |-> 2, blob |-> b, c1 |-> k1, c2 |-> k2]
  BY <1>2, <1>8 DEF ContactRows
<1>10. f.contacts[c] = [tag |-> 2, blob |-> b, c1 |-> k1, c2 |-> Ratchet(t2)]
  BY <1>7, <1>9
<1>11. /\ f.contacts[c].c1 = e.contacts[c].c1 /\ f.contacts[c].c2 = Ratchet(t2)
       /\ f.contacts[c].tag = 2
  BY <1>9, <1>10
<1>12. f.contacts[c] # Null
  <2>1. Ratchet(t2) \in ThreadStates
    BY <1>2, KeysType
  <2>2. f.contacts[c] \in ContactRows
    BY <1>2, <1>9, <1>10, <2>1 DEF ContactRows
  <2> QED
    BY <2>2, RowAssumption
<1>13. IsAdded(f, c)
  BY <1>11, <1>12 DEF IsAdded
<1>14. ct.key.turn = 0
  BY <1>2 DEF InitiatorThread
<1>15. Got(e, c, x) = 0
  BY <1>2 DEF Got, HasConvo
<1>16. Got(f, c, x) = 1
  <2>1. AfterAEAD(ct.key).turn = 1
    BY <1>1, <1>14 DEF AfterAEAD, SessionKeys
  <2> QED
    BY <1>4, <1>6, <2>1 DEF Got
<1>17. f.convos[x].c1 = ResponderThread(t2) /\ f.convos[x].c2 = AfterAEAD(ct.key)
  BY <1>4
<1> QED
  BY <1>1, <1>2, <1>4, <1>6, <1>7, <1>11, <1>13, <1>14, <1>15, <1>16, <1>17

\* A title: for the reader ...
LEMMA TitleReader ==
    ASSUME NEW c \in Clients, NEW p \in Clients, NEW d \in Databases,
           NEW e \in Databases, NEW f \in Databases,
           NEW M \in SUBSET Contents, NEW ct \in Ciphertexts, NEW N, Oldest(M, ct, N),
           NEW cts \in Seq(Ciphertexts),
           Matched(c, p, d, e, M), TextsMatch(c, p, d, e, M, cts), ReadsTitle(c, e, f, ct),
           ct.convo.who = c, d.convos[ct.convo].c1.thread = e.contacts[c].c2
    PROVE  Matched(c, p, d, f, N) /\ TextsMatch(c, p, d, f, N, cts)
<1> DEFINE x == ct.convo
           t2 == e.contacts[c].c2
<1>1. /\ x \in Draws /\ t2 \in ThreadStates /\ HasConvo(f, x, c) /\ e.convos[x] = Null
      /\ f.convos[x].c1 = ResponderThread(t2)
      /\ f.convos[x].c2 = AfterAEAD(ct.key) /\ ct.key.turn = 0
      /\ Got(e, c, x) = 0 /\ Got(f, c, x) = 1
      /\ \A y \in Draws \ {x} : f.convos[y] = e.convos[y]
      /\ IsAdded(e, c) /\ IsAdded(f, c)
      /\ f.contacts[c].c2 = Ratchet(t2)
  BY ReadsTitleRows
<1>2. ct.kind = "aead" /\ ct.key \in SessionKeys
  BY DEF Ciphertexts
<1>3. /\ HasConvo(d, x, p) /\ Alike(ct.key, d.convos[x].c1)
      /\ ct.key.turn < d.convos[x].c1.turn
  BY <1>2 DEF Matched, NoneTwice, Oldest
<1>4. /\ \A y \in Draws \ {x} : HasConvo(f, y, c) <=> HasConvo(e, y, c)
      /\ \A y \in Draws \ {x} : Got(f, c, y) = Got(e, c, y)
  BY <1>1 DEF HasConvo, Got
<1>5. x \in DrawnWith(d, c, p)
  BY <1>1, <1>3 DEF DrawnWith
<1>6. ThreadMatches(c, p, d, e, x) /\ ~HasConvo(e, x, c)
  BY <1>1, <1>5 DEF Matched, ThreadsMatch, HasConvo
<1>7. /\ t2.turn \in Nat /\ Ratchet(t2) \in ThreadStates /\ Ratchet(t2).turn = t2.turn + 1
      /\ Noticed(e, c) = t2.turn /\ Noticed(f, c) = t2.turn + 1
      /\ Alike(t2, Ratchet(t2))
  <2>1. t2.turn \in Nat /\ Ratchet(t2) \in ThreadStates /\ Ratchet(t2).turn = t2.turn + 1
    BY <1>1, KeysType DEF Ratchet, ThreadStates
  <2>2. Alike(t2, Ratchet(t2))
    <3>1. /\ t2.init = Ratchet(t2).init /\ t2.resp = Ratchet(t2).resp
          /\ t2.from = Ratchet(t2).from
      BY <1>1 DEF Ratchet, ThreadStates
    <3> QED
      BY <1>1, <2>1, <3>1, AlikeStates
  <2> QED
    BY <1>1, <2>1, <2>2 DEF Noticed
<1>8. t2.turn < Created(d, p) /\ Created(d, p) \in Nat
  BY <1>6, CountsType DEF ThreadMatches
<1>9. ContactsMatch(c, p, d, f)
  <2>1. Noticed(f, c) <= Created(d, p)
    BY <1>7, <1>8
  <2>2. ASSUME IsAdded(d, p) PROVE Alike(d.contacts[p].c1, f.contacts[c].c2)
    <3>1. d.contacts[p].c1 \in ThreadStates /\ Alike(d.contacts[p].c1, t2)
      BY <1>1, <2>2, AddedStates DEF Matched, ContactsMatch
    <3> QED
      BY <1>1, <1>7, <3>1, AlikeStates
  <2> QED
    BY <2>1, <2>2 DEF ContactsMatch
<1>10. ThreadsMatch(c, p, d, f)
  <2>1. ASSUME NEW y \in DrawnWith(d, c, p)
        PROVE  ThreadMatches(c, p, d, f, y)
    <3>1. y \in Draws /\ HasConvo(d, y, p) /\ ThreadMatches(c, p, d, e, y)
      BY DEF DrawnWith, Matched, ThreadsMatch
    <3>2. CASE y = x
      BY <1>1, <1>7, <3>1, <3>2, SMTT(20) DEF ThreadMatches
    <3>3. CASE y # x
      <4>1. d.convos[y].c1.thread.turn # t2.turn
        BY <1>5, <3>3 DEF Matched, ThreadsMatch
      <4>2. d.convos[y].c1.thread.turn \in Nat
        BY <3>1, ConvoStates
      <4>3. d.convos[y].c1.thread.turn < t2.turn + 1 <=> d.convos[y].c1.thread.turn < t2.turn
        BY <1>7, <4>1, <4>2
      <4>4. HasConvo(f, y, c) <=> HasConvo(e, y, c)
        BY <1>4, <3>1, <3>3
      <4> QED
        BY <1>7, <3>1, <4>3, <4>4 DEF ThreadMatches
    <3> QED
      BY <3>2, <3>3
  <2> QED
    BY <2>1 DEF Matched, ThreadsMatch
<1>11. ConvosMatch(c, p, d, f)
  <2>1. ASSUME NEW y \in Draws, HasConvo(d, y, p), HasConvo(f, y, c)
        PROVE  /\ Alike(d.convos[y].c1, f.convos[y].c2)
               /\ f.convos[y].c2.turn <= d.convos[y].c1.turn
    <3>1. CASE y = x
      <4>1. d.convos[x].c1 \in SessionKeys /\ AfterAEAD(ct.key) \in SessionKeys
        BY <1>1, <1>2, <1>3, ConvoStates, KeysType
      <4>2. /\ AfterAEAD(ct.key).thread = ct.key.thread
            /\ AfterAEAD(ct.key).label = ct.key.label /\ AfterAEAD(ct.key).turn = 1
        BY <1>1, <1>2 DEF AfterAEAD, SessionKeys
      <4>3. Alike(d.convos[x].c1, AfterAEAD(ct.key))
        BY <1>2, <1>3, <4>1, <4>2, AlikeStates
      <4>4. 1 <= d.convos[x].c1.turn
        BY <1>1, <1>3, <4>1 DEF SessionKeys
      <4> QED
        BY <1>1, <3>1, <4>2, <4>3, <4>4
    <3>2. CASE y # x
      BY <1>1, <1>4, <2>1, <3>2 DEF Matched, ConvosMatch
    <3> QED
      BY <3>1, <3>2
  <2> QED
    BY <2>1 DEF ConvosMatch
<1>12. NoneTwice(c, p, d, f, N) /\ NoneLost(c, p, d, f, N)
  <2>1. Got(f, c, x) = ct.key.turn + 1
    BY <1>1
  <2> QED
    BY <1>1, <1>2, <1>4, <2>1, ReadOn DEF Matched
<1>13. TextsMatch(c, p, d, f, N, cts)
  <2>1. Got(f, c, x) = ct.key.turn + 1 /\ Got(e, c, x) = ct.key.turn
    BY <1>1
  <2> QED
    BY <1>1, <1>2, <1>4, <2>1, ShownOn DEF Matched, ReadsTitle
<1> QED
  BY <1>9, <1>10, <1>11, <1>12, <1>13 DEF Matched

\* ... for it as the writer of the other direction ...
LEMMA TitleWriter ==
    ASSUME NEW c \in Clients, NEW p \in Clients, c # p, NEW d \in Databases,
           NEW e \in Databases, NEW f \in Databases,
           NEW ct \in Ciphertexts, ReadsTitle(c, e, f, ct),
           ct.convo.who = c, HasConvo(d, ct.convo, p),
           d.convos[ct.convo].c1.thread = e.contacts[c].c2,
           d.convos[ct.convo].c2.turn = 0,
           NEW K, Matched(c, p, d, e, K),
           NEW M \in SUBSET Contents, NEW cts \in Seq(Ciphertexts),
           Matched(p, c, e, d, M), TextsMatch(p, c, e, d, M, cts)
    PROVE  Matched(p, c, f, d, M) /\ TextsMatch(p, c, f, d, M, cts)
<1> DEFINE x == ct.convo
           t2 == e.contacts[c].c2
<1>1. /\ x \in Draws /\ t2 \in ThreadStates /\ HasConvo(f, x, c) /\ e.convos[x] = Null
      /\ f.convos[x].c1 = ResponderThread(t2)
      /\ \A y \in Draws \ {x} : f.convos[y] = e.convos[y]
      /\ IsAdded(e, c) /\ IsAdded(f, c)
      /\ f.contacts[c].c1 = e.contacts[c].c1
  BY ReadsTitleRows
<1>2. /\ Created(f, c) = Created(e, c)
      /\ \A g, h : Accepted(f.contacts[c], g, h) <=> Accepted(e.contacts[c], g, h)
  BY <1>1 DEF Created, Accepted, IsAdded
<1>3. \A y \in Draws \ {x} : HasConvo(f, y, c) <=> HasConvo(e, y, c)
  BY <1>1 DEF HasConvo
<1>4. ~HasConvo(e, x, c)
  BY <1>1 DEF HasConvo
<1>5. ContactsMatch(p, c, f, d)
  BY <1>1, <1>2 DEF Matched, ContactsMatch
<1>6. ThreadsMatch(p, c, f, d)
  <2>1. DrawnWith(f, p, c) = DrawnWith(e, p, c)
    BY <1>3 DEF DrawnWith
  <2>2. \A y \in DrawnWith(e, p, c) : f.convos[y] = e.convos[y]
    BY <1>1 DEF DrawnWith
  <2> QED
    BY <1>1, <1>2, <2>1, <2>2, SMTT(20) DEF Matched, ThreadsMatch, ThreadMatches
<1>7. /\ f.convos[x].c1 \in SessionKeys /\ f.convos[x].c1.turn = 0
      /\ f.convos[x].c1.thread = t2 /\ f.convos[x].c1.label = "responderThread"
  <2>1. f.convos[x].c1 \in SessionKeys
    BY <1>1, KeysType
  <2> QED
    BY <1>1, <2>1 DEF ResponderThread
<1>8. ConvosMatch(p, c, f, d)
  <2>1. ASSUME NEW y \in Draws, HasConvo(f, y, c), HasConvo(d, y, p)
        PROVE  /\ Alike(f.convos[y].c1, d.convos[y].c2)
               /\ d.convos[y].c2.turn <= f.convos[y].c1.turn
    <3>1. CASE y = x
      <4>1. x \in DrawnWith(d, c, p)
        BY <1>1 DEF DrawnWith
      <4>2. ThreadMatches(c, p, d, e, x)
        BY <4>1 DEF Matched, ThreadsMatch
      <4>3. d.convos[x].c2.label = "responderThread" /\ d.convos[x].c2.thread = t2
        BY <4>2 DEF ThreadMatches
      <4>4. d.convos[x].c2 \in SessionKeys
        BY <1>1, ConvoStates
      <4> QED
        BY <1>7, <3>1, <4>3, <4>4, AlikeStates
    <3>2. CASE y # x
      BY <1>1, <1>3, <2>1, <3>2 DEF Matched, ConvosMatch
    <3> QED
      BY <3>1, <3>2
  <2> QED
    BY <2>1 DEF ConvosMatch
<1>9. NoneTwice(p, c, f, d, M)
  <2>1. ASSUME NEW cu \in M, cu.kind = "aead"
        PROVE  cu.convo \in Draws \ {x} /\ HasConvo(f, cu.convo, c)
    <3>1. cu.convo \in Draws /\ HasConvo(e, cu.convo, c)
      BY <2>1, ContentsKinds DEF Ciphertexts, Matched, NoneTwice
    <3> QED
      BY <1>3, <1>4, <3>1
  <2> QED
    BY <1>1, <1>2, <2>1 DEF Matched, NoneTwice
<1>10. NoneLost(p, c, f, d, M)
  <2>1. ASSUME NEW y \in Draws, HasConvo(f, y, c), NEW n \in 0 .. f.convos[y].c1.turn,
               Got(d, p, y) <= n, n < f.convos[y].c1.turn
        PROVE  \E cu \in M : cu.kind = "aead" /\ cu.convo = y /\ cu.key.turn = n
    <3>1. y # x
      BY <1>7, <2>1
    <3> QED
      BY <1>1, <1>3, <2>1, <3>1 DEF Matched, NoneLost
  <2>2. \A g, h \in Draws : Accepted(f.contacts[c], g, h) /\ ~IsAdded(d, p) =>
           \E cu \in M : cu.kind = "second" /\ cu.init = g /\ cu.resp = h
    BY <1>2 DEF Matched, NoneLost
  <2> QED
    BY <2>1, <2>2 DEF NoneLost
<1>11. TextsMatch(p, c, f, d, M, cts)
  <2>1. ASSUME NEW y \in Draws
        PROVE  (IF HasConvo(f, y, c) THEN f.convos[y].c1.turn ELSE 0)
                  = (IF HasConvo(e, y, c) THEN e.convos[y].c1.turn ELSE 0)
    <3>1. CASE y = x
      BY <1>1, <1>4, <1>7, <3>1
    <3>2. CASE y # x
      BY <1>1, <1>3, <3>2
    <3> QED
      BY <3>1, <3>2
  <2> QED
    BY <2>1 DEF TextsMatch
<1> QED
  BY <1>5, <1>6, <1>8, <1>9, <1>10, <1>11 DEF Matched

\* ... and for everyone else.
LEMMA TitleOthers ==
    ASSUME NEW c \in Clients, NEW e \in Databases, NEW f \in Databases,
           NEW ct \in Ciphertexts, ReadsTitle(c, e, f, ct), NEW q \in Clients, q # c
    PROVE  Untouched(e, f, q)
<1> DEFINE x == ct.convo
<1>1. /\ x \in Draws /\ HasConvo(f, x, c) /\ e.convos[x] = Null
      /\ f.contacts[q] = e.contacts[q]
      /\ \A y \in Draws \ {x} : f.convos[y] = e.convos[y]
  BY ReadsTitleRows
<1> QED
  BY <1>1 DEF Untouched, HasConvo, ReadsTitle, ShowsNext

\* What finishing a contact changes of the rows.
LEMMA FinishesRows ==
    ASSUME NEW c \in Clients, NEW e \in Databases, NEW f \in Databases,
           NEW ct, ct.init \in Draws, ct.resp \in Draws, Finishes(c, e, f, ct)
    PROVE  /\ ~IsAdded(e, c) /\ IsAdded(f, c) /\ e.contacts[c].tag = 0
           /\ f.contacts[c].c1 = ThreadState(ct.init, ct.resp, "initiator")
           /\ f.contacts[c].c2 = ThreadState(ct.init, ct.resp, "responder")
           /\ \A q \in Clients \ {c} : f.contacts[q] = e.contacts[q]
           /\ f.convos = e.convos
           /\ \A q, x : HasConvo(f, x, q) <=> HasConvo(e, x, q)
           /\ \A q, x : Got(f, q, x) = Got(e, q, x)
           /\ \A q, x : ShownIn(f, q, x) = ShownIn(e, q, x)
<1> DEFINE t1 == ThreadState(ct.init, ct.resp, "initiator")
           t2 == ThreadState(ct.init, ct.resp, "responder")
<1>1. /\ e.contacts \in [Clients -> ContactRows \cup {Null}]
      /\ f.contacts \in [Clients -> ContactRows \cup {Null}]
  BY DEF Databases
<1>2. /\ f.contacts[c] = [tag |-> 2, blob |-> Null, c1 |-> t1, c2 |-> t2]
      /\ \A q \in Clients \ {c} : f.contacts[q] = e.contacts[q]
      /\ f.convos = e.convos
  BY <1>1 DEF Finishes
<1>3. t1 \in ThreadStates /\ t2 \in ThreadStates
  BY KeysType
<1> HIDE DEF t1, t2
<1>4. f.contacts[c] # Null
  <2>1. f.contacts[c] \in ContactRows
    BY <1>2, <1>3 DEF ContactRows
  <2> QED
    BY <2>1, RowAssumption
<1>5. ~IsAdded(e, c) /\ IsAdded(f, c) /\ e.contacts[c].tag = 0
  BY <1>2, <1>4 DEF Finishes, IsAdded
<1>6. \A q, x : ShownIn(f, q, x) = ShownIn(e, q, x)
  BY <1>2, ShownRow DEF Finishes
<1> QED
  BY <1>2, <1>5, <1>6 DEF HasConvo, Got, t1, t2

\* The answer to a handshake: for the reader ...
LEMMA FinishReader ==
    ASSUME NEW c \in Clients, NEW p \in Clients, NEW d \in Databases,
           NEW e \in Databases, NEW f \in Databases,
           NEW M \in SUBSET Contents, NEW ct, NEW N, Oldest(M, ct, N),
           ct.kind = "second", ct.init \in Draws, ct.resp \in Draws,
           NEW cts,
           Matched(c, p, d, e, M), TextsMatch(c, p, d, e, M, cts), Finishes(c, e, f, ct)
    PROVE  Matched(c, p, d, f, N) /\ TextsMatch(c, p, d, f, N, cts)
<1> DEFINE t2 == ThreadState(ct.init, ct.resp, "responder")
<1>1. /\ ~IsAdded(e, c) /\ IsAdded(f, c) /\ f.contacts[c].c2 = t2
      /\ f.convos = e.convos
      /\ \A x : HasConvo(f, x, c) <=> HasConvo(e, x, c)
      /\ \A x : Got(f, c, x) = Got(e, c, x)
      /\ \A x : ShownIn(f, c, x) = ShownIn(e, c, x)
  BY FinishesRows
<1>2. /\ t2 \in ThreadStates /\ t2.turn = 0
      /\ t2.init = ct.init /\ t2.resp = ct.resp /\ t2.from = "responder"
  BY KeysType DEF ThreadState
<1> HIDE DEF t2
<1>3. Noticed(f, c) = 0 /\ Noticed(e, c) = 0
  BY <1>1, <1>2 DEF Noticed
<1>4. Accepted(d.contacts[p], ct.init, ct.resp)
  BY DEF Matched, NoneTwice, Oldest
<1>5. ContactsMatch(c, p, d, f)
  <2>1. IsAdded(d, p)
    BY <1>4 DEF Accepted, IsAdded
  <2>2. Alike(d.contacts[p].c1, f.contacts[c].c2)
    BY <1>1, <1>2, <1>4, <2>1, AddedStates, AlikeStates DEF Accepted
  <2> QED
    BY <1>3, <2>2 DEF Matched, ContactsMatch
<1>6. ThreadsMatch(c, p, d, f)
  BY <1>1, <1>3 DEF Matched, ThreadsMatch, ThreadMatches
<1>7. ConvosMatch(c, p, d, f)
  BY <1>1 DEF Matched, ConvosMatch
<1>8. NoneTwice(c, p, d, f, N)
  BY <1>1 DEF Matched, NoneTwice, Oldest
<1>9. NoneLost(c, p, d, f, N)
  <2>1. ASSUME NEW x \in Draws, HasConvo(d, x, p), NEW n \in 0 .. d.convos[x].c1.turn,
               Got(f, c, x) <= n, n < d.convos[x].c1.turn
        PROVE  \E cu \in N : cu.kind = "aead" /\ cu.convo = x /\ cu.key.turn = n
    <3>1. PICK cu \in M : cu.kind = "aead" /\ cu.convo = x /\ cu.key.turn = n
      BY <1>1, <2>1 DEF Matched, NoneLost
    <3> QED
      BY <3>1 DEF Oldest
  <2> QED
    BY <1>1, <2>1 DEF NoneLost
<1>10. TextsMatch(c, p, d, f, N, cts)
  BY <1>1 DEF TextsMatch, Oldest
<1> QED
  BY <1>5, <1>6, <1>7, <1>8, <1>9, <1>10 DEF Matched

\* ... for it as the writer of the other direction, in which nothing was
\* written ...
LEMMA FinishWriter ==
    ASSUME NEW c \in Clients, NEW p \in Clients, c # p, NEW d \in Databases,
           NEW e \in Databases, NEW f \in Databases,
           Peers(c, p, d, e), Peers(p, c, e, d),
           NEW ct, ct.init \in Draws, ct.resp \in Draws, Finishes(c, e, f, ct),
           Accepted(d.contacts[p], ct.init, ct.resp),
           NEW M \in SUBSET Contents, NEW cts,
           Matched(p, c, e, d, M), TextsMatch(p, c, e, d, M, cts)
    PROVE  Matched(p, c, f, d, M) /\ TextsMatch(p, c, f, d, M, cts)
<1> DEFINE t1 == ThreadState(ct.init, ct.resp, "initiator")
<1>1. /\ ~IsAdded(e, c) /\ IsAdded(f, c) /\ f.contacts[c].c1 = t1
      /\ e.contacts[c].tag = 0
      /\ f.convos = e.convos
      /\ \A x : HasConvo(f, x, c) <=> HasConvo(e, x, c)
  BY FinishesRows
<1>2. /\ t1 \in ThreadStates /\ t1.turn = 0
      /\ t1.init = ct.init /\ t1.resp = ct.resp /\ t1.from = "initiator"
  BY KeysType DEF ThreadState
<1> HIDE DEF t1
<1>3. Created(f, c) = 0 /\ Created(e, c) = 0
  BY <1>1, <1>2 DEF Created
<1>4. IsAdded(d, p) /\ Twins(d.contacts[p])
  BY DEF Accepted, IsAdded, Peers
<1>5. ContactsMatch(p, c, f, d)
  <2>1. d.contacts[p].c1 \in ThreadStates /\ d.contacts[p].c2 \in ThreadStates
    BY <1>4, AddedStates
  <2>2. d.contacts[p].c2.from = "initiator"
    BY <1>4, <2>1 DEF Twins, Accepted, ThreadStates
  <2>3. Alike(f.contacts[c].c1, d.contacts[p].c2)
    BY <1>1, <1>2, <1>4, <2>1, <2>2, AlikeStates DEF Accepted, Twins
  <2> QED
    BY <1>3, <2>3 DEF Matched, ContactsMatch
<1>6. DrawnWith(f, p, c) = {}
  BY <1>1 DEF DrawnWith, Peers
<1>7. ThreadsMatch(p, c, f, d)
  BY <1>3, <1>6 DEF ThreadsMatch
<1>8. ConvosMatch(p, c, f, d)
  BY <1>1 DEF Matched, ConvosMatch
<1>9. NoneTwice(p, c, f, d, M)
  <2>1. \A cu \in M : cu.kind # "second"
    BY <1>1 DEF Matched, NoneTwice, Accepted
  <2> QED
    BY <1>1, <2>1 DEF Matched, NoneTwice
<1>10. NoneLost(p, c, f, d, M)
  <2>1. \A g, h : ~Accepted(f.contacts[c], g, h)
    BY <1>1, <1>2 DEF Accepted
  <2> QED
    BY <1>1, <2>1 DEF Matched, NoneLost
<1>11. TextsMatch(p, c, f, d, M, cts)
  BY <1>1 DEF TextsMatch
<1> QED
  BY <1>5, <1>7, <1>8, <1>9, <1>10, <1>11 DEF Matched

\* ... and for everyone else.
LEMMA FinishOthers ==
    ASSUME NEW c \in Clients, NEW e \in Databases, NEW f \in Databases,
           NEW ct, ct.init \in Draws, ct.resp \in Draws, Finishes(c, e, f, ct),
           NEW q \in Clients, q # c
    PROVE  Untouched(e, f, q)
BY FinishesRows DEF Untouched

-----------------------------------------------------------------------------
(* Sending *)

\* The database of a client becomes f when it accepts the contact p with the
\* message ct,
Accepts(p, d, f, ct) ==
    /\ d.contacts[p] # Null /\ d.contacts[p].tag = 1
    /\ d.contacts[p].blob.kind = "first" /\ d.contacts[p].blob.init = ct.init
    /\ f.contacts = [d.contacts EXCEPT ![p] =
                        [tag |-> 2, blob |-> Null,
                         c1 |-> ThreadState(ct.init, ct.resp, "responder"),
                         c2 |-> ThreadState(ct.init, ct.resp, "initiator")]]
    /\ f.convos = d.convos /\ f.messages = d.messages

\* starts a conversation with the text ct,
StartsThread(p, d, f, ct) ==
    LET t1 == d.contacts[p].c1 IN
    /\ IsAdded(d, p) /\ d.convos[ct.convo] = Null
    /\ ct.key = InitiatorThread(t1)
    /\ f.contacts = [d.contacts EXCEPT ![p] = [d.contacts[p] EXCEPT !.c1 = Ratchet(t1)]]
    /\ f.convos = [d.convos EXCEPT ![ct.convo] =
                      [peer |-> p, title |-> ct.text,
                       c1 |-> AfterAEAD(ct.key), c2 |-> ResponderThread(t1)]]
    /\ f.messages = d.messages

\* or writes the text ct in one that it has.
WritesText(p, d, f, ct) ==
    /\ HasConvo(d, ct.convo, p) /\ ct.key = d.convos[ct.convo].c1
    /\ f.contacts = d.contacts
    /\ f.convos = [d.convos EXCEPT ![ct.convo] =
                      [d.convos[ct.convo] EXCEPT !.c1 = AfterAEAD(ct.key)]]
    /\ f.messages = d.messages

\* Either way the text is the next one of its conversation.
Continues(p, d, f, ct) ==
    LET x == ct.convo IN
    /\ HasConvo(f, x, p)
    /\ Alike(ct.key, f.convos[x].c1) /\ f.convos[x].c1.turn = ct.key.turn + 1
    /\ ct.key.turn = IF HasConvo(d, x, p) THEN d.convos[x].c1.turn ELSE 0
    /\ HasConvo(d, x, p) => Alike(d.convos[x].c1, f.convos[x].c1)
    /\ \A y \in Draws \ {x} : f.convos[y] = d.convos[y]
    /\ \A g, h : Accepted(f.contacts[p], g, h) <=> Accepted(d.contacts[p], g, h)

\* It joins those that are on their way.
LEMMA WriteOn ==
    ASSUME NEW c \in Clients, NEW p \in Clients, NEW d \in Databases,
           NEW f \in Databases, NEW e \in Databases,
           NEW M \in SUBSET Contents, NEW ct \in Ciphertexts, Continues(p, d, f, ct),
           Got(e, c, ct.convo) <= ct.key.turn,
           NoneTwice(c, p, d, e, M), NoneLost(c, p, d, e, M),
           NEW N, N = M \cup {ct}
    PROVE  NoneTwice(c, p, f, e, N) /\ NoneLost(c, p, f, e, N)
<1> DEFINE x == ct.convo
<1>1. /\ x \in Draws /\ ct.key \in SessionKeys /\ ct.key.turn \in Nat
      /\ ct.kind = "aead"
  BY DEF Ciphertexts, SessionKeys
<1>2. /\ HasConvo(f, x, p) /\ Alike(ct.key, f.convos[x].c1)
      /\ f.convos[x].c1.turn = ct.key.turn + 1
      /\ \A y \in Draws \ {x} : f.convos[y] = d.convos[y]
      /\ \A g, h : Accepted(f.contacts[p], g, h) <=> Accepted(d.contacts[p], g, h)
  BY DEF Continues
<1>3. f.convos[x].c1 \in SessionKeys
  BY <1>1, <1>2, ConvoStates
<1>4. NoneTwice(c, p, f, e, N)
  <2>1. ASSUME NEW cu \in M, cu.kind = "aead"
        PROVE  /\ HasConvo(f, cu.convo, p)
               /\ Alike(cu.key, f.convos[cu.convo].c1)
               /\ Got(e, c, cu.convo) <= cu.key.turn
               /\ cu.key.turn < f.convos[cu.convo].c1.turn
    <3>1. /\ HasConvo(d, cu.convo, p) /\ cu.convo \in Draws
          /\ Alike(cu.key, d.convos[cu.convo].c1)
          /\ Got(e, c, cu.convo) <= cu.key.turn
          /\ cu.key.turn < d.convos[cu.convo].c1.turn
          /\ cu.key \in SessionKeys /\ cu.key.turn \in Nat
      BY <2>1, ContentsKinds DEF Ciphertexts, SessionKeys, NoneTwice
    <3>2. CASE cu.convo = x
      <4>1. d.convos[x].c1 \in SessionKeys
        BY <1>1, <3>1, <3>2, ConvoStates
      <4>2. ct.key.turn = d.convos[x].c1.turn /\ Alike(d.convos[x].c1, f.convos[x].c1)
        BY <3>1, <3>2 DEF Continues
      <4>3. Alike(cu.key, f.convos[x].c1)
        BY <1>3, <3>1, <3>2, <4>1, <4>2, AlikeStates
      <4> QED
        BY <1>1, <1>2, <3>1, <3>2, <4>2, <4>3
    <3>3. CASE cu.convo # x
      BY <1>2, <3>1, <3>3 DEF HasConvo
    <3> QED
      BY <3>2, <3>3
  <2>2. \A cu \in M : cu.kind = "second" => Accepted(f.contacts[p], cu.init, cu.resp)
    BY <1>2 DEF NoneTwice
  <2>3. ct.key.turn < f.convos[x].c1.turn
    BY <1>1, <1>2
  <2> QED
    BY <1>1, <1>2, <2>1, <2>2, <2>3 DEF NoneTwice
<1>5. NoneLost(c, p, f, e, N)
  <2>1. ASSUME NEW g \in Draws, NEW h \in Draws, Accepted(f.contacts[p], g, h), ~IsAdded(e, c)
        PROVE  \E cu \in N : cu.kind = "second" /\ cu.init = g /\ cu.resp = h
    BY <1>2, <2>1 DEF NoneLost
  <2>2. ASSUME NEW y \in Draws, HasConvo(f, y, p), NEW n \in 0 .. f.convos[y].c1.turn,
               Got(e, c, y) <= n, n < f.convos[y].c1.turn
        PROVE  \E cu \in N : cu.kind = "aead" /\ cu.convo = y /\ cu.key.turn = n
    <3>1. CASE y = x /\ n = ct.key.turn
      BY <1>1, <3>1
    <3>2. CASE y = x /\ n # ct.key.turn
      <4>1. n \in Nat /\ n < ct.key.turn
        BY <1>1, <1>2, <2>2, <3>2
      <4>2. HasConvo(d, x, p) /\ d.convos[x].c1.turn = ct.key.turn
        BY <1>1, <4>1 DEF Continues
      <4>3. n \in 0 .. d.convos[x].c1.turn /\ n < d.convos[x].c1.turn
        BY <1>1, <4>1, <4>2
      <4> QED
        BY <1>1, <2>2, <3>2, <4>2, <4>3 DEF NoneLost
    <3>3. CASE y # x
      <4>1. HasConvo(d, y, p) /\ f.convos[y] = d.convos[y]
        BY <1>2, <2>2, <3>3 DEF HasConvo
      <4> QED
        BY <2>2, <4>1 DEF NoneLost
    <3> QED
      BY <3>1, <3>2, <3>3
  <2> QED
    BY <2>1, <2>2 DEF NoneLost
<1> QED
  BY <1>4, <1>5

\* And it is the next one that was typed.
LEMMA TypedOn ==
    ASSUME NEW c \in Clients, NEW p \in Clients, NEW d \in Databases,
           NEW f \in Databases, NEW e \in Databases,
           NEW M \in SUBSET Contents, NEW ct \in Ciphertexts, ct.to = p,
           Continues(p, d, f, ct), NoneTwice(c, p, d, e, M),
           NEW cts \in Seq(Ciphertexts), TextsMatch(c, p, d, e, M, cts),
           NEW new, IsAppended(cts, ct, new),
           NEW N, N = M \cup {ct}
    PROVE  TextsMatch(c, p, f, e, N, new)
<1> SUFFICES ASSUME NEW x \in Draws
             PROVE  LET typed == TypedIn(new, x, p)    shown == ShownIn(e, c, x) IN
                    /\ Len(typed) = IF HasConvo(f, x, p) THEN f.convos[x].c1.turn ELSE 0
                    /\ Len(shown) = Got(e, c, x)
                    /\ \A k \in DOMAIN shown : k \in DOMAIN typed /\ shown[k] = typed[k]
                    /\ \A cu \in N : cu.kind = "aead" /\ cu.convo = x =>
                          typed[cu.key.turn + 1] = cu.text
  BY DEF TextsMatch
<1> DEFINE old == TypedIn(cts, x, p)
           typed == TypedIn(new, x, p)
           shown == ShownIn(e, c, x)
<1>1. ct.key.turn \in Nat /\ ct.text \in Texts /\ ct.convo \in Draws
  BY DEF Ciphertexts, SessionKeys
<1>2. /\ Len(old) = IF HasConvo(d, x, p) THEN d.convos[x].c1.turn ELSE 0
      /\ Len(shown) = Got(e, c, x)
      /\ \A k \in DOMAIN shown : k \in DOMAIN old /\ shown[k] = old[k]
      /\ \A cu \in M : cu.kind = "aead" /\ cu.convo = x => old[cu.key.turn + 1] = cu.text
  BY DEF TextsMatch
<1>3. old \in Seq(Texts)
  BY TypedType
<1>4. CASE x # ct.convo
  <2>1. typed = old
    BY <1>4, TypedAppend
  <2>2. f.convos[x] = d.convos[x] /\ (HasConvo(f, x, p) <=> HasConvo(d, x, p))
    BY <1>4 DEF Continues, HasConvo
  <2> QED
    BY <1>2, <1>4, <2>1, <2>2
<1>5. CASE x = ct.convo
  <2>1. typed = Append(old, ct.text)
    BY <1>5, TypedAppend
  <2>2. /\ HasConvo(f, x, p) /\ f.convos[x].c1.turn = ct.key.turn + 1
        /\ Len(old) = ct.key.turn
    BY <1>2, <1>5 DEF Continues
  <2> HIDE DEF old, typed, shown
  <2>3. Len(typed) = f.convos[x].c1.turn
    <3>1. Len(typed) = Len(old) + 1
      BY <1>1, <1>3, <2>1
    <3> QED
      BY <2>2, <3>1
  <2>4. \A k \in DOMAIN old : k \in DOMAIN typed /\ typed[k] = old[k]
    BY <1>1, <1>3, <2>1
  <2>5. ASSUME NEW cu \in N, cu.kind = "aead", cu.convo = x
        PROVE  typed[cu.key.turn + 1] = cu.text
    <3>1. CASE cu = ct
      BY <1>1, <1>3, <2>1, <2>2, <3>1
    <3>2. CASE cu \in M
      <4>1. HasConvo(d, x, p) /\ cu.key.turn < d.convos[x].c1.turn /\ cu.key.turn \in Nat
        BY <2>5, <3>2, ContentsKinds DEF NoneTwice, Ciphertexts, SessionKeys
      <4>2. d.convos[x].c1.turn = Len(old)
        BY <1>2, <4>1
      <4>3. cu.key.turn + 1 \in DOMAIN old
        BY <1>3, <4>1, <4>2
      <4> QED
        BY <1>2, <2>4, <2>5, <3>2, <4>3
    <3> QED
      BY <3>1, <3>2
  <2> QED
    BY <1>2, <2>2, <2>3, <2>4, <2>5 DEF typed, shown
<1> QED
  BY <1>4, <1>5

\* What accepting a contact changes of the rows.
LEMMA AcceptsRows ==
    ASSUME NEW p \in Clients, NEW d \in Databases, NEW f \in Databases,
           NEW ct, ct.init \in Draws, ct.resp \in Draws, Accepts(p, d, f, ct)
    PROVE  /\ ~IsAdded(d, p) /\ IsAdded(f, p)
           /\ f.contacts[p].c1 = ThreadState(ct.init, ct.resp, "responder")
           /\ f.contacts[p].c2 = ThreadState(ct.init, ct.resp, "initiator")
           /\ \A q \in Clients \ {p} : f.contacts[q] = d.contacts[q]
           /\ f.convos = d.convos
           /\ \A q, x : HasConvo(f, x, q) <=> HasConvo(d, x, q)
           /\ \A q, x : Got(f, q, x) = Got(d, q, x)
           /\ \A q, x : ShownIn(f, q, x) = ShownIn(d, q, x)
<1> DEFINE t1 == ThreadState(ct.init, ct.resp, "responder")
           t2 == ThreadState(ct.init, ct.resp, "initiator")
<1>1. /\ d.contacts \in [Clients -> ContactRows \cup {Null}]
      /\ f.contacts \in [Clients -> ContactRows \cup {Null}]
  BY DEF Databases
<1>2. /\ f.contacts[p] = [tag |-> 2, blob |-> Null, c1 |-> t1, c2 |-> t2]
      /\ \A q \in Clients \ {p} : f.contacts[q] = d.contacts[q]
      /\ f.convos = d.convos
  BY <1>1 DEF Accepts
<1>3. t1 \in ThreadStates /\ t2 \in ThreadStates
  BY KeysType
<1> HIDE DEF t1, t2
<1>4. f.contacts[p] # Null
  <2>1. f.contacts[p] \in ContactRows
    BY <1>2, <1>3 DEF ContactRows
  <2> QED
    BY <2>1, RowAssumption
<1>5. ~IsAdded(d, p) /\ IsAdded(f, p)
  BY <1>2, <1>4 DEF Accepts, IsAdded
<1>6. \A q, x : ShownIn(f, q, x) = ShownIn(d, q, x)
  BY <1>2, ShownRow DEF Accepts
<1> QED
  BY <1>2, <1>5, <1>6 DEF HasConvo, Got, t1, t2

\* Nobody has finished the contact that is accepted, so nothing was written.
LEMMA AcceptsFirst ==
    ASSUME NEW c \in Clients, NEW p \in Clients, c # p, NEW d \in Databases,
           NEW e \in Databases, Peers(c, p, d, e), Peers(p, c, e, d),
           NEW f, NEW ct, Accepts(p, d, f, ct)
    PROVE  /\ ~IsAdded(d, p) /\ ~IsAdded(e, c)
           /\ \A x \in Draws : ~HasConvo(d, x, p)
<1>1. ~IsAdded(d, p) /\ d.contacts[p].tag = 1
  BY DEF Accepts, IsAdded
<1>2. Begun(e.contacts[c], ct.init)
  BY DEF Accepts, Peers
<1>3. ~IsAdded(e, c)
  <2>1. IsAdded(e, c) => e.contacts[c].c1.from = "initiator"
    BY <1>2 DEF Begun, IsAdded
  <2> QED
    BY <1>1, <2>1 DEF Peers, Accepted
<1>4. \A x \in Draws : ~HasConvo(d, x, p)
  BY <1>1, <1>3 DEF Peers
<1> QED
  BY <1>1, <1>3, <1>4

\* Accepting a contact: for the writer ...
LEMMA AcceptWriter ==
    ASSUME NEW c \in Clients, NEW p \in Clients, c # p, NEW d \in Databases,
           NEW e \in Databases, Peers(c, p, d, e), Peers(p, c, e, d),
           NEW f \in Databases, NEW ct \in SecondHandshakes, Accepts(p, d, f, ct),
           NEW M \in SUBSET Contents, NEW cts,
           Matched(c, p, d, e, M), TextsMatch(c, p, d, e, M, cts),
           NEW N, N = M \cup {ct}
    PROVE  /\ Matched(c, p, f, e, N) /\ TextsMatch(c, p, f, e, N, cts)
           /\ \A cu \in M : Before(cu, ct)
<1> DEFINE t1 == ThreadState(ct.init, ct.resp, "responder")
<1>0. ct.kind = "second" /\ ct.init \in Draws /\ ct.resp \in Draws
  BY DEF SecondHandshakes
<1>1. /\ IsAdded(f, p) /\ f.contacts[p].c1 = t1 /\ f.convos = d.convos
      /\ \A x : HasConvo(f, x, p) <=> HasConvo(d, x, p)
  BY <1>0, AcceptsRows
<1>2. ~IsAdded(d, p) /\ ~IsAdded(e, c) /\ \A x \in Draws : ~HasConvo(d, x, p)
  BY AcceptsFirst
<1>3. /\ t1.turn = 0 /\ t1.init = ct.init /\ t1.resp = ct.resp /\ t1.from = "responder"
  BY DEF ThreadState
<1> HIDE DEF t1
<1>4. Created(f, p) = 0 /\ Noticed(e, c) = 0
  BY <1>1, <1>2, <1>3 DEF Created, Noticed
<1>5. \A cu \in M : cu.kind # "aead" /\ cu.kind # "second"
  <2>1. \A cu \in M : cu.kind = "aead" => cu.convo \in Draws
    BY ContentsKinds DEF Ciphertexts
  <2> QED
    BY <1>2, <2>1 DEF Matched, NoneTwice, Accepted, IsAdded
<1>6. ContactsMatch(c, p, f, e)
  BY <1>2, <1>4 DEF ContactsMatch
<1>7. ThreadsMatch(c, p, f, e)
  <2>1. DrawnWith(f, c, p) = {}
    BY <1>1, <1>2 DEF DrawnWith
  <2> QED
    BY <1>4, <2>1 DEF ThreadsMatch
<1>8. ConvosMatch(c, p, f, e)
  BY <1>1, <1>2 DEF ConvosMatch
<1>9. Accepted(f.contacts[p], ct.init, ct.resp)
      /\ \A g, h : Accepted(f.contacts[p], g, h) => g = ct.init /\ h = ct.resp
  BY <1>1, <1>3 DEF Accepted, IsAdded
<1>10. NoneTwice(c, p, f, e, N) /\ NoneLost(c, p, f, e, N)
  BY <1>0, <1>1, <1>2, <1>5, <1>9 DEF NoneTwice, NoneLost
<1>11. TextsMatch(c, p, f, e, N, cts)
  BY <1>0, <1>1 DEF TextsMatch
<1> QED
  BY <1>0, <1>5, <1>6, <1>7, <1>8, <1>10, <1>11 DEF Matched, Before

\* ... for it as the reader of the other direction ...
LEMMA AcceptReader ==
    ASSUME NEW c \in Clients, NEW p \in Clients, c # p, NEW d \in Databases,
           NEW e \in Databases, Peers(c, p, d, e), Peers(p, c, e, d),
           NEW f \in Databases, NEW ct, ct.init \in Draws, ct.resp \in Draws,
           Accepts(p, d, f, ct)
    PROVE  SameReader(p, c, e, d, f)
<1>1. /\ ~IsAdded(d, p) /\ IsAdded(f, p)
      /\ f.contacts[p].c2 = ThreadState(ct.init, ct.resp, "initiator")
      /\ f.convos = d.convos
      /\ \A x : HasConvo(f, x, p) <=> HasConvo(d, x, p)
      /\ \A x : Got(f, p, x) = Got(d, p, x)
      /\ \A x : ShownIn(f, p, x) = ShownIn(d, p, x)
  BY AcceptsRows
<1>2. Noticed(f, p) = Noticed(d, p)
  BY <1>1 DEF Noticed, ThreadState
<1>3. ~IsAdded(e, c)
  BY AcceptsFirst
<1> QED
  BY <1>1, <1>2, <1>3 DEF SameReader

\* ... and for everyone else.
LEMMA AcceptOthers ==
    ASSUME NEW p \in Clients, NEW d \in Databases, NEW f \in Databases,
           NEW ct, ct.init \in Draws, ct.resp \in Draws, Accepts(p, d, f, ct),
           NEW q \in Clients, q # p
    PROVE  Untouched(d, f, q)
BY AcceptsRows DEF Untouched

\* What starting a conversation changes of the rows.
LEMMA StartsThreadRows ==
    ASSUME NEW c \in Clients, NEW p \in Clients, c # p,
           NEW d \in Databases, Homed(d), NEW f \in Databases,
           NEW ct \in Ciphertexts, StartsThread(p, d, f, ct), ct.text.by = c,
           NEW x, x = ct.convo, NEW t1, t1 = d.contacts[p].c1
    PROVE  /\ x \in Draws /\ t1 \in ThreadStates /\ HasConvo(f, x, p) /\ d.convos[x] = Null
           /\ f.convos[x].c1 = AfterAEAD(ct.key)
           /\ f.convos[x].c2 = ResponderThread(t1) /\ ct.key.turn = 0
           /\ Got(d, p, x) = 0 /\ Got(f, p, x) = 0
           /\ \A y \in Draws \ {x} : f.convos[y] = d.convos[y]
           /\ IsAdded(d, p) /\ IsAdded(f, p)
           /\ f.contacts[p].c1 = Ratchet(t1) /\ f.contacts[p].c2 = d.contacts[p].c2
           /\ \A q \in Clients \ {p} : f.contacts[q] = d.contacts[q]
           /\ \A q \in Clients \ {c} : \A y \in Draws : ShownIn(f, q, y) = ShownIn(d, q, y)
<1>1. x \in Draws /\ ct.key \in SessionKeys /\ ct.text \in Texts
  BY DEF Ciphertexts
<1>2. /\ IsAdded(d, p) /\ d.convos[x] = Null /\ ct.key = InitiatorThread(t1)
      /\ t1 \in ThreadStates /\ d.contacts[p] \in ContactRows
  BY AddedStates DEF StartsThread
<1>3. /\ d.convos \in [Draws -> ConvoRows \cup {Null}]
      /\ f.convos \in [Draws -> ConvoRows \cup {Null}]
      /\ d.contacts \in [Clients -> ContactRows \cup {Null}]
      /\ f.contacts \in [Clients -> ContactRows \cup {Null}]
  BY DEF Databases
<1>4. /\ f.convos[x] = [peer |-> p, title |-> ct.text,
                        c1 |-> AfterAEAD(ct.key), c2 |-> ResponderThread(t1)]
      /\ \A y \in Draws \ {x} : f.convos[y] = d.convos[y]
  BY <1>1, <1>3 DEF StartsThread
<1>5. f.convos[x] # Null
  <2>1. ResponderThread(t1) \in SessionKeys /\ AfterAEAD(ct.key) \in SessionKeys
    BY <1>1, <1>2, KeysType
  <2>2. f.convos[x] \in ConvoRows
    BY <1>1, <1>4, <2>1 DEF ConvoRows
  <2> QED
    BY <2>2, RowAssumption
<1>6. HasConvo(f, x, p)
  BY <1>4, <1>5 DEF HasConvo
<1>7. /\ f.contacts[p] = [d.contacts[p] EXCEPT !.c1 = Ratchet(t1)]
      /\ \A q \in Clients \ {p} : f.contacts[q] = d.contacts[q]
  BY <1>3 DEF StartsThread
<1>8. d.contacts[p].tag = 2
  BY <1>2 DEF IsAdded
<1>9. PICK b, k1, k2 : d.contacts[p] = [tag |-> 2, blob |-> b, c1 |-> k1, c2 |-> k2]
  BY <1>2, <1>8 DEF ContactRows
<1>10. f.contacts[p] = [tag |-> 2, blob |-> b, c1 |-> Ratchet(t1), c2 |-> k2]
  BY <1>7, <1>9
<1>11. /\ f.contacts[p].c2 = d.contacts[p].c2 /\ f.contacts[p].c1 = Ratchet(t1)
       /\ f.contacts[p].tag = 2
  BY <1>9, <1>10
<1>12. f.contacts[p] # Null
  <2>1. Ratchet(t1) \in ThreadStates
    BY <1>2, KeysType
  <2>2. f.contacts[p] \in ContactRows
    BY <1>2, <1>9, <1>10, <2>1 DEF ContactRows
  <2> QED
    BY <2>2, RowAssumption
<1>13. IsAdded(f, p)
  BY <1>11, <1>12 DEF IsAdded
<1>14. ct.key.turn = 0
  BY <1>2 DEF InitiatorThread
<1>15. Got(d, p, x) = 0
  BY <1>2 DEF Got, HasConvo
<1>16. f.convos[x].c1 = AfterAEAD(ct.key) /\ f.convos[x].c2 = ResponderThread(t1)
  BY <1>4
<1>17. Got(f, p, x) = 0
  BY <1>6, <1>16 DEF Got, ResponderThread
<1>18. ASSUME NEW q \in Clients \ {c}, NEW y \in Draws
       PROVE  ShownIn(f, q, y) = ShownIn(d, q, y)
  <2>1. f.messages = d.messages
    BY DEF StartsThread
  <2>2. CASE y # x
    <3>1. f.convos[y] = d.convos[y]
      BY <1>4, <2>2
    <3> QED
      BY <2>1, <3>1, ShownRow
  <2>3. CASE y = x
    <3>1. TitleIn(f.convos[x], q) = <<>>
      <4>1. f.convos[x].title = ct.text
        BY <1>4
      <4> QED
        BY <4>1 DEF TitleIn
    <3>2. ShownIn(f, q, x) = <<>> /\ ShownIn(d, q, x) = <<>>
      BY <1>1, <1>2, <1>5, <2>1, <3>1, ShownNew
    <3> QED
      BY <2>3, <3>2
  <2> QED
    BY <2>2, <2>3
<1> QED
  BY <1>1, <1>2, <1>4, <1>6, <1>7, <1>11, <1>13, <1>14, <1>15, <1>16, <1>17, <1>18

\* The first text of a conversation: for the writer ...
LEMMA ThreadWriter ==
    ASSUME NEW c \in Clients, NEW p \in Clients, c # p, NEW d \in Databases, Homed(d),
           NEW e \in Databases, Peers(c, p, d, e), Peers(p, c, e, d),
           NEW f \in Databases, NEW ct \in Ciphertexts, StartsThread(p, d, f, ct),
           ct.convo.who = c, ct.text.by = c, ct.to = p,
           NEW M \in SUBSET Contents, NEW cts \in Seq(Ciphertexts),
           Matched(c, p, d, e, M), TextsMatch(c, p, d, e, M, cts),
           NEW K, Matched(p, c, e, d, K),
           NEW N, N = M \cup {ct}, NEW new, IsAppended(cts, ct, new)
    PROVE  /\ Matched(c, p, f, e, N) /\ TextsMatch(c, p, f, e, N, new)
           /\ \A cu \in M : Before(cu, ct)
<1> DEFINE x == ct.convo
           t1 == d.contacts[p].c1
<1>1. /\ x \in Draws /\ t1 \in ThreadStates /\ HasConvo(f, x, p) /\ d.convos[x] = Null
      /\ f.convos[x].c1 = AfterAEAD(ct.key)
      /\ f.convos[x].c2 = ResponderThread(t1) /\ ct.key.turn = 0
      /\ \A y \in Draws \ {x} : f.convos[y] = d.convos[y]
      /\ IsAdded(d, p) /\ IsAdded(f, p)
      /\ f.contacts[p].c1 = Ratchet(t1)
  BY StartsThreadRows
<1>2. ct.key = InitiatorThread(t1) /\ ct.key \in SessionKeys /\ ct.kind = "aead"
  BY DEF StartsThread, Ciphertexts
<1>3. ~HasConvo(e, x, c)
  BY <1>1 DEF Peers, HasConvo
<1>4. /\ t1.turn \in Nat /\ Ratchet(t1) \in ThreadStates /\ Ratchet(t1).turn = t1.turn + 1
      /\ Created(d, p) = t1.turn /\ Created(f, p) = t1.turn + 1
      /\ Ratchet(t1).init = t1.init /\ Ratchet(t1).resp = t1.resp
      /\ Ratchet(t1).from = t1.from
      /\ Alike(t1, Ratchet(t1))
  <2>1. /\ t1.turn \in Nat /\ Ratchet(t1) \in ThreadStates /\ Ratchet(t1).turn = t1.turn + 1
        /\ Ratchet(t1).init = t1.init /\ Ratchet(t1).resp = t1.resp
        /\ Ratchet(t1).from = t1.from
    BY <1>1, KeysType DEF Ratchet, ThreadStates
  <2>2. Alike(t1, Ratchet(t1))
    BY <1>1, <2>1, AlikeStates
  <2> QED
    BY <1>1, <2>1, <2>2 DEF Created
<1>5. /\ AfterAEAD(ct.key) \in SessionKeys /\ AfterAEAD(ct.key).turn = 1
      /\ AfterAEAD(ct.key).thread = t1 /\ AfterAEAD(ct.key).label = "initiatorThread"
      /\ ct.key.thread = t1 /\ ct.key.label = "initiatorThread"
      /\ Alike(ct.key, AfterAEAD(ct.key))
  <2>1. /\ AfterAEAD(ct.key) \in SessionKeys /\ AfterAEAD(ct.key).turn = 1
        /\ AfterAEAD(ct.key).thread = ct.key.thread /\ AfterAEAD(ct.key).label = ct.key.label
    BY <1>1, <1>2, KeysType DEF AfterAEAD, SessionKeys
  <2>2. ct.key.thread = t1 /\ ct.key.label = "initiatorThread"
    BY <1>2 DEF InitiatorThread
  <2> QED
    BY <1>2, <2>1, <2>2, AlikeStates
<1>6. \A g, h : Accepted(f.contacts[p], g, h) <=> Accepted(d.contacts[p], g, h)
  BY <1>1, <1>4 DEF Accepted, IsAdded
<1>7. Continues(p, d, f, ct)
  BY <1>1, <1>5, <1>6 DEF Continues, HasConvo
<1>8. Noticed(e, c) \in Nat /\ Noticed(e, c) <= t1.turn
  BY <1>4, CountsType DEF Matched, ContactsMatch
<1>9. ContactsMatch(c, p, f, e)
  <2>1. ASSUME IsAdded(e, c) PROVE Alike(f.contacts[p].c1, e.contacts[c].c2)
    <3>1. e.contacts[c].c2 \in ThreadStates /\ Alike(t1, e.contacts[c].c2)
      BY <1>1, <2>1, AddedStates DEF Matched, ContactsMatch
    <3> QED
      BY <1>1, <1>4, <3>1, AlikeStates
  <2> QED
    BY <1>4, <1>8, <2>1 DEF ContactsMatch
<1>10. /\ x \in DrawnWith(f, c, p) /\ x \notin DrawnWith(d, c, p)
       /\ \A y \in Draws \ {x} : y \in DrawnWith(f, c, p) <=> y \in DrawnWith(d, c, p)
       /\ \A y \in DrawnWith(f, c, p) : y \in Draws
  BY <1>1 DEF DrawnWith, HasConvo
<1>11. \A y \in DrawnWith(d, c, p) :
          /\ y \in Draws \ {x} /\ HasConvo(d, y, p) /\ ThreadMatches(c, p, d, e, y)
          /\ d.convos[y].c1.thread.turn \in Nat /\ d.convos[y].c1.thread.turn < t1.turn
          /\ d.convos[y].c1.thread \in ThreadStates
  <2>1. \A y \in DrawnWith(d, c, p) :
           y \in Draws \ {x} /\ HasConvo(d, y, p) /\ ThreadMatches(c, p, d, e, y)
    BY <1>10 DEF DrawnWith, Matched, ThreadsMatch
  <2> QED
    BY <1>4, <2>1, ConvoStates, SMTT(20) DEF ThreadMatches
<1>12. ThreadsMatch(c, p, f, e)
  <2>1. ASSUME NEW y \in DrawnWith(d, c, p)
        PROVE  ThreadMatches(c, p, f, e, y)
    <3>1. /\ ThreadMatches(c, p, d, e, y) /\ f.convos[y] = d.convos[y]
          /\ d.convos[y].c1.thread.turn < t1.turn + 1
      BY <1>1, <1>4, <1>11
    <3>2. Alike(d.convos[y].c1.thread, f.contacts[p].c1)
      <4>1. Alike(d.convos[y].c1.thread, t1)
        BY <3>1 DEF ThreadMatches
      <4> QED
        BY <1>1, <1>4, <1>11, <4>1, AlikeStates, SMTT(20)
    <3> QED
      BY <1>4, <3>1, <3>2 DEF ThreadMatches
  <2>2. ThreadMatches(c, p, f, e, x)
    <3> DEFINE row == f.convos[x]
    <3>1. /\ row.c1.label = "initiatorThread" /\ row.c1.thread = t1 /\ row.c1.turn = 1
          /\ row.c2.label = "responderThread" /\ row.c2.thread = t1 /\ row.c2.turn = 0
      BY <1>1, <1>5 DEF ResponderThread
    <3>2. Alike(row.c1.thread, f.contacts[p].c1)
      BY <1>1, <1>4, <3>1
    <3>3. ~(t1.turn < Noticed(e, c))
      BY <1>4, <1>8
    <3>4. t1.turn < Created(f, p)
      BY <1>4
    <3> HIDE DEF row
    <3> QED
      BY <1>3, <3>1, <3>2, <3>3, <3>4 DEF ThreadMatches, row
  <2>3. f.convos[x].c1.thread = t1
    BY <1>1, <1>5
  <2>4. ASSUME NEW y \in DrawnWith(f, c, p), NEW z \in DrawnWith(f, c, p),
               f.convos[y].c1.thread.turn = f.convos[z].c1.thread.turn
        PROVE  y = z
    <3>1. CASE y # x /\ z # x
      BY <1>1, <1>10, <2>4, <3>1 DEF Matched, ThreadsMatch
    <3>2. ASSUME NEW v \in DrawnWith(f, c, p), v # x
          PROVE  f.convos[v].c1.thread.turn # f.convos[x].c1.thread.turn
      <4>1. v \in DrawnWith(d, c, p) /\ f.convos[v] = d.convos[v]
        BY <1>1, <1>10, <3>2
      <4>2. d.convos[v].c1.thread.turn < t1.turn /\ d.convos[v].c1.thread.turn \in Nat
        BY <1>11, <4>1
      <4> HIDE DEF x, t1
      <4> QED
        BY <1>4, <2>3, <4>1, <4>2
    <3>3. y = x => z = x
      BY <2>4, <3>2
    <3>4. z = x => y = x
      BY <2>4, <3>2
    <3> QED
      BY <3>1, <3>3, <3>4
  <2>5. ASSUME NEW n \in 0 .. Created(f, p), n < Created(f, p)
        PROVE  \E y \in DrawnWith(f, c, p) : f.convos[y].c1.thread.turn = n
    <3>1. CASE n = t1.turn
      BY <1>10, <2>3, <3>1
    <3>2. CASE n # t1.turn
      <4>1. n \in 0 .. Created(d, p) /\ n < Created(d, p)
        BY <1>4, <2>5, <3>2
      <4>2. PICK y \in DrawnWith(d, c, p) : d.convos[y].c1.thread.turn = n
        BY <4>1 DEF Matched, ThreadsMatch
      <4> QED
        BY <1>1, <1>10, <1>11, <4>2
    <3> QED
      BY <3>1, <3>2
  <2>6. \A y \in DrawnWith(f, c, p) : ThreadMatches(c, p, f, e, y)
    BY <1>10, <2>1, <2>2
  <2> QED
    BY <2>4, <2>5, <2>6 DEF ThreadsMatch
<1>13. ConvosMatch(c, p, f, e)
  <2>1. ASSUME NEW y \in Draws, HasConvo(f, y, p), HasConvo(e, y, c)
        PROVE  f.convos[y] = d.convos[y] /\ HasConvo(d, y, p)
    BY <1>1, <1>3, <2>1 DEF HasConvo
  <2> QED
    BY <2>1 DEF Matched, ConvosMatch
<1>14. Got(e, c, x) = 0
  BY <1>3 DEF Got
<1>15. NoneTwice(c, p, f, e, N) /\ NoneLost(c, p, f, e, N)
  BY <1>1, <1>7, <1>14, WriteOn DEF Matched
<1>16. TextsMatch(c, p, f, e, N, new)
  BY <1>7, TypedOn DEF Matched
<1>17. ASSUME NEW cu \in M PROVE Before(cu, ct)
  <2>1. SUFFICES ASSUME cu.kind = "aead"
                 PROVE  /\ cu.convo # ct.convo
                        /\ IsTitle(cu) => cu.key.thread.turn < ct.key.thread.turn
    BY <1>2 DEF Before
  <2> DEFINE y == cu.convo
  <2>2. y \in Draws /\ HasConvo(d, y, p) /\ cu.key \in SessionKeys
        /\ Alike(cu.key, d.convos[y].c1)
    BY <2>1, ContentsKinds DEF Ciphertexts, Matched, NoneTwice
  <2>3. y # x
    BY <1>1, <2>2 DEF HasConvo
  <2>4. d.convos[y].c1 \in SessionKeys
    BY <2>2, ConvoStates
  <2>5. cu.key.thread = d.convos[y].c1.thread /\ cu.key.label = d.convos[y].c1.label
    BY <2>2, <2>4, AlikeStates
  <2>6. CASE y.who = c
    <3>1. y \in DrawnWith(d, c, p)
      BY <2>2, <2>6 DEF DrawnWith
    <3> QED
      BY <1>5, <1>11, <2>3, <2>5, <3>1
  <2>7. CASE y.who # c
    <3>1. y.who = p /\ HasConvo(e, y, c)
      BY <2>2, <2>7 DEF Peers
    <3>2. y \in DrawnWith(e, p, c)
      BY <2>2, <3>1 DEF DrawnWith
    <3>3. e.convos[y].c2.label = "responderThread"
      BY <3>2 DEF Matched, ThreadsMatch, ThreadMatches
    <3>4. Alike(d.convos[y].c1, e.convos[y].c2) /\ e.convos[y].c2 \in SessionKeys
      BY <2>2, <3>1, ConvoStates DEF Matched, ConvosMatch
    <3>5. cu.key.label = "responderThread"
      BY <2>4, <2>5, <3>3, <3>4, AlikeStates
    <3> QED
      BY <2>3, <3>5 DEF IsTitle
  <2> QED
    BY <2>6, <2>7
<1> QED
  BY <1>9, <1>12, <1>13, <1>15, <1>16, <1>17 DEF Matched

\* ... for it as the reader of the other direction ...
LEMMA ThreadReader ==
    ASSUME NEW c \in Clients, NEW p \in Clients, c # p, NEW d \in Databases, Homed(d),
           NEW e \in Databases, Peers(p, c, e, d),
           NEW f \in Databases, NEW ct \in Ciphertexts, StartsThread(p, d, f, ct),
           ct.convo.who = c, ct.text.by = c
    PROVE  SameReader(p, c, e, d, f)
<1> DEFINE x == ct.convo
           t1 == d.contacts[p].c1
<1>1. /\ x \in Draws /\ HasConvo(f, x, p) /\ d.convos[x] = Null
      /\ Got(d, p, x) = 0 /\ Got(f, p, x) = 0
      /\ \A y \in Draws \ {x} : f.convos[y] = d.convos[y]
      /\ IsAdded(d, p) /\ IsAdded(f, p)
      /\ f.contacts[p].c2 = d.contacts[p].c2
      /\ \A q \in Clients \ {c} : \A y \in Draws : ShownIn(f, q, y) = ShownIn(d, q, y)
  BY StartsThreadRows
<1> HIDE DEF x, t1
<1>2. ~HasConvo(e, x, c)
  BY <1>1 DEF Peers, HasConvo, x
<1>3. Noticed(f, p) = Noticed(d, p)
  BY <1>1 DEF Noticed
<1>4. \A y \in Draws : Got(f, p, y) = Got(d, p, y)
  BY <1>1 DEF Got, HasConvo
<1>5. ASSUME NEW y \in Draws, HasConvo(e, y, c)
      PROVE  f.convos[y] = d.convos[y] /\ (HasConvo(f, y, p) <=> HasConvo(d, y, p))
  BY <1>1, <1>2, <1>5 DEF HasConvo
<1> QED
  BY <1>1, <1>3, <1>4, <1>5 DEF SameReader

\* ... and for everyone else.
LEMMA ThreadOthers ==
    ASSUME NEW c \in Clients, NEW p \in Clients, c # p, NEW d \in Databases, Homed(d),
           NEW f \in Databases, NEW ct \in Ciphertexts, StartsThread(p, d, f, ct),
           ct.convo.who = c, ct.text.by = c, NEW q \in Clients \ {c, p}
    PROVE  Untouched(d, f, q)
<1>1. /\ ct.convo \in Draws /\ HasConvo(f, ct.convo, p) /\ d.convos[ct.convo] = Null
      /\ \A y \in Draws \ {ct.convo} : f.convos[y] = d.convos[y]
      /\ \A r \in Clients \ {p} : f.contacts[r] = d.contacts[r]
      /\ \A r \in Clients \ {c} : \A y \in Draws : ShownIn(f, r, y) = ShownIn(d, r, y)
  BY StartsThreadRows
<1>2. ASSUME NEW y \in Draws
      PROVE  /\ HasConvo(f, y, q) <=> HasConvo(d, y, q)
             /\ HasConvo(d, y, q) => f.convos[y] = d.convos[y]
  <2>1. CASE y = ct.convo
    BY <1>1, <2>1 DEF HasConvo
  <2>2. CASE y # ct.convo
    BY <1>1, <2>2 DEF HasConvo
  <2> QED
    BY <2>1, <2>2
<1> QED
  BY <1>1, <1>2 DEF Untouched

\* What writing in a conversation changes of the rows.
LEMMA WritesTextRows ==
    ASSUME NEW p \in Clients, NEW d \in Databases, NEW f \in Databases,
           NEW ct \in Ciphertexts, WritesText(p, d, f, ct), NEW x, x = ct.convo
    PROVE  /\ x \in Draws /\ HasConvo(d, x, p) /\ HasConvo(f, x, p)
           /\ f.convos[x].c1 = AfterAEAD(ct.key) /\ f.convos[x].c2 = d.convos[x].c2
           /\ f.convos[x].title = d.convos[x].title
           /\ \A y \in Draws \ {x} : f.convos[y] = d.convos[y]
           /\ f.contacts = d.contacts
           /\ \A q, y : HasConvo(f, y, q) <=> HasConvo(d, y, q)
           /\ \A q : \A y \in Draws : Got(f, q, y) = Got(d, q, y)
           /\ \A q : \A y \in Draws : ShownIn(f, q, y) = ShownIn(d, q, y)
<1>1. x \in Draws /\ ct.key \in SessionKeys
  BY DEF Ciphertexts
<1>2. HasConvo(d, x, p)
  BY DEF WritesText
<1>3. d.convos[x] \in ConvoRows /\ d.convos[x] # Null
  BY <1>1, <1>2, ConvoStates
<1>4. /\ d.convos \in [Draws -> ConvoRows \cup {Null}]
      /\ f.convos \in [Draws -> ConvoRows \cup {Null}]
  BY DEF Databases
<1>5. PICK o, ti, k1, k2 : d.convos[x] = [peer |-> o, title |-> ti, c1 |-> k1, c2 |-> k2]
  BY <1>3 DEF ConvoRows
<1>6. /\ f.convos[x] = [d.convos[x] EXCEPT !.c1 = AfterAEAD(ct.key)]
      /\ \A y \in Draws \ {x} : f.convos[y] = d.convos[y]
      /\ f.contacts = d.contacts /\ f.messages = d.messages
  BY <1>1, <1>4 DEF WritesText
<1>7. [d.convos[x] EXCEPT !.c1 = AfterAEAD(ct.key)]
         = [peer |-> o, title |-> ti, c1 |-> AfterAEAD(ct.key), c2 |-> k2]
  BY <1>5
<1>8. /\ f.convos[x].c1 = AfterAEAD(ct.key) /\ f.convos[x].c2 = d.convos[x].c2
      /\ f.convos[x].title = d.convos[x].title /\ f.convos[x].peer = d.convos[x].peer
  BY <1>5, <1>6, <1>7
<1>9. f.convos[x] # Null
  <2>1. AfterAEAD(ct.key) \in SessionKeys
    BY <1>1, KeysType
  <2>2. f.convos[x] \in ConvoRows
    BY <1>3, <1>5, <1>6, <1>7, <2>1 DEF ConvoRows
  <2> QED
    BY <2>2, RowAssumption
<1>10. ASSUME NEW q, NEW y PROVE HasConvo(f, y, q) <=> HasConvo(d, y, q)
  <2>1. CASE y = x
    BY <1>3, <1>8, <1>9, <2>1 DEF HasConvo
  <2>2. CASE y \in Draws \ {x}
    BY <1>6, <2>2 DEF HasConvo
  <2>3. CASE y \notin Draws
    BY <1>1, <1>4, <2>3 DEF HasConvo, WritesText
  <2> QED
    BY <2>1, <2>2, <2>3
<1>11. ASSUME NEW q, NEW y \in Draws PROVE Got(f, q, y) = Got(d, q, y)
  <2>1. f.convos[y].c2 = d.convos[y].c2
    BY <1>6, <1>8
  <2> QED
    BY <1>10, <2>1 DEF Got
<1>12. ASSUME NEW q, NEW y \in Draws PROVE ShownIn(f, q, y) = ShownIn(d, q, y)
  <2>1. CASE y # x
    BY <1>6, <2>1, ShownRow
  <2>2. CASE y = x
    <3>1. f.convos[x] # Null /\ d.convos[x] # Null
      BY <1>3, <1>9
    <3>2. /\ f.messages = d.messages /\ f.convos[x].peer = d.convos[x].peer
          /\ f.convos[x].title = d.convos[x].title
      BY <1>6, <1>8
    <3>3. ShownIn(f, q, x) = ShownIn(d, q, x)
      BY <3>1, <3>2, ShownRow
    <3> QED
      BY <2>2, <3>3
  <2> QED
    BY <2>1, <2>2
<1> QED
  BY <1>1, <1>2, <1>6, <1>8, <1>10, <1>11, <1>12

\* A title that its reader has had is none of the messages that it has not had.
LEMMA LaterTexts ==
    ASSUME NEW c \in Clients, NEW p \in Clients, c # p, NEW d \in Databases,
           NEW e \in Databases, Peers(c, p, d, e),
           NEW x \in Draws, HasConvo(d, x, p), NEW M,
           Matched(c, p, d, e, M), NEW K, Matched(p, c, e, d, K),
           NEW s, s = d.convos[x].c1
    PROVE  ~(s.label = "initiatorThread" /\ s.turn = 0)
<1>1. s \in SessionKeys
  BY ConvoStates
<1>2. CASE x.who = c
  <2>1. x \in DrawnWith(d, c, p)
    BY <1>2 DEF DrawnWith
  <2>2. 1 <= s.turn
    BY <2>1 DEF Matched, ThreadsMatch, ThreadMatches
  <2> QED
    BY <2>2
<1>3. CASE x.who # c
  <2>1. x.who = p /\ HasConvo(e, x, c)
    BY <1>3 DEF Peers
  <2>2. x \in DrawnWith(e, p, c)
    BY <2>1 DEF DrawnWith
  <2>3. e.convos[x].c2.label = "responderThread"
    BY <2>2 DEF Matched, ThreadsMatch, ThreadMatches
  <2>4. Alike(s, e.convos[x].c2) /\ e.convos[x].c2 \in SessionKeys
    BY <2>1, ConvoStates DEF Matched, ConvosMatch
  <2> QED
    BY <1>1, <2>3, <2>4, AlikeStates
<1> QED
  BY <1>2, <1>3

\* A text in a conversation that is there: for the writer ...
LEMMA TextWriterSends ==
    ASSUME NEW c \in Clients, NEW p \in Clients, c # p, NEW d \in Databases,
           NEW e \in Databases, Peers(c, p, d, e),
           NEW f \in Databases, NEW ct \in Ciphertexts, WritesText(p, d, f, ct), ct.to = p,
           NEW M \in SUBSET Contents, NEW cts \in Seq(Ciphertexts),
           Matched(c, p, d, e, M), TextsMatch(c, p, d, e, M, cts),
           NEW K, Matched(p, c, e, d, K),
           NEW N, N = M \cup {ct}, NEW new, IsAppended(cts, ct, new)
    PROVE  /\ Matched(c, p, f, e, N) /\ TextsMatch(c, p, f, e, N, new)
           /\ \A cu \in M : Before(cu, ct)
<1> DEFINE x == ct.convo
<1>1. /\ x \in Draws /\ HasConvo(d, x, p) /\ HasConvo(f, x, p)
      /\ f.convos[x].c1 = AfterAEAD(ct.key) /\ f.convos[x].c2 = d.convos[x].c2
      /\ \A y \in Draws \ {x} : f.convos[y] = d.convos[y]
      /\ f.contacts = d.contacts
      /\ \A y : HasConvo(f, y, p) <=> HasConvo(d, y, p)
  BY WritesTextRows
<1>2. /\ ct.key = d.convos[x].c1 /\ ct.key \in SessionKeys /\ ct.kind = "aead"
      /\ ct.key.turn \in Nat
  BY DEF WritesText, Ciphertexts, SessionKeys
<1>3. /\ AfterAEAD(ct.key) \in SessionKeys /\ AfterAEAD(ct.key).turn = ct.key.turn + 1
      /\ AfterAEAD(ct.key).thread = ct.key.thread /\ AfterAEAD(ct.key).label = ct.key.label
      /\ Alike(ct.key, AfterAEAD(ct.key))
  <2>1. /\ AfterAEAD(ct.key) \in SessionKeys /\ AfterAEAD(ct.key).turn = ct.key.turn + 1
        /\ AfterAEAD(ct.key).thread = ct.key.thread /\ AfterAEAD(ct.key).label = ct.key.label
    BY <1>2, KeysType DEF AfterAEAD, SessionKeys
  <2> QED
    BY <1>2, <2>1, AlikeStates
<1>4. Continues(p, d, f, ct)
  BY <1>1, <1>2, <1>3 DEF Continues, HasConvo
<1>5. ContactsMatch(c, p, f, e)
  BY <1>1 DEF Matched, ContactsMatch, Created, IsAdded
<1>6. DrawnWith(f, c, p) = DrawnWith(d, c, p) /\ \A y \in DrawnWith(d, c, p) : y \in Draws
  BY <1>1 DEF DrawnWith
<1>7. ThreadsMatch(c, p, f, e)
  <2>1. \A y \in DrawnWith(d, c, p) :
           /\ f.convos[y].c1.thread = d.convos[y].c1.thread
           /\ f.convos[y].c1.label = d.convos[y].c1.label
           /\ f.convos[y].c2 = d.convos[y].c2
    BY <1>1, <1>2, <1>3, <1>6
  <2>2. ASSUME NEW y \in DrawnWith(d, c, p)
        PROVE  ThreadMatches(c, p, f, e, y)
    <3>1. ThreadMatches(c, p, d, e, y) /\ y \in Draws
      BY <1>6 DEF Matched, ThreadsMatch
    <3>2. 1 <= f.convos[y].c1.turn
      <4>1. CASE y = x
        <5>1. f.convos[x].c1.turn = ct.key.turn + 1
          BY <1>1, <1>3
        <5>2. 1 <= ct.key.turn + 1
          BY <1>2
        <5> HIDE DEF x
        <5> QED
          BY <4>1, <5>1, <5>2
      <4>2. CASE y # x
        BY <1>1, <3>1, <4>2 DEF ThreadMatches
      <4> QED
        BY <4>1, <4>2
    <3>3. Created(f, p) = Created(d, p)
      BY <1>1 DEF Created, IsAdded
    <3> QED
      BY <1>1, <2>1, <3>1, <3>2, <3>3 DEF ThreadMatches
  <2>3. Created(f, p) = Created(d, p)
    BY <1>1 DEF Created, IsAdded
  <2>4. \A y, z \in DrawnWith(f, c, p) :
           f.convos[y].c1.thread.turn = f.convos[z].c1.thread.turn => y = z
    <3>1. \A y, z \in DrawnWith(d, c, p) :
             d.convos[y].c1.thread.turn = d.convos[z].c1.thread.turn => y = z
      BY DEF Matched, ThreadsMatch
    <3> QED
      BY <1>6, <2>1, <3>1
  <2>5. \A n \in 0 .. Created(f, p) : n < Created(f, p) =>
           \E y \in DrawnWith(f, c, p) : f.convos[y].c1.thread.turn = n
    BY <1>6, <2>1, <2>3 DEF Matched, ThreadsMatch
  <2> QED
    BY <1>6, <2>2, <2>4, <2>5 DEF ThreadsMatch
<1>8. ConvosMatch(c, p, f, e)
  <2>1. ASSUME NEW y \in Draws, HasConvo(f, y, p), HasConvo(e, y, c)
        PROVE  /\ Alike(f.convos[y].c1, e.convos[y].c2)
               /\ e.convos[y].c2.turn <= f.convos[y].c1.turn
    <3>1. /\ HasConvo(d, y, p) /\ Alike(d.convos[y].c1, e.convos[y].c2)
          /\ e.convos[y].c2.turn <= d.convos[y].c1.turn
      BY <1>1, <2>1 DEF Matched, ConvosMatch
    <3>2. CASE y # x
      BY <1>1, <3>1, <3>2
    <3>3. CASE y = x
      <4>1. e.convos[x].c2 \in SessionKeys /\ e.convos[x].c2.turn \in Nat
        BY <2>1, <3>3, ConvoStates
      <4>2. Alike(ct.key, e.convos[x].c2) /\ e.convos[x].c2.turn <= ct.key.turn
        BY <1>2, <3>1, <3>3
      <4>3. Alike(f.convos[x].c1, e.convos[x].c2)
        BY <1>1, <1>2, <1>3, <4>1, <4>2, AlikeStates
      <4>4. e.convos[x].c2.turn <= f.convos[x].c1.turn
        BY <1>1, <1>2, <1>3, <4>1, <4>2
      <4> QED
        BY <3>3, <4>3, <4>4
    <3> QED
      BY <3>2, <3>3
  <2> QED
    BY <2>1 DEF ConvosMatch
<1>9. Got(e, c, x) <= ct.key.turn
  BY <1>1, <1>2 DEF Got, Matched, ConvosMatch
<1>10. NoneTwice(c, p, f, e, N) /\ NoneLost(c, p, f, e, N)
  BY <1>4, <1>9, WriteOn DEF Matched
<1>11. TextsMatch(c, p, f, e, N, new)
  BY <1>4, TypedOn DEF Matched
<1>12. ~IsTitle(ct)
  BY <1>1, <1>2, LaterTexts DEF IsTitle
<1>13. ASSUME NEW cu \in M PROVE Before(cu, ct)
  <2>1. cu.kind = "aead" /\ cu.convo = ct.convo => cu.key.turn < ct.key.turn
    BY <1>2 DEF Matched, NoneTwice
  <2> QED
    BY <1>2, <1>12, <2>1 DEF Before
<1> QED
  BY <1>5, <1>7, <1>8, <1>10, <1>11, <1>13 DEF Matched

\* ... for it as the reader of the other direction, and for everyone.
LEMMA TextReaderSends ==
    ASSUME NEW c, NEW p \in Clients, NEW d \in Databases, NEW e,
           NEW f \in Databases, NEW ct \in Ciphertexts, WritesText(p, d, f, ct)
    PROVE  SameReader(p, c, e, d, f)
<1>1. /\ \A y : HasConvo(f, y, p) <=> HasConvo(d, y, p)
      /\ f.convos[ct.convo].c2 = d.convos[ct.convo].c2
      /\ \A y \in Draws \ {ct.convo} : f.convos[y] = d.convos[y]
      /\ f.contacts = d.contacts
      /\ \A y \in Draws : Got(f, p, y) = Got(d, p, y)
      /\ \A y \in Draws : ShownIn(f, p, y) = ShownIn(d, p, y)
  BY WritesTextRows
<1>2. \A y \in Draws : f.convos[y].c2 = d.convos[y].c2
  BY <1>1
<1>3. Noticed(f, p) = Noticed(d, p)
  BY <1>1 DEF Noticed, IsAdded
<1> QED
  BY <1>1, <1>2, <1>3 DEF SameReader, IsAdded

LEMMA TextOthersSend ==
    ASSUME NEW p \in Clients, NEW d \in Databases, NEW f \in Databases,
           NEW ct \in Ciphertexts, WritesText(p, d, f, ct), NEW q, q # p
    PROVE  Untouched(d, f, q)
<1>1. /\ \A y : HasConvo(f, y, q) <=> HasConvo(d, y, q)
      /\ \A y \in Draws \ {ct.convo} : f.convos[y] = d.convos[y]
      /\ f.contacts = d.contacts
      /\ \A y \in Draws : ShownIn(f, q, y) = ShownIn(d, q, y)
  BY WritesTextRows
<1>2. ~HasConvo(d, ct.convo, q)
  BY DEF WritesText, HasConvo
<1>3. \A y \in Draws : HasConvo(d, y, q) => f.convos[y] = d.convos[y]
  BY <1>1, <1>2
<1> QED
  BY <1>1, <1>3 DEF Untouched

-----------------------------------------------------------------------------
(* Steps of clients that are seen from afar *)

Posts == {req \in Reqs : req.type = "SendMessage"}
ViewType(S, L, O, T) ==
    /\ S \in [Clients -> Databases]
    /\ L \in [Clients -> Seq(Msgs)]
    /\ O \in [Clients -> Posts \cup {Null}]
    /\ T \in [Clients -> Seq(Ciphertexts)]

\* What is on its way are contents.
LEMMA MailType ==
    ASSUME NEW c, NEW p, NEW line \in Seq(Msgs), NEW out \in Posts \cup {Null}
    PROVE  Mail(c, p, line, out) \in SUBSET Contents
<1>1. \A i \in DOMAIN line : line[i] \in Msgs
  OBVIOUS
<1>2. Ahead(c, line) \subseteq Contents
  BY <1>1 DEF Ahead, Msgs, H!Messages
<1>3. Last(p, out) \subseteq Contents
  BY DEF Last, Posts, Reqs, H!Requests
<1> QED
  BY <1>2, <1>3 DEF Mail

\* A pair of clients to which nothing happened that matters.
LEMMA PairKeeps ==
    ASSUME NEW c \in Clients, NEW p \in Clients, NEW d \in Databases, NEW f \in Databases,
           NEW e \in Databases, NEW g \in Databases,
           SameWriter(c, p, d, f, e), SameReader(c, p, f, e, g),
           NEW line \in Seq(Msgs), NEW out \in Posts \cup {Null}, NEW s,
           PairInStep(c, p, d, e, line, out, s),
           NEW line1, NEW out1, NEW t, OutOrdered(c, p, out1, line1), SameTyped(s, t, p),
           Mail(c, p, line1, out1) = Mail(c, p, line, out)
    PROVE  PairInStep(c, p, f, g, line1, out1, t)
<1> DEFINE M == Mail(c, p, line, out)
<1>1. M \in SUBSET Contents
  BY MailType
<1>2. SameMail(M, M)
  BY SameAll
<1>3. Matched(c, p, d, e, M) /\ TextsMatch(c, p, d, e, M, s)
  BY DEF PairInStep
<1>4. Matched(c, p, f, g, M) /\ TextsMatch(c, p, f, g, M, t)
  BY <1>1, <1>2, <1>3, NothingNoticed
<1> QED
  BY <1>4 DEF PairInStep

\* The client c moves on to the database f.  The pairs to which that matters are
\* those of c with a client in P.
LEMMA OthersStay ==
    ASSUME NEW S, NEW L, NEW O, NEW T, ViewType(S, L, O, T), AllInStep(S, L, O, T),
           NEW c \in Clients, NEW f \in Databases, NEW P,
           \A q \in Clients \ {c} : q \notin P => Untouched(S[c], f, q),
           NEW S1, S1 = [S EXCEPT ![c] = f], NEW line, NEW out, NEW cts,
           NEW a \in Clients, NEW b \in Clients, a # b, ~(a = c /\ b \in P), ~(a \in P /\ b = c),
           OutOrdered(a, b, out, line), SameTyped(T[a], cts, b),
           Mail(a, b, line, out) = Mail(a, b, L[b], O[a])
    PROVE  PairInStep(a, b, S1[a], S1[b], line, out, cts)
<1>1. /\ \A q \in Clients : S[q] \in Databases /\ S1[q] \in Databases
      /\ S1[c] = f /\ \A q \in Clients \ {c} : S1[q] = S[q]
      /\ L[b] \in Seq(Msgs) /\ O[a] \in Posts \cup {Null}
  BY DEF ViewType
<1>2. PairInStep(a, b, S[a], S[b], L[b], O[a], T[a])
  BY DEF AllInStep
<1>3. CASE a # c /\ b # c
  <2>1. SameWriter(a, b, S[a], S1[a], S[b]) /\ SameReader(a, b, S1[a], S[b], S1[b])
    BY <1>1, <1>3, SameAll
  <2> QED
    BY <1>1, <1>2, <2>1, PairKeeps, SMTT(20)
<1>4. CASE a = c
  <2>1. Untouched(S[c], f, b)
    BY <1>4
  <2>2. SameWriter(a, b, S[a], S1[a], S[b])
    BY <1>1, <1>4, <2>1, UntouchedSame
  <2>3. SameReader(a, b, S1[a], S[b], S1[b])
    BY <1>1, <1>4, SameAll
  <2> QED
    BY <1>1, <1>2, <2>2, <2>3, PairKeeps, SMTT(20)
<1>5. CASE b = c
  <2>1. Untouched(S[c], f, a)
    BY <1>5
  <2>2. SameWriter(a, b, S[a], S1[a], S[b])
    BY <1>1, <1>5, SameAll
  <2>3. SameReader(a, b, S1[a], S[b], S1[b])
    BY <1>1, <1>5, <2>1, UntouchedSame
  <2> QED
    BY <1>1, <1>2, <2>2, <2>3, PairKeeps, SMTT(20)
<1> QED
  BY <1>3, <1>4, <1>5

\* A client stores something that no one else has to do with.
LEMMA ViewStores ==
    ASSUME NEW S, NEW L, NEW O, NEW T, ViewType(S, L, O, T), AllInStep(S, L, O, T),
           NEW c \in Clients, NEW f \in Databases,
           \A q \in Clients \ {c} : Untouched(S[c], f, q),
           NEW S1, S1 = [S EXCEPT ![c] = f]
    PROVE  AllInStep(S1, L, O, T)
<1>1. ASSUME NEW a \in Clients, NEW b \in Clients, a # b
      PROVE  PairInStep(a, b, S1[a], S1[b], L[b], O[a], T[a])
  <2>1. OutOrdered(a, b, O[a], L[b])
    BY <1>1 DEF AllInStep, PairInStep
  <2>2. SameTyped(T[a], T[a], b)
    BY SameAll
  <2> DEFINE P == {}
  <2>3. ~(a = c /\ b \in P) /\ ~(a \in P /\ b = c)
    OBVIOUS
  <2>4. \A q \in Clients \ {c} : q \notin P => Untouched(S[c], f, q)
    OBVIOUS
  <2> HIDE DEF P
  <2>5. ASSUME NEW line, line = L[b], NEW out, out = O[a], NEW cts, cts = T[a]
        PROVE  PairInStep(a, b, S1[a], S1[b], line, out, cts)
    <3>1. /\ Mail(a, b, line, out) = Mail(a, b, L[b], O[a])
          /\ OutOrdered(a, b, out, line) /\ SameTyped(T[a], cts, b)
      BY <2>1, <2>2, <2>5
    <3> QED
      BY <1>1, <2>3, <2>4, <3>1, OthersStay
  <2> QED
    BY <2>5
<1> QED
  BY <1>1 DEF AllInStep

\* What is known of a writer c and a reader p when c has nothing to send yet: M
\* is on its way, and c made the ciphertexts s.
Pair(c, p, d, e, M, s) ==
    /\ c \in Clients /\ p \in Clients /\ c # p
    /\ d \in Databases /\ e \in Databases
    /\ M \in SUBSET Contents /\ s \in Seq(Ciphertexts)
    /\ Peers(c, p, d, e) /\ Peers(p, c, e, d)
    /\ Matched(c, p, d, e, M) /\ TextsMatch(c, p, d, e, M, s)
    /\ \E K : Matched(p, c, e, d, K)

\* c settles the database f and puts the content ct behind M, of which it made the
\* ciphertexts t.
Moves(c, p, d, e, f, M, ct, s, t) ==
    /\ f \in Databases
    /\ Matched(c, p, f, e, M \cup {ct}) /\ TextsMatch(c, p, f, e, M \cup {ct}, t)
    /\ \A cu \in M : Before(cu, ct)
    /\ SameReader(p, c, e, d, f)
    /\ \A q \in Clients \ {c, p} : Untouched(d, f, q)
    /\ \A q \in Clients \ {c, p} : SameTyped(s, t, q)

\* The client c may send the message out to p.
Posting(S, L, O, T, c, p, out) ==
    /\ ViewType(S, L, O, T) /\ AllInStep(S, L, O, T)
    /\ c \in Clients /\ p \in Clients /\ c # p
    /\ O[c] = Null /\ out \in Posts /\ out # Null /\ out.to = p
    /\ Addressed(c, p, out.convo, out.content)

\* A client begins to send the message out to p.
LEMMA ViewBegins ==
    ASSUME NEW S, NEW L, NEW O, NEW T, NEW c, NEW p, NEW out, Posting(S, L, O, T, c, p, out),
           NEW ct, ct = out.content, NEW f, NEW cts,
           Moves(c, p, S[c], S[p], f, Ahead(c, L[p]), ct, T[c], cts),
           NEW S1, S1 = [S EXCEPT ![c] = f], NEW O1, O1 = [O EXCEPT ![c] = out],
           NEW T1, T1 = [T EXCEPT ![c] = cts]
    PROVE  AllInStep(S1, L, O1, T1)
<1> USE DEF Posting, Moves
<1> DEFINE N == Ahead(c, L[p]) \cup {ct}
<1>1. /\ \A q \in Clients : S[q] \in Databases /\ S1[q] \in Databases
      /\ S1[c] = f /\ \A q \in Clients \ {c} : S1[q] = S[q]
      /\ O1[c] = out /\ \A q \in Clients \ {c} : O1[q] = O[q]
      /\ T1[c] = cts /\ \A q \in Clients \ {c} : T1[q] = T[q]
      /\ \A q \in Clients : L[q] \in Seq(Msgs) /\ O[q] \in Posts \cup {Null}
  BY DEF ViewType
<1>2. Last(p, out) = {ct} /\ Mail(c, p, L[p], out) = N
  BY DEF Last, Mail
<1>3. OutOrdered(c, p, out, L[p])
  BY DEF OutOrdered, Ahead
<1>4. ASSUME NEW a \in Clients, NEW b \in Clients, a # b
      PROVE  PairInStep(a, b, S1[a], S1[b], L[b], O1[a], T1[a])
  <2>1. CASE a = c /\ b = p
    <3>1. PairInStep(c, p, f, S[p], L[p], out, cts)
      BY <1>2, <1>3 DEF PairInStep
    <3> QED
      BY <1>1, <2>1, <3>1
  <2>2. CASE a = p /\ b = c
    <3>1. PairInStep(p, c, S[p], S[c], L[c], O[p], T[p])
      BY DEF AllInStep
    <3>2. SameWriter(p, c, S[p], S[p], S[c]) /\ SameTyped(T[p], T[p], c)
      BY SameAll
    <3>3. OutOrdered(p, c, O[p], L[c])
      BY <3>1 DEF PairInStep
    <3>4. PairInStep(p, c, S[p], f, L[c], O[p], T[p])
      BY <1>1, <3>1, <3>2, <3>3, PairKeeps
    <3> QED
      BY <1>1, <2>2, <3>4
  <2>3. CASE ~(a = c /\ b = p) /\ ~(a = p /\ b = c)
    <3> DEFINE P == {p}
    <3>1. PairInStep(a, b, S[a], S[b], L[b], O[a], T[a])
      BY <1>4 DEF AllInStep
    <3>2. OutOrdered(a, b, O1[a], L[b])
      <4>1. a = c => O1[a].to # b
        BY <1>1, <2>3
      <4>2. a # c => O1[a] = O[a]
        BY <1>1
      <4> QED
        BY <3>1, <4>1, <4>2 DEF PairInStep, OutOrdered
    <3>3. Mail(a, b, L[b], O1[a]) = Mail(a, b, L[b], O[a])
      BY <1>1, <2>3 DEF Mail, Last
    <3>4. SameTyped(T[a], T1[a], b)
      <4>1. CASE a = c
        BY <1>1, <1>4, <2>3, <4>1
      <4>2. CASE a # c
        BY <1>1, <4>2, SameAll
      <4> QED
        BY <4>1, <4>2
    <3>5. ~(a = c /\ b \in P) /\ ~(a \in P /\ b = c)
      BY <2>3
    <3>6. \A q \in Clients \ {c} : q \notin P => Untouched(S[c], f, q)
      OBVIOUS
    <3> HIDE DEF P
    <3> QED
      BY <1>4, <3>2, <3>3, <3>4, <3>5, <3>6, OthersStay, ZenonT(40)
  <2> QED
    BY <2>1, <2>2, <2>3
<1>5. \A q \in Clients : O1[q] # Null => O1[q].to \in Clients \ {q}
  BY <1>1 DEF AllInStep
<1> QED
  BY <1>4, <1>5 DEF AllInStep

\* A message joins a line ...
LEMMA LineAppends ==
    ASSUME NEW c \in Clients, NEW p \in Clients, NEW line \in Seq(Msgs),
           NEW m \in Msgs, m.from = c, Addressed(c, p, m.convo, m.content),
           LineOrdered(p, line), \A cu \in Ahead(c, line) : Before(cu, m.content),
           NEW new, IsAppended(line, m, new)
    PROVE  /\ new \in Seq(Msgs) /\ LineOrdered(p, new)
           /\ Ahead(c, new) = Ahead(c, line) \cup {m.content}
           /\ \A q : q # c => Ahead(q, new) = Ahead(q, line)
           /\ \A q, r, out : q # c /\ OutOrdered(q, r, out, line) => OutOrdered(q, r, out, new)
<1> DEFINE n == Len(line) + 1
<1>1. /\ new \in Seq(Msgs) /\ new[n] = m /\ DOMAIN new = DOMAIN line \cup {n}
      /\ \A i \in DOMAIN line : i \in DOMAIN new /\ new[i] = line[i] /\ i \in Nat /\ i < n
      /\ n \in Nat
  BY DEF IsAppended
<1> HIDE DEF n
<1>2. ASSUME NEW i \in DOMAIN new
      PROVE  Addressed(new[i].from, p, new[i].convo, new[i].content)
  <2>1. CASE i = n
    BY <1>1, <2>1
  <2>2. CASE i # n
    BY <1>1, <2>2 DEF LineOrdered
  <2> QED
    BY <2>1, <2>2
<1>3. ASSUME NEW i \in DOMAIN new, NEW j \in DOMAIN new, i < j, new[i].from = new[j].from
      PROVE  Before(new[i].content, new[j].content)
  <2>1. i \in DOMAIN line
    BY <1>1, <1>3
  <2>2. CASE j = n
    BY <1>1, <1>3, <2>1, <2>2 DEF Ahead
  <2>3. CASE j # n
    <3>1. j \in DOMAIN line
      BY <1>1, <2>3
    <3> QED
      BY <1>1, <1>3, <2>1, <3>1 DEF LineOrdered
  <2> QED
    BY <2>2, <2>3
<1>4. LineOrdered(p, new)
  BY <1>2, <1>3 DEF LineOrdered
<1>5. ASSUME NEW q
      PROVE  Ahead(q, new) = Ahead(q, line) \cup (IF q = c THEN {m.content} ELSE {})
  <2>1. \A ct : ct \in Ahead(q, new) <=> \E i \in DOMAIN new : new[i].from = q /\ ct = new[i].content
    BY DEF Ahead
  <2>2. \A ct : ct \in Ahead(q, line) <=> \E i \in DOMAIN line : line[i].from = q /\ ct = line[i].content
    BY DEF Ahead
  <2> QED
    BY <1>1, <2>1, <2>2
<1>6. ASSUME NEW q, NEW r, NEW out, q # c, OutOrdered(q, r, out, line)
      PROVE  OutOrdered(q, r, out, new)
  <2>1. ASSUME out # Null, out.to = r, NEW i \in DOMAIN new, new[i].from = q
        PROVE  Before(new[i].content, out.content)
    <3>1. i \in DOMAIN line
      BY <1>1, <1>6, <2>1
    <3> QED
      BY <1>1, <1>6, <2>1, <3>1 DEF OutOrdered
  <2> QED
    BY <1>6, <2>1 DEF OutOrdered
<1> QED
  BY <1>1, <1>4, <1>5, <1>6

\* ... and the first one leaves it.
LEMMA LineShortens ==
    ASSUME NEW p \in Clients, NEW line \in Seq(Msgs), line # <<>>, LineOrdered(p, line),
           NEW m, m = Head(line), NEW new, new = Tail(line)
    PROVE  /\ m \in Msgs /\ Addressed(m.from, p, m.convo, m.content)
           /\ new \in Seq(Msgs) /\ LineOrdered(p, new)
           /\ Ahead(m.from, line) = {m.content} \cup Ahead(m.from, new)
           /\ \A cu \in Ahead(m.from, new) : Before(m.content, cu)
           /\ \A q : q # m.from => Ahead(q, new) = Ahead(q, line)
           /\ \A q, r, out : OutOrdered(q, r, out, line) => OutOrdered(q, r, out, new)
<1>1. /\ new \in Seq(Msgs) /\ m = line[1] /\ m \in Msgs /\ 1 \in DOMAIN line
      /\ \A i \in DOMAIN new : /\ i + 1 \in DOMAIN line /\ new[i] = line[i + 1]
                               /\ i \in Nat /\ 1 < i + 1
      /\ \A i \in DOMAIN line : i # 1 => i - 1 \in DOMAIN new /\ new[i - 1] = line[i]
  OBVIOUS
<1>2. LineOrdered(p, new)
  <2>1. ASSUME NEW i \in DOMAIN new, NEW j \in DOMAIN new, i < j, new[i].from = new[j].from
        PROVE  Before(new[i].content, new[j].content)
    <3>1. i + 1 < j + 1
      BY <1>1, <2>1
    <3>2. line[i + 1].from = line[j + 1].from
      BY <1>1, <2>1
    <3>3. Before(line[i + 1].content, line[j + 1].content)
      BY <1>1, <3>1, <3>2 DEF LineOrdered
    <3> QED
      BY <1>1, <3>3
  <2>2. \A i \in DOMAIN new : Addressed(new[i].from, p, new[i].convo, new[i].content)
    BY <1>1 DEF LineOrdered
  <2> QED
    BY <2>1, <2>2 DEF LineOrdered
<1>3. ASSUME NEW q
      PROVE  Ahead(q, line) = (IF q = m.from THEN {m.content} ELSE {}) \cup Ahead(q, new)
  <2>1. \A ct : ct \in Ahead(q, new) <=> \E i \in DOMAIN new : new[i].from = q /\ ct = new[i].content
    BY DEF Ahead
  <2>2. \A ct : ct \in Ahead(q, line) <=> \E i \in DOMAIN line : line[i].from = q /\ ct = line[i].content
    BY DEF Ahead
  <2>3. ASSUME NEW ct \in Ahead(q, line)
        PROVE  (q = m.from /\ ct = m.content) \/ ct \in Ahead(q, new)
    <3>1. PICK i \in DOMAIN line : line[i].from = q /\ ct = line[i].content
      BY <2>2
    <3> QED
      BY <1>1, <2>1, <3>1
  <2>4. ASSUME NEW ct \in Ahead(q, new)
        PROVE  ct \in Ahead(q, line)
    <3>1. PICK i \in DOMAIN new : new[i].from = q /\ ct = new[i].content
      BY <2>1
    <3> QED
      BY <1>1, <2>2, <3>1
  <2>5. q = m.from => m.content \in Ahead(q, line)
    <3>1. 1 \in DOMAIN line /\ line[1] = m
      BY <1>1
    <3> QED
      BY <2>2, <3>1
  <2> QED
    BY <2>3, <2>4, <2>5
<1>4. ASSUME NEW cu \in Ahead(m.from, new)
      PROVE  Before(m.content, cu)
  <2>1. PICK i \in DOMAIN new : new[i].from = m.from /\ cu = new[i].content
    BY DEF Ahead
  <2> QED
    BY <1>1, <2>1 DEF LineOrdered
<1>5. ASSUME NEW q, NEW r, NEW out, OutOrdered(q, r, out, line)
      PROVE  OutOrdered(q, r, out, new)
  <2>1. ASSUME out # Null, out.to = r, NEW i \in DOMAIN new, new[i].from = q
        PROVE  Before(new[i].content, out.content)
    BY <1>1, <1>5, <2>1 DEF OutOrdered
  <2> QED
    BY <1>5, <2>1 DEF OutOrdered
<1>6. Addressed(m.from, p, m.convo, m.content)
  BY <1>1 DEF LineOrdered
<1>7. /\ Ahead(m.from, line) = {m.content} \cup Ahead(m.from, new)
      /\ \A q : q # m.from => Ahead(q, new) = Ahead(q, line)
  BY <1>3
<1> QED
  BY <1>1, <1>2, <1>4, <1>5, <1>6, <1>7

\* The hub takes the message of c.
LEMMA ViewPasses ==
    ASSUME NEW S, NEW L, NEW O, NEW T, ViewType(S, L, O, T), AllInStep(S, L, O, T),
           NEW c \in Clients, O[c] # Null, NEW p, p = O[c].to,
           NEW m \in Msgs, m.from = c, m.convo = O[c].convo, m.content = O[c].content,
           NEW new, IsAppended(L[p], m, new),
           NEW L1, L1 = [L EXCEPT ![p] = new], NEW O1, O1 = [O EXCEPT ![c] = Null]
    PROVE  AllInStep(S, L1, O1, T)
<1>1. p \in Clients \ {c} /\ PairInStep(c, p, S[c], S[p], L[p], O[c], T[c])
  BY DEF AllInStep
<1>2. /\ L[p] \in Seq(Msgs) /\ LineOrdered(p, L[p])
      /\ L1[p] = new /\ \A q \in Clients \ {p} : L1[q] = L[q]
      /\ O1[c] = Null /\ \A q \in Clients \ {c} : O1[q] = O[q]
  BY <1>1 DEF ViewType, AllInStep
<1>3. /\ Addressed(c, p, m.convo, m.content)
      /\ \A cu \in Ahead(c, L[p]) : Before(cu, m.content)
  BY <1>1 DEF PairInStep, OutOrdered, Ahead
<1>4. /\ LineOrdered(p, new)
      /\ Ahead(c, new) = Ahead(c, L[p]) \cup {m.content}
      /\ \A q : q # c => Ahead(q, new) = Ahead(q, L[p])
      /\ \A q, r, out : q # c /\ OutOrdered(q, r, out, L[p]) => OutOrdered(q, r, out, new)
  BY <1>1, <1>2, <1>3, LineAppends
<1>5. ASSUME NEW a \in Clients, NEW b \in Clients, a # b
      PROVE  /\ Mail(a, b, L1[b], O1[a]) = Mail(a, b, L[b], O[a])
             /\ OutOrdered(a, b, O1[a], L1[b])
  <2>1. PairInStep(a, b, S[a], S[b], L[b], O[a], T[a])
    BY <1>5 DEF AllInStep
  <2>2. CASE a = c /\ b = p
    <3>1. Mail(c, p, new, Null) = Mail(c, p, L[p], O[c])
      BY <1>1, <1>4 DEF Mail, Last
    <3> QED
      BY <1>1, <1>2, <2>2, <3>1 DEF OutOrdered
  <2>3. CASE a = c /\ b # p
    <3>1. Mail(c, b, L[b], Null) = Mail(c, b, L[b], O[c])
      BY <1>1, <2>3 DEF Mail, Last
    <3> QED
      BY <1>1, <1>2, <2>3, <3>1 DEF OutOrdered
  <2>4. CASE a # c /\ b = p
    <3>1. Ahead(a, new) = Ahead(a, L[p]) /\ OutOrdered(a, p, O[a], new)
      BY <1>4, <2>1, <2>4 DEF PairInStep
    <3> QED
      BY <1>2, <2>4, <3>1 DEF Mail
  <2>5. CASE a # c /\ b # p
    BY <1>2, <2>1, <2>5 DEF PairInStep
  <2> QED
    BY <2>2, <2>3, <2>4, <2>5
<1>6. ASSUME NEW a \in Clients, NEW b \in Clients, a # b
      PROVE  PairInStep(a, b, S[a], S[b], L1[b], O1[a], T[a])
  <2>1. PairInStep(a, b, S[a], S[b], L[b], O[a], T[a])
    BY <1>6 DEF AllInStep
  <2> QED
    BY <1>5, <1>6, <2>1 DEF PairInStep
<1>7. \A q \in Clients : LineOrdered(q, L1[q])
  BY <1>2, <1>4 DEF AllInStep
<1>8. \A q \in Clients : O1[q] # Null => O1[q].to \in Clients \ {q}
  BY <1>2 DEF AllInStep
<1> QED
  BY <1>6, <1>7, <1>8 DEF AllInStep

\* What is known of a reader p, with the database e, when the oldest message of M is
\* ct.  The writer c made the ciphertexts s; K is on its way to c, and p made t.
Taking(c, p, d, e, M, ct, s, K, t) ==
    /\ c \in Clients /\ p \in Clients /\ c # p
    /\ d \in Databases /\ e \in Databases
    /\ M \in SUBSET Contents /\ s \in Seq(Ciphertexts) /\ \E N : Oldest(M, ct, N)
    /\ K \in SUBSET Contents /\ t \in Seq(Ciphertexts)
    /\ Peers(c, p, d, e) /\ Peers(p, c, e, d)
    /\ Matched(c, p, d, e, M) /\ TextsMatch(c, p, d, e, M, s)
    /\ Matched(p, c, e, d, K) /\ TextsMatch(p, c, e, d, K, t)

\* p settles the database f, and ct is off its way.
Taken(c, p, d, e, f, M, ct, s, K, t) ==
    /\ f \in Databases
    /\ \A N \in SUBSET Contents : Oldest(M, ct, N) =>
          Matched(c, p, d, f, N) /\ TextsMatch(c, p, d, f, N, s)
    /\ Matched(p, c, f, d, K) /\ TextsMatch(p, c, f, d, K, t)
    /\ \A q \in Clients \ {c, p} : Untouched(e, f, q)

\* The first message of a line is the oldest one that is on its way.
LEMMA HeadOldest ==
    ASSUME NEW p \in Clients, NEW line \in Seq(Msgs), line # <<>>, LineOrdered(p, line),
           NEW m, m = Head(line), NEW c, c = m.from, NEW new, new = Tail(line),
           NEW out, OutOrdered(c, p, out, line)
    PROVE  /\ Oldest(Mail(c, p, line, out), m.content, Mail(c, p, new, out))
           /\ m \in Msgs /\ Addressed(c, p, m.convo, m.content)
<1>1. /\ m \in Msgs /\ Addressed(c, p, m.convo, m.content)
      /\ Ahead(c, line) = {m.content} \cup Ahead(c, new)
      /\ \A cu \in Ahead(c, new) : Before(m.content, cu)
  BY LineShortens
<1>2. Mail(c, p, line, out) = {m.content} \cup Mail(c, p, new, out)
  BY <1>1 DEF Mail
<1>3. \A cu \in Last(p, out) : Before(m.content, cu)
  <2>1. m.content \in Ahead(c, line)
    BY <1>1
  <2>2. PICK i \in DOMAIN line : line[i].from = c /\ m.content = line[i].content
    BY <2>1 DEF Ahead
  <2> QED
    BY <2>2 DEF OutOrdered, Last
<1> QED
  BY <1>1, <1>2, <1>3 DEF Oldest, Mail

\* The client p takes the first message of its line, which c sent.
LEMMA ViewTakes ==
    ASSUME NEW S, NEW L, NEW O, NEW T, ViewType(S, L, O, T), AllInStep(S, L, O, T),
           NEW p \in Clients, L[p] # <<>>, NEW m, m = Head(L[p]), NEW c, c = m.from,
           NEW f, NEW new, new = Tail(L[p]),
           Taken(c, p, S[c], S[p], f, Mail(c, p, L[p], O[c]), m.content, T[c],
                 Mail(p, c, L[c], O[p]), T[p]),
           NEW S1, S1 = [S EXCEPT ![p] = f], NEW L1, L1 = [L EXCEPT ![p] = new]
    PROVE  AllInStep(S1, L1, O, T)
<1> USE DEF Taken
<1>1. /\ L[p] \in Seq(Msgs) /\ LineOrdered(p, L[p])
      /\ L1[p] = new /\ \A q \in Clients \ {p} : L1[q] = L[q]
      /\ S1[p] = f /\ \A q \in Clients \ {p} : S1[q] = S[q]
  BY DEF ViewType, AllInStep
<1>2. /\ m \in Msgs /\ Addressed(c, p, m.convo, m.content)
      /\ new \in Seq(Msgs) /\ LineOrdered(p, new)
      /\ Ahead(c, L[p]) = {m.content} \cup Ahead(c, new)
      /\ \A cu \in Ahead(c, new) : Before(m.content, cu)
      /\ \A q : q # c => Ahead(q, new) = Ahead(q, L[p])
      /\ \A q, r, out : OutOrdered(q, r, out, L[p]) => OutOrdered(q, r, out, new)
  <2>1. ASSUME NEW line, line = L[p]
        PROVE  /\ m \in Msgs /\ Addressed(m.from, p, m.convo, m.content)
               /\ new \in Seq(Msgs) /\ LineOrdered(p, new)
               /\ Ahead(m.from, line) = {m.content} \cup Ahead(m.from, new)
               /\ \A cu \in Ahead(m.from, new) : Before(m.content, cu)
               /\ \A q : q # m.from => Ahead(q, new) = Ahead(q, line)
               /\ \A q, r, out : OutOrdered(q, r, out, line) => OutOrdered(q, r, out, new)
    <3>1. line \in Seq(Msgs) /\ line # <<>> /\ LineOrdered(p, line) /\ m = Head(line) /\ new = Tail(line)
      BY <1>1, <2>1
    <3> QED
      BY <3>1, LineShortens
  <2> QED
    BY <2>1
<1>3. c \in Clients /\ c # p /\ O[c] \in Posts \cup {Null}
  BY <1>2 DEF Msgs, H!Messages, Addressed, ViewType
<1>4. PairInStep(c, p, S[c], S[p], L[p], O[c], T[c])
  BY <1>3 DEF AllInStep
<1>5. PairInStep(c, p, S[c], f, new, O[c], T[c])
  <2> DEFINE N == Mail(c, p, new, O[c])
  <2>1. N \in SUBSET Contents
    BY <1>2, <1>3, MailType
  <2>2. Oldest(Mail(c, p, L[p], O[c]), m.content, N)
    <3>1. Mail(c, p, L[p], O[c]) = {m.content} \cup N
      BY <1>2 DEF Mail
    <3>2. \A cu \in Last(p, O[c]) : Before(m.content, cu)
      <4>1. m.content \in Ahead(c, L[p])
        BY <1>2
      <4>2. PICK i \in DOMAIN L[p] : L[p][i].from = c /\ m.content = L[p][i].content
        BY <4>1 DEF Ahead
      <4> QED
        BY <1>4, <4>2 DEF PairInStep, OutOrdered, Last
    <3> QED
      BY <1>2, <3>1, <3>2 DEF Oldest, Mail
  <2>3. Matched(c, p, S[c], f, N) /\ TextsMatch(c, p, S[c], f, N, T[c])
    BY <2>1, <2>2
  <2>4. OutOrdered(c, p, O[c], new)
    BY <1>2, <1>4 DEF PairInStep
  <2> QED
    BY <2>3, <2>4 DEF PairInStep
<1>6. PairInStep(p, c, f, S[c], L[c], O[p], T[p])
  <2>1. PairInStep(p, c, S[p], S[c], L[c], O[p], T[p])
    BY <1>3 DEF AllInStep
  <2> QED
    BY <2>1 DEF PairInStep
<1>7. ASSUME NEW a \in Clients, NEW b \in Clients, a # b
      PROVE  PairInStep(a, b, S1[a], S1[b], L1[b], O[a], T[a])
  <2>1. CASE a = c /\ b = p
    BY <1>1, <1>3, <1>5, <2>1
  <2>2. CASE a = p /\ b = c
    BY <1>1, <1>3, <1>6, <2>2
  <2>3. CASE ~(a = c /\ b = p) /\ ~(a = p /\ b = c)
    <3> DEFINE P == {c}
    <3>1. PairInStep(a, b, S[a], S[b], L[b], O[a], T[a])
      BY <1>7 DEF AllInStep
    <3>2. /\ OutOrdered(a, b, O[a], L1[b])
          /\ Mail(a, b, L1[b], O[a]) = Mail(a, b, L[b], O[a])
      <4>1. CASE b = p
        <5>1. Ahead(a, new) = Ahead(a, L[p]) /\ OutOrdered(a, p, O[a], new)
          BY <1>2, <2>3, <3>1, <4>1 DEF PairInStep
        <5> QED
          BY <1>1, <4>1, <5>1 DEF Mail
      <4>2. CASE b # p
        BY <1>1, <3>1, <4>2 DEF PairInStep
      <4> QED
        BY <4>1, <4>2
    <3>3. SameTyped(T[a], T[a], b)
      BY SameAll
    <3>4. ~(a = p /\ b \in P) /\ ~(a \in P /\ b = p)
      BY <2>3
    <3>5. \A q \in Clients \ {p} : q \notin P => Untouched(S[p], f, q)
      OBVIOUS
    <3> HIDE DEF P
    <3> QED
      BY <1>7, <3>2, <3>3, <3>4, <3>5, OthersStay, ZenonT(40)
  <2> QED
    BY <2>1, <2>2, <2>3
<1>8. \A q \in Clients : LineOrdered(q, L1[q])
  BY <1>1, <1>2 DEF AllInStep
<1> QED
  BY <1>7, <1>8 DEF AllInStep

-----------------------------------------------------------------------------
(* The calls that send *)

\* What is known of c and p when c has nothing to send yet.
LEMMA BeforeSending ==
    ASSUME NEW S, NEW L, NEW O, NEW T, ViewType(S, L, O, T), AllInStep(S, L, O, T),
           NEW c \in Clients, NEW p \in Clients, c # p, O[c] = Null,
           Peers(c, p, S[c], S[p]), Peers(p, c, S[p], S[c])
    PROVE  Pair(c, p, S[c], S[p], Ahead(c, L[p]), T[c])
<1>1. /\ S[c] \in Databases /\ S[p] \in Databases /\ T[c] \in Seq(Ciphertexts)
      /\ L[p] \in Seq(Msgs) /\ L[c] \in Seq(Msgs) /\ O[p] \in Posts \cup {Null}
      /\ O[c] \in Posts \cup {Null}
  BY DEF ViewType
<1>2. /\ PairInStep(c, p, S[c], S[p], L[p], O[c], T[c])
      /\ PairInStep(p, c, S[p], S[c], L[c], O[p], T[p])
  BY DEF AllInStep
<1>3. Mail(c, p, L[p], O[c]) = Ahead(c, L[p])
  BY DEF Mail, Last
<1>4. Ahead(c, L[p]) \in SUBSET Contents
  BY <1>1, <1>3, MailType
<1> QED
  BY <1>1, <1>2, <1>3, <1>4 DEF PairInStep, Pair

\* The row of a contact that is not finished, neither before nor after.
LEMMA RowQuiet ==
    ASSUME NEW p \in Clients, NEW d \in Databases, NEW f \in Databases,
           ~IsAdded(d, p), ~IsAdded(f, p),
           \A q \in Clients \ {p} : f.contacts[q] = d.contacts[q],
           f.convos = d.convos, f.messages = d.messages, NEW c, NEW e
    PROVE  /\ SameWriter(c, p, d, f, e) /\ SameReader(p, c, e, d, f)
           /\ \A q \in Clients \ {p} : Untouched(d, f, q)
<1>1. \A q, x : /\ ShownIn(f, q, x) = ShownIn(d, q, x)
                /\ HasConvo(f, x, q) <=> HasConvo(d, x, q)
                /\ Got(f, q, x) = Got(d, q, x)
  BY ShownRow DEF HasConvo, Got
<1>2. Noticed(f, p) = Noticed(d, p)
  BY DEF Noticed
<1> QED
  BY <1>1, <1>2 DEF SameWriter, SameReader, Untouched

\* A handshake begins: its first message says nothing to the pair.
LEMMA AddMoves ==
    ASSUME NEW c, NEW p, NEW d, NEW e, NEW M, NEW s, Pair(c, p, d, e, M, s),
           NEW f \in Databases, ~IsAdded(d, p), ~IsAdded(f, p),
           \A q \in Clients \ {p} : f.contacts[q] = d.contacts[q],
           f.convos = d.convos, f.messages = d.messages,
           NEW ct \in Contents, ct.kind = "first"
    PROVE  Moves(c, p, d, e, f, M, ct, s, s)
<1> USE DEF Pair
<1> DEFINE N == M \cup {ct}
<1>1. N \in SUBSET Contents /\ SameMail(M, N)
  BY DEF SameMail
<1>2. /\ SameWriter(c, p, d, f, e) /\ SameReader(p, c, e, d, f)
      /\ \A q \in Clients \ {p} : Untouched(d, f, q)
  BY RowQuiet
<1>3. SameReader(c, p, f, e, e) /\ SameTyped(s, s, p) /\ \A q : SameTyped(s, s, q)
  BY SameAll
<1>4. Matched(c, p, f, e, N) /\ TextsMatch(c, p, f, e, N, s)
  <2> HIDE DEF N
  <2> QED
    BY <1>1, <1>2, <1>3, NothingNoticed
<1>5. \A cu \in M : Before(cu, ct)
  BY DEF Before
<1> QED
  BY <1>2, <1>3, <1>4, <1>5 DEF Moves

\* A contact is accepted.
LEMMA AcceptMoves ==
    ASSUME NEW c, NEW p, NEW d, NEW e, NEW M, NEW s, Pair(c, p, d, e, M, s),
           NEW f \in Databases, NEW ct \in SecondHandshakes, Accepts(p, d, f, ct)
    PROVE  Moves(c, p, d, e, f, M, ct, s, s)
<1> USE DEF Pair
<1>0. ct.kind = "second" /\ ct.init \in Draws /\ ct.resp \in Draws
  BY DEF SecondHandshakes
<1>1. ASSUME NEW N, N = M \cup {ct}
      PROVE  /\ Matched(c, p, f, e, N) /\ TextsMatch(c, p, f, e, N, s)
             /\ \A cu \in M : Before(cu, ct)
  <2>1. Matched(c, p, f, e, N) /\ TextsMatch(c, p, f, e, N, s)
    BY <1>1, AcceptWriter
  <2>2. ASSUME NEW cu \in M PROVE Before(cu, ct)
    BY <1>1, <2>1, <2>2, AcceptWriter
  <2> QED
    BY <2>1, <2>2
<1>2. SameReader(p, c, e, d, f)
  BY <1>0, AcceptReader
<1>3. \A q \in Clients \ {c, p} : Untouched(d, f, q)
  BY <1>0, AcceptOthers
<1>4. \A q \in Clients \ {c, p} : SameTyped(s, s, q)
  BY SameAll
<1> QED
  BY <1>1, <1>2, <1>3, <1>4 DEF Moves

\* A text is written, in a new conversation or in one that is there.
LEMMA WriteMoves ==
    ASSUME NEW c, NEW p, NEW d, NEW e, NEW M, NEW s, Pair(c, p, d, e, M, s), Homed(d),
           NEW f \in Databases, NEW ct \in Ciphertexts, ct.to = p, ct.text.by = c,
           \/ StartsThread(p, d, f, ct) /\ ct.convo.who = c
           \/ WritesText(p, d, f, ct),
           NEW new, IsAppended(s, ct, new)
    PROVE  Moves(c, p, d, e, f, M, ct, s, new)
<1> USE DEF Pair
<1>1. PICK K : Matched(p, c, e, d, K)
  OBVIOUS
<1>2. ASSUME NEW N, N = M \cup {ct}
      PROVE  /\ Matched(c, p, f, e, N) /\ TextsMatch(c, p, f, e, N, new)
             /\ \A cu \in M : Before(cu, ct)
             /\ SameReader(p, c, e, d, f)
             /\ \A q \in Clients \ {c, p} : Untouched(d, f, q)
  <2>1. CASE StartsThread(p, d, f, ct) /\ ct.convo.who = c
    <3>1. Matched(c, p, f, e, N) /\ TextsMatch(c, p, f, e, N, new)
      BY <1>1, <1>2, <2>1, ThreadWriter
    <3>2. \A cu \in M : Before(cu, ct)
      BY <1>1, <1>2, <2>1, ThreadWriter
    <3>3. SameReader(p, c, e, d, f)
      BY <2>1, ThreadReader
    <3>4. \A q \in Clients \ {c, p} : Untouched(d, f, q)
      BY <2>1, ThreadOthers
    <3> QED
      BY <3>1, <3>2, <3>3, <3>4
  <2>2. CASE WritesText(p, d, f, ct)
    <3>1. Matched(c, p, f, e, N) /\ TextsMatch(c, p, f, e, N, new)
      BY <1>1, <1>2, <2>2, TextWriterSends
    <3>2. \A cu \in M : Before(cu, ct)
      BY <1>1, <1>2, <2>2, TextWriterSends
    <3>3. SameReader(p, c, e, d, f)
      BY <2>2, TextReaderSends
    <3>4. \A q \in Clients \ {c, p} : Untouched(d, f, q)
      BY <2>2, TextOthersSend
    <3> QED
      BY <3>1, <3>2, <3>3, <3>4
  <2> QED
    BY <2>1, <2>2
<1>3. ASSUME NEW q \in Clients \ {c, p} PROVE SameTyped(s, new, q)
  BY TypedAppend DEF SameTyped
<1> QED
  BY <1>2, <1>3 DEF Moves
-----------------------------------------------------------------------------
(* Taking a message *)

\* The first message of a handshake says nothing to the pair.
LEMMA TakesFirst ==
    ASSUME NEW c, NEW p, NEW d, NEW e, NEW M, NEW ct, NEW s, NEW K, NEW t,
           Taking(c, p, d, e, M, ct, s, K, t), ct.kind = "first", NEW f \in Databases,
           \/ f = e
           \/ /\ ~IsAdded(e, c) /\ ~IsAdded(f, c)
              /\ \A q \in Clients \ {c} : f.contacts[q] = e.contacts[q]
              /\ f.convos = e.convos /\ f.messages = e.messages
    PROVE  Taken(c, p, d, e, f, M, ct, s, K, t)
<1> USE DEF Taking
<1>1. /\ SameWriter(p, c, e, f, d) /\ SameReader(c, p, d, e, f)
      /\ \A q \in Clients \ {c} : Untouched(e, f, q)
  <2>1. CASE f = e
    BY <2>1, SameAll DEF Untouched
  <2>2. CASE f # e
    BY <2>2, RowQuiet
  <2> QED
    BY <2>1, <2>2
<1>2. /\ SameWriter(c, p, d, d, e) /\ SameReader(p, c, f, d, d)
      /\ SameTyped(s, s, p) /\ SameTyped(t, t, c) /\ SameMail(K, K)
  BY SameAll
<1>3. ASSUME NEW N \in SUBSET Contents, Oldest(M, ct, N)
      PROVE  Matched(c, p, d, f, N) /\ TextsMatch(c, p, d, f, N, s)
  <2>1. SameMail(M, N)
    BY <1>3 DEF SameMail, Oldest
  <2> QED
    BY <1>1, <1>2, <2>1, NothingNoticed
<1>4. Matched(p, c, f, d, K) /\ TextsMatch(p, c, f, d, K, t)
  BY <1>1, <1>2, NothingNoticed
<1> QED
  BY <1>1, <1>3, <1>4 DEF Taken

\* The answer to a handshake message finishes the contact.
LEMMA TakesSecond ==
    ASSUME NEW c, NEW p, NEW d, NEW e, NEW M, NEW ct, NEW s, NEW K, NEW t,
           Taking(c, p, d, e, M, ct, s, K, t), ct.kind = "second", NEW f \in Databases,
           ct.init \in Draws, ct.resp \in Draws, Accepted(d.contacts[p], ct.init, ct.resp),
           Finishes(c, e, f, ct)
    PROVE  Taken(c, p, d, e, f, M, ct, s, K, t)
<1> USE DEF Taking
<1>1. ASSUME NEW N \in SUBSET Contents, Oldest(M, ct, N)
      PROVE  Matched(c, p, d, f, N) /\ TextsMatch(c, p, d, f, N, s)
  BY <1>1, FinishReader
<1>2. Matched(p, c, f, d, K) /\ TextsMatch(p, c, f, d, K, t)
  BY FinishWriter
<1>3. \A q \in Clients \ {c, p} : Untouched(e, f, q)
  BY FinishOthers
<1> QED
  BY <1>1, <1>2, <1>3 DEF Taken

\* A text is read, in a conversation that is there or as the title of a new one.
LEMMA TakesText ==
    ASSUME NEW c, NEW p, NEW d, NEW e, NEW M, NEW ct \in Ciphertexts, NEW s, NEW K, NEW t,
           Taking(c, p, d, e, M, ct, s, K, t), NEW f \in Databases,
           HasConvo(d, ct.convo, p),
           \/ ReadsText(c, e, f, ct)
           \/ /\ ReadsTitle(c, e, f, ct) /\ ct.convo.who = c
              /\ d.convos[ct.convo].c1.thread = e.contacts[c].c2
              /\ d.convos[ct.convo].c2.turn = 0
    PROVE  Taken(c, p, d, e, f, M, ct, s, K, t)
<1> USE DEF Taking
<1>1. CASE ReadsText(c, e, f, ct)
  <2>1. ASSUME NEW N \in SUBSET Contents, Oldest(M, ct, N)
        PROVE  Matched(c, p, d, f, N) /\ TextsMatch(c, p, d, f, N, s)
    BY <1>1, <2>1, TextReader
  <2>2. Matched(p, c, f, d, K) /\ TextsMatch(p, c, f, d, K, t)
    <3>1. SameWriter(p, c, e, f, d)
      BY <1>1, TextWriter
    <3>2. SameReader(p, c, f, d, d) /\ SameTyped(t, t, c) /\ SameMail(K, K)
      BY SameAll
    <3> QED
      BY <3>1, <3>2, NothingNoticed
  <2>3. \A q \in Clients \ {c, p} : Untouched(e, f, q)
    BY <1>1, TextOthers
  <2> QED
    BY <2>1, <2>2, <2>3 DEF Taken
<1>2. CASE ReadsTitle(c, e, f, ct) /\ ~ReadsText(c, e, f, ct)
  <2>1. ASSUME NEW N \in SUBSET Contents, Oldest(M, ct, N)
        PROVE  Matched(c, p, d, f, N) /\ TextsMatch(c, p, d, f, N, s)
    BY <1>2, <2>1, TitleReader
  <2>2. Matched(p, c, f, d, K) /\ TextsMatch(p, c, f, d, K, t)
    BY <1>2, TitleWriter
  <2>3. \A q \in Clients \ {c, p} : Untouched(e, f, q)
    BY <1>2, TitleOthers
  <2> QED
    BY <2>1, <2>2, <2>3 DEF Taken
<1> QED
  BY <1>1, <1>2

\* A text of a conversation that is there.
LEMMA ReadsKnown ==
    ASSUME Faultless, NEW c \in Clients, NEW p \in Clients, c # p, NEW e \in Databases,
           NEW m \in Msgs, m.from = c, NEW ct, ct = m.content, NEW x, x = m.convo,
           ct.kind = "aead", Addressed(c, p, x, ct), IsAdded(e, c),
           HasConvo(e, x, c), e.convos[x].c2 = ct.key,
           NEW f, f = After4(e, Dispatch(e, p, m))
    PROVE  f \in Databases /\ ReadsText(c, e, f, ct)
<1>1. x \in Draws /\ ct \in Ciphertexts /\ ct.key \in SessionKeys /\ ct.text \in Texts
  BY ContentsKinds DEF Msgs, H!Messages, Ciphertexts
<1>2. ct.from = c /\ ct.to = p /\ ct.convo = x
  BY DEF Addressed
<1>3. AfterAEAD(ct.key) \in SessionKeys
  BY <1>1, KeysType
<1> DEFINE u1 == updateSessionKeys(x, c, Null, AfterAEAD(ct.key))
           u2 == storeMessage(x, FALSE, ct.text)
<1>4. decryptMessage(e.convos[x].c2, p, m)
  BY <1>2 DEF decryptMessage
<1>5. sessionKeysFound(e, x, c) /\ ConvoExist(e, x)
  BY DEF sessionKeysFound, ConvoExist, HasConvo, Faultless, Places
<1>6. getStateContact(e, c) = "contactAdded"
  BY DEF getStateContact, IsAdded, Faultless, Places
<1>7. handleNewMessage(e, p, m) = <<u1, u2>>
  BY <1>4, <1>5 DEF handleNewMessage
<1>8. Dispatch(e, p, m) = <<u1, u2>>
  BY <1>6, <1>7 DEF Dispatch
<1>9. PICK st \in Statements : st = u2
  BY <1>1, StatementsType
<1>10. IsText(st, x) /\ st.text = ct.text
  BY <1>9 DEF IsText, storeMessage
<1>11. f = After4(e, <<updateSessionKeys(x, c, Null, AfterAEAD(ct.key)), st>>)
  BY <1>8, <1>9
<1> HIDE DEF u1, u2
<1>12. /\ f \in Databases /\ f.contacts = e.contacts
       /\ f.convos = [e.convos EXCEPT ![x] = [e.convos[x] EXCEPT !.c2 = AfterAEAD(ct.key)]]
       /\ \A q, y : y \in Draws =>
             ShownIn(f, q, y) = IF q = c /\ y = x THEN Append(ShownIn(e, q, y), st.text)
                                ELSE ShownIn(e, q, y)
  BY <1>1, <1>3, <1>10, <1>11, AfterText
<1>13. ShowsNext(c, e, f, ct)
  BY <1>2, <1>10, <1>12 DEF ShowsNext
<1> QED
  BY <1>2, <1>12, <1>13 DEF ReadsText

\* The title of a new one.
LEMMA ReadsNew ==
    ASSUME Faultless, NEW c \in Clients, NEW p \in Clients, c # p,
           NEW e \in Databases, Homed(e),
           NEW m \in Msgs, m.from = c, NEW ct, ct = m.content, NEW x, x = m.convo,
           ct.kind = "aead", Addressed(c, p, x, ct), IsAdded(e, c),
           e.convos[x] = Null, ct.key = InitiatorThread(e.contacts[c].c2),
           NEW f, f = After4(e, Dispatch(e, p, m))
    PROVE  f \in Databases /\ ReadsTitle(c, e, f, ct)
<1>1. x \in Draws /\ ct \in Ciphertexts /\ ct.text \in Texts
  BY ContentsKinds DEF Msgs, H!Messages, Ciphertexts
<1>2. ct.from = c /\ ct.to = p /\ ct.convo = x /\ ct.text.by = c
  BY DEF Addressed
<1>3. PICK t2 \in ThreadStates : t2 = e.contacts[c].c2
  BY AddedStates
<1>4. PICK s1 \in SessionKeys : s1 = InitiatorThread(t2)
  BY <1>3, KeysType
<1>5. PICK s2 \in SessionKeys : s2 = ResponderThread(t2)
  BY <1>3, KeysType
<1>6. PICK r \in ThreadStates : r = Ratchet(t2)
  BY <1>3, KeysType
<1>7. PICK s \in SessionKeys : s = AfterAEAD(s1)
  BY <1>4, KeysType
<1>8. decryptMessage(s1, p, m)
  BY <1>2, <1>3, <1>4 DEF decryptMessage
<1>81. PICK t \in Texts : t = ct.text
  BY <1>1
<1> DEFINE create == createConvo(x, c, Null, s2, s1)
           ratchet == updateThreadRatchetStates(c, Null, r)
           keys == updateSessionKeys(x, c, Null, s)
           title == updateTitle(x, c, t)
<1>9. newThread(e, p, m) = <<create, ratchet, keys, title>>
  <2>1. newThread(e, p, m) = <<create, ratchet>> \o <<keys, title>>
    BY <1>3, <1>4, <1>5, <1>6, <1>7, <1>8, <1>81 DEF newThread, Faultless, Places
  <2> HIDE DEF create, ratchet, keys, title
  <2> QED
    BY <2>1, ConcatSequences
<1>10. Dispatch(e, p, m) = newThread(e, p, m)
  <2>1. getStateContact(e, c) = "contactAdded"
    BY DEF getStateContact, IsAdded, Faultless, Places
  <2>2. threadRatchetStatesReady(e, c) /\ ~ConvoExist(e, x)
    BY DEF threadRatchetStatesReady, ConvoExist, IsAdded, Faultless, Places
  <2>3. handleNewMessage(e, p, m) = newThread(e, p, m)
    BY <2>2 DEF handleNewMessage
  <2> QED
    BY <2>1, <2>3 DEF Dispatch
<1>11. /\ f \in Databases
       /\ f.contacts = [e.contacts EXCEPT ![c] = [e.contacts[c] EXCEPT !.c2 = r]]
       /\ f.convos = [e.convos EXCEPT ![x] =
                         [peer |-> c, title |-> t, c1 |-> s2, c2 |-> s]]
       /\ \A q, y : y \in Draws =>
             ShownIn(f, q, y) = IF q = c /\ y = x THEN <<t>> ELSE ShownIn(e, q, y)
  <2>1. e.contacts[c] # Null
    BY DEF IsAdded
  <2>2. f = After4(e, <<create, ratchet, keys, title>>)
    BY <1>9, <1>10
  <2>3. t.by = c
    BY <1>2, <1>81
  <2>4. Opens(e, f, c, x, t, r, s2, s)
    BY <1>1, <2>1, <2>2, <2>3, AfterNew, ZenonT(60)
  <2> QED
    BY <2>4 DEF Opens
<1> HIDE DEF create, ratchet, keys, title
<1>12. ShowsNext(c, e, f, ct)
  <2>1. \A q : ShownIn(e, q, x) = <<>>
    BY DEF ShownIn
  <2>2. Append(<<>>, t) = <<t>>
    OBVIOUS
  <2>3. ASSUME NEW q \in Clients, NEW y \in Draws
        PROVE  ShownIn(f, q, y) = IF q = c /\ y = x THEN Append(ShownIn(e, q, y), t)
                                  ELSE ShownIn(e, q, y)
    <3>1. CASE q = c /\ y = x
      <4>1. ShownIn(e, q, y) = <<>> /\ ShownIn(f, q, y) = <<t>>
        BY <1>11, <2>1, <3>1
      <4> QED
        BY <2>2, <3>1, <4>1
    <3>2. CASE ~(q = c /\ y = x)
      BY <1>11, <3>2
    <3> QED
      BY <3>1, <3>2
  <2> QED
    BY <1>2, <1>81, <2>3 DEF ShowsNext
<1> QED
  BY <1>2, <1>3, <1>4, <1>5, <1>6, <1>7, <1>81, <1>11, <1>12 DEF ReadsTitle

\* What taking a message of c does to the database e of p.
LEMMA Takes ==
    ASSUME Faultless, NEW m \in Msgs, NEW c, c = m.from, NEW ct, ct = m.content,
           NEW p, NEW d, NEW e, NEW M, NEW s, NEW K, NEW t,
           Taking(c, p, d, e, M, ct, s, K, t),
           Addressed(c, p, m.convo, ct), Homed(e),
           NEW D, Agrees(p, e, D), D[c] = d, Sendable(c, p, d, m.convo, ct),
           \A y \in Draws : Carries(ct, y) => ~Heard(e.contacts[c], y),
           NEW f, f = After4(e, Dispatch(e, p, m))
    PROVE  Taken(c, p, d, e, f, M, ct, s, K, t)
<1>0. /\ c \in Clients /\ p \in Clients /\ c # p
      /\ d \in Databases /\ e \in Databases /\ ct \in Contents /\ m.convo \in Draws
      /\ Stays
  BY DEF Taking, Msgs, H!Messages, Faultless, Stays
<1>1. PICK N : Oldest(M, ct, N)
  BY DEF Taking
<1>2. CASE ct.kind = "aead"
  <2>1. PICK x : x = m.convo
    OBVIOUS
  <2>2. ct.convo = x /\ ct \in Ciphertexts /\ Addressed(c, p, x, ct)
    BY <1>0, <1>2, <2>1, ContentsKinds DEF Addressed, Ciphertexts
  <2>3. /\ IsAdded(e, c) /\ HasConvo(d, x, p)
        /\ \/ HasConvo(e, x, c) /\ e.convos[x].c2 = ct.key
           \/ /\ e.convos[x] = Null /\ x.who = c
              /\ ct.key = InitiatorThread(e.contacts[c].c2)
              /\ d.convos[x].c1.thread = e.contacts[c].c2
              /\ d.convos[x].c2.turn = 0
    BY <1>0, <1>1, <1>2, <2>2, OldestDecrypts DEF Taking
  <2>4. CASE HasConvo(e, x, c) /\ e.convos[x].c2 = ct.key
    <3>1. f \in Databases /\ ReadsText(c, e, f, ct)
      BY <1>0, <1>2, <2>1, <2>2, <2>3, <2>4, ReadsKnown
    <3> QED
      BY <2>2, <2>3, <3>1, TakesText
  <2>5. CASE ~(HasConvo(e, x, c) /\ e.convos[x].c2 = ct.key)
    <3>1. f \in Databases /\ ReadsTitle(c, e, f, ct)
      BY <1>0, <1>2, <2>1, <2>2, <2>3, <2>5, ReadsNew
    <3> QED
      BY <2>2, <2>3, <2>5, <3>1, TakesText
  <2> QED
    BY <2>4, <2>5
<1>3. IsAdded(e, c) => ct.kind = "aead"
  <2>1. IsAdded(e, c) => threadRatchetStatesReady(e, c)
    BY DEF IsAdded, threadRatchetStatesReady, Faultless, Places
  <2>2. ASSUME NEW y, y = m.convo, IsAdded(e, c)
        PROVE  ct.kind = "aead"
    <3>1. Sendable(c, p, D[c], y, ct)
      BY <2>2
    <3> QED
      BY <1>0, <2>1, <2>2, <3>1, NotAgain
  <2> QED
    BY <2>2
<1>4. CASE ct.kind = "first"
  <2>1. ~IsAdded(e, c)
    BY <1>3, <1>4
  <2>2. CASE e.contacts[c] = Null
    <3>1. getStateContact(e, c) = "noContact"
      BY <2>2 DEF getStateContact
    <3>2. f = Executed(e, addContactFromReq(c, ct))
      <4>1. Dispatch(e, p, m) = <<addContactFromReq(c, ct)>>
        BY <3>1 DEF Dispatch
      <4> QED
        BY <4>1, AfterOne
    <3>3. ContactSet(e, f, c, NewContact(1, ct))
      BY <1>0, <3>2, SetsContact
    <3>4. /\ f \in Databases /\ ~IsAdded(f, c)
          /\ \A q \in Clients \ {c} : f.contacts[q] = e.contacts[q]
          /\ f.convos = e.convos /\ f.messages = e.messages
      BY <1>0, <3>3 DEF ContactSet, IsAdded, NewContact, Databases
    <3> QED
      BY <1>4, <2>1, <3>4, TakesFirst
  <2>3. CASE e.contacts[c] # Null
    <3>1. Dispatch(e, p, m) = <<>>
      <4>1. CASE getStateContact(e, c) = "waitingForAccept"
        BY <1>4, <4>1 DEF Dispatch, aliceAckAcceptContact, finishAddContact
      <4>2. CASE getStateContact(e, c) # "waitingForAccept"
        <5>1. getStateContact(e, c) \notin {"noContact", "contactAdded"}
          <6>1. e.contacts[c] \in ContactRows
            BY <1>0, <2>3 DEF Databases
          <6>2. e.contacts[c].tag \in {0, 1}
            BY <2>1, <2>3, <6>1 DEF ContactRows, IsAdded
          <6> QED
            BY <2>3, <6>2 DEF getStateContact
        <5> QED
          BY <4>2, <5>1 DEF Dispatch
      <4> QED
        BY <4>1, <4>2
    <3>2. f = e
      BY <3>1, AfterNone
    <3> QED
      BY <1>0, <1>4, <3>2, TakesFirst
  <2> QED
    BY <2>2, <2>3
<1>5. CASE ct.kind = "second"
  <2>1. ct.init \in Draws /\ ct.resp \in Draws
    BY <1>0, <1>5, ContentsKinds
  <2>2. Accepted(d.contacts[p], ct.init, ct.resp)
    BY <1>0, <1>5 DEF Sendable
  <2>3. Begun(e.contacts[c], ct.init)
    BY <2>2 DEF Taking, Peers, Accepted, IsAdded
  <2>4. ~IsAdded(e, c)
    BY <1>3, <1>5
  <2>5. e.contacts[c] # Null /\ e.contacts[c].tag = 0 /\ e.contacts[c].blob = ct.init
    BY <2>3, <2>4 DEF Begun, IsAdded
  <2>6. PICK g \in Draws : g = ct.init
    BY <2>1
  <2>7. PICK h \in Draws : h = ct.resp
    BY <2>1
  <2>8. PICK t1 \in ThreadStates : t1 = ThreadState(g, h, "initiator")
    BY KeysType
  <2>9. PICK t2 \in ThreadStates : t2 = ThreadState(g, h, "responder")
    BY KeysType
  <2>10. getStateContact(e, c) = "waitingForAccept"
    BY <2>5 DEF getStateContact, Faultless, Places
  <2>11. aliceAckAcceptContact(e, m) = <<finalizeContact(c, t1, t2)>>
    BY <1>5, <2>5, <2>6, <2>7, <2>8, <2>9 DEF aliceAckAcceptContact, finishAddContact
  <2>12. f = Executed(e, finalizeContact(c, t1, t2))
    <3>1. Dispatch(e, p, m) = <<finalizeContact(c, t1, t2)>>
      BY <2>10, <2>11 DEF Dispatch
    <3> QED
      BY <3>1, AfterOne
  <2>13. ContactSet(e, f, c, [tag |-> 2, blob |-> Null, c1 |-> t1, c2 |-> t2])
    BY <1>0, <2>5, <2>12, SetsContact
  <2>14. f \in Databases /\ Finishes(c, e, f, ct)
    BY <2>5, <2>6, <2>7, <2>8, <2>9, <2>13 DEF ContactSet, Finishes
  <2> QED
    BY <1>5, <2>1, <2>2, <2>14, TakesSecond
<1>6. ct.kind \in {"first", "second", "aead"}
  BY <1>0 DEF Contents, FirstHandshakes, SecondHandshakes, Ciphertexts
<1> QED
  BY <1>2, <1>4, <1>5, <1>6

\* A client may take the message m.
Handing(S, L, O, T, p, m) ==
    /\ ViewType(S, L, O, T) /\ AllInStep(S, L, O, T)
    /\ p \in Clients /\ L[p] # <<>> /\ m = Head(L[p])
    /\ \A q \in Clients : Agrees(q, S[q], S)
    /\ Homed(S[p]) /\ SentTo(p, m, S)
    /\ \A y \in Draws : Carries(m.content, y) => ~Heard(S[p].contacts[m.from], y)

\* The client takes it, and settles what getNextMessage makes of it.
LEMMA ViewReads ==
    ASSUME Faultless, NEW S, NEW L, NEW O, NEW T, NEW p, NEW m, Handing(S, L, O, T, p, m),
           NEW f, f = After4(S[p], Dispatch(S[p], p, m)), NEW new, new = Tail(L[p]),
           NEW S1, S1 = [S EXCEPT ![p] = f], NEW L1, L1 = [L EXCEPT ![p] = new]
    PROVE  AllInStep(S1, L1, O, T)
<1> USE DEF Handing
<1>1. PICK c : c = m.from
  OBVIOUS
<1>2. c \in Clients /\ p \in Clients /\ c # p /\ Sendable(c, p, S[c], m.convo, m.content)
  BY <1>1 DEF SentTo, Sendable
<1>3. /\ S[c] \in Databases /\ S[p] \in Databases /\ L[p] \in Seq(Msgs) /\ L[c] \in Seq(Msgs)
      /\ O[c] \in Posts \cup {Null} /\ O[p] \in Posts \cup {Null}
      /\ T[c] \in Seq(Ciphertexts) /\ T[p] \in Seq(Ciphertexts)
  BY <1>2 DEF ViewType
<1>4. /\ PairInStep(c, p, S[c], S[p], L[p], O[c], T[c])
      /\ PairInStep(p, c, S[p], S[c], L[c], O[p], T[p])
      /\ LineOrdered(p, L[p])
  BY <1>2 DEF AllInStep
<1>5. PICK line : line = L[p]
  OBVIOUS
<1>6. PICK out : out = O[c]
  OBVIOUS
<1>7. /\ Oldest(Mail(c, p, line, out), m.content, Mail(c, p, new, out))
      /\ m \in Msgs /\ Addressed(c, p, m.convo, m.content)
  <2>1. line \in Seq(Msgs) /\ line # <<>> /\ LineOrdered(p, line) /\ OutOrdered(c, p, out, line)
    BY <1>3, <1>4, <1>5, <1>6 DEF PairInStep
  <2>2. m = Head(line) /\ new = Tail(line)
    BY <1>5
  <2> QED
    BY <1>1, <1>2, <2>1, <2>2, HeadOldest
<1>8. Peers(c, p, S[c], S[p]) /\ Peers(p, c, S[p], S[c])
  <2>1. Stays
    BY DEF Faultless, Stays
  <2>2. Peers(c, p, S[c], S[p])
    <3>1. \A d : d = S[c] => Peers(c, p, d, S[p])
      BY <1>2, <2>1, PeersOf
    <3> QED
      BY <3>1
  <2>3. Peers(p, c, S[p], S[c])
    <3>1. \A d : d = S[p] => Peers(p, c, d, S[c])
      BY <1>2, <2>1, PeersOf
    <3> QED
      BY <3>1
  <2> QED
    BY <2>2, <2>3
<1>9. ASSUME NEW d, d = S[c], NEW e, e = S[p], NEW M, M = Mail(c, p, L[p], O[c]),
             NEW K, K = Mail(p, c, L[c], O[p]), NEW s, s = T[c], NEW t, t = T[p],
             NEW ct, ct = m.content
      PROVE  Taken(c, p, d, e, f, M, ct, s, K, t)
  <2>1. M \in SUBSET Contents /\ K \in SUBSET Contents
    BY <1>3, <1>9, MailType
  <2>2. \E N : Oldest(M, ct, N)
    BY <1>5, <1>6, <1>7, <1>9
  <2>3. /\ Matched(c, p, d, e, M) /\ TextsMatch(c, p, d, e, M, s)
        /\ Matched(p, c, e, d, K) /\ TextsMatch(p, c, e, d, K, t)
    BY <1>4, <1>9 DEF PairInStep
  <2>4. Taking(c, p, d, e, M, ct, s, K, t)
    BY <1>2, <1>3, <1>8, <1>9, <2>1, <2>2, <2>3 DEF Taking
  <2>5. /\ Addressed(c, p, m.convo, ct) /\ Homed(e) /\ Agrees(p, e, S) /\ S[c] = d
        /\ Sendable(c, p, d, m.convo, ct) /\ f = After4(e, Dispatch(e, p, m))
        /\ \A y \in Draws : Carries(ct, y) => ~Heard(e.contacts[c], y)
    BY <1>1, <1>2, <1>7, <1>9
  <2> QED
    BY <1>1, <1>7, <1>9, <2>4, <2>5, Takes
<1>10. Taken(c, p, S[c], S[p], f, Mail(c, p, L[p], O[c]), m.content, T[c],
             Mail(p, c, L[c], O[p]), T[p])
  BY <1>9
<1> QED
  BY <1>1, <1>2, <1>10, ViewTakes
=============================================================================
