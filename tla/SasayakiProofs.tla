--------------------------- MODULE SasayakiProofs ---------------------------
(***************************************************************************)
(* Proofs about Sasayaki for any number of clients, goroutines,            *)
(* connections and draws, with crashes between any two statements, deleted *)
(* contacts, lost connections and restarts of the hub: everything has its  *)
(* type (TypeCorrect), secrets only advance (SecretsAdvance), and no       *)
(* strobe state encrypts two messages (InitiatorKeysOnce, KeysOnce).       *)
(***************************************************************************)
EXTENDS Sasayaki, SequenceTheorems, TLAPS

\* What two operators of the encryption service return.
LEMMA KeysType ==
    /\ \A ts \in ThreadStates :
          /\ InitiatorThread(ts) \in SessionKeys
          /\ ResponderThread(ts) \in SessionKeys
          /\ Ratchet(ts) \in ThreadStates
    /\ \A s \in SessionKeys : AfterAEAD(s) \in SessionKeys
    /\ \A e, f \in Draws, whose \in {"initiator", "responder"} :
          ThreadState(e, f, whose) \in ThreadStates
BY DEF ThreadStates, SessionKeys, InitiatorThread, ResponderThread, Ratchet,
       AfterAEAD, ThreadState

\* The three kinds of contents.
LEMMA ContentsKinds ==
    /\ \A e \in Draws : FirstHandshakeMessage(e) \in Contents
    /\ \A blob \in Contents, f \in Draws :
          acceptContact(blob) => SecondHandshakeMessage(blob, f) \in Contents
    /\ \A s \in SessionKeys, x \in Draws, c, p \in Clients, t \in Texts :
          /\ encryptMessage(s, x, c, p, t) \in Ciphertexts
          /\ encryptMessage(s, x, c, p, t) \in Contents
    /\ \A ct \in Contents :
          /\ ct.kind = "first" => ct.init \in Draws
          /\ ct.kind = "second" => ct.init \in Draws /\ ct.resp \in Draws
          /\ ct.kind = "aead" => ct \in Ciphertexts /\ ct.text \in Texts
BY DEF Contents, FirstHandshakes, SecondHandshakes, Ciphertexts,
       FirstHandshakeMessage, SecondHandshakeMessage, acceptContact,
       encryptMessage

\* The fields of a contact's row, by its tag.
LEMMA RowFields ==
    \A row \in ContactRows :
        /\ row.tag \in 0 .. 2
        /\ row.tag = 0 => row.blob \in Draws
        /\ row.tag = 1 => row.blob \in Contents
        /\ row.tag = 2 => row.c1 \in ThreadStates /\ row.c2 \in ThreadStates
BY DEF ContactRows

\* A contact that is ready for conversations has both thread states.
LEMMA ReadyHasStates ==
    ASSUME NEW d \in Databases, NEW p \in Clients, threadRatchetStatesReady(d, p)
    PROVE  /\ d.contacts[p].c1 \in ThreadStates
           /\ d.contacts[p].c2 \in ThreadStates
<1>1. d.contacts[p] \in ContactRows
  BY DEF Databases, threadRatchetStatesReady
<1>2. d.contacts[p].tag = 2
  BY <1>1, RowFields, NullAssumption DEF threadRatchetStatesReady
<1> QED
  BY <1>1, <1>2, RowFields

\* A contact that waits has the blob that its form of contacts.state calls for.
LEMMA WaitingBlobs ==
    ASSUME NEW d \in Databases, NEW p \in Clients
    PROVE  /\ getStateContact(d, p) = "waitingForAccept" =>
                  d.contacts[p].blob \in Draws
           /\ getStateContact(d, p) = "waitingToAccept" =>
                  d.contacts[p].blob \in Contents
<1>1. d.contacts[p] \in ContactRows \cup {Null}
  BY DEF Databases
<1> QED
  BY <1>1, RowFields DEF getStateContact

\* A conversation that is found has both session keys.
LEMMA FoundHasKeys ==
    ASSUME NEW d \in Databases, NEW x \in Draws, d.convos[x] # Null
    PROVE  /\ d.convos[x].c1 \in SessionKeys
           /\ d.convos[x].c2 \in SessionKeys
BY DEF Databases, ConvoRows

\* Every statement constructor, on arguments of the right types.
LEMMA StatementsType ==
    ASSUME NEW p \in Clients
    PROVE  /\ \A e \in Draws : addContact(p, e) \in Statements
           /\ \A ct \in Contents : addContactFromReq(p, ct) \in Statements
           /\ \A t1, t2 \in ThreadStates :
                 /\ finalizeContact(p, t1, t2) \in Statements
                 /\ updateThreadRatchetStates(p, t1, Null) \in Statements
                 /\ updateThreadRatchetStates(p, Null, t2) \in Statements
           /\ deleteContact(p) \in Statements
           /\ \A x \in Draws, s1, s2 \in SessionKeys :
                 /\ \A t \in Texts \cup {Null} :
                       createConvo(x, p, t, s1, s2) \in Statements
                 /\ updateSessionKeys(x, p, s1, Null) \in Statements
                 /\ updateSessionKeys(x, p, Null, s2) \in Statements
           /\ \A x \in Draws, t \in Texts :
                 /\ updateTitle(x, p, t) \in Statements
                 /\ \A mine \in BOOLEAN : storeMessage(x, mine, t) \in Statements
BY DEF Statements, addContact, addContactFromReq, finalizeContact,
       deleteContact, updateThreadRatchetStates, createConvo,
       updateSessionKeys, updateTitle, storeMessage

\* A statement leaves a database: no row changes to another form.
LEMMA ExecutedType ==
    ASSUME NEW d \in Databases, NEW st \in Statements
    PROVE  Executed(d, st) \in Databases
<1> USE DEF Databases
<1>1. CASE ~Matches(d, st)
  BY <1>1 DEF Executed
<1> SUFFICES ASSUME Matches(d, st) PROVE Executed(d, st) \in Databases
  BY <1>1
<1>2. CASE st \in [do : {"addContact"}, who : Clients, blob : Draws]
  <2>1. NewContact(0, st.blob) \in ContactRows
    BY <1>2 DEF NewContact, ContactRows
  <2> QED
    BY <1>2, <2>1 DEF Executed
<1>3. CASE st \in [do : {"addContactFromReq"}, who : Clients, blob : Contents]
  <2>1. NewContact(1, st.blob) \in ContactRows
    BY <1>3 DEF NewContact, ContactRows
  <2> QED
    BY <1>3, <2>1 DEF Executed
<1>4. CASE st \in [do : {"finalizeContact"}, who : Clients,
                   c1 : ThreadStates, c2 : ThreadStates]
  <2>1. Finalized(d.contacts[st.who], st) \in ContactRows
    BY <1>4 DEF Finalized, ContactRows
  <2> QED
    BY <1>4, <2>1 DEF Executed
<1>5. CASE st \in [do : {"deleteContact"}, who : Clients]
  BY <1>5 DEF Executed, RemoveContact
<1>6. CASE \/ st \in [do : {"updateThreadRatchetStates"}, who : Clients,
                      c1 : ThreadStates \cup {Null}, c2 : ThreadStates]
           \/ st \in [do : {"updateThreadRatchetStates"}, who : Clients,
                      c1 : ThreadStates, c2 : {Null}]
  <2>1. d.contacts[st.who] \in ContactRows
    BY <1>6 DEF Matches
  <2>2. SetOne(d.contacts[st.who], st) \in ContactRows
    BY <1>6, <2>1 DEF SetOne, ContactRows
  <2> QED
    BY <1>6, <2>2 DEF Executed
<1>7. CASE st \in [do : {"createConvo"}, id : Draws, who : Clients,
                   title : Texts \cup {Null}, c1 : SessionKeys, c2 : SessionKeys]
  <2>1. [peer |-> st.who, title |-> st.title, c1 |-> st.c1, c2 |-> st.c2]
           \in ConvoRows
    BY <1>7 DEF ConvoRows
  <2> QED
    BY <1>7, <2>1 DEF Executed
<1>8. CASE \/ st \in [do : {"updateSessionKeys"}, id : Draws, who : Clients,
                      c1 : SessionKeys \cup {Null}, c2 : SessionKeys]
           \/ st \in [do : {"updateSessionKeys"}, id : Draws, who : Clients,
                      c1 : SessionKeys, c2 : {Null}]
  <2>1. d.convos[st.id] \in ConvoRows
    BY <1>8 DEF Matches
  <2>2. SetOne(d.convos[st.id], st) \in ConvoRows
    BY <1>8, <2>1 DEF SetOne, ConvoRows
  <2> QED
    BY <1>8, <2>2 DEF Executed
<1>9. CASE st \in [do : {"updateTitle"}, id : Draws, who : Clients, title : Texts]
  <2>1. d.convos[st.id] \in ConvoRows
    BY <1>9 DEF Matches
  <2>2. [d.convos[st.id] EXCEPT !.title = st.title] \in ConvoRows
    BY <1>9, <2>1 DEF ConvoRows
  <2> QED
    BY <1>9, <2>2 DEF Executed
<1>10. CASE st \in [do : {"storeMessage"}, id : Draws, mine : BOOLEAN, text : Texts]
  <2>1. [convo |-> st.id, mine |-> st.mine, text |-> st.text] \in MessageRows
    BY <1>10 DEF MessageRows
  <2>2. Executed(d, st) = [d EXCEPT !.messages = Append(@,
            [convo |-> st.id, mine |-> st.mine, text |-> st.text])]
    BY <1>10 DEF Executed
  <2>3. Append(d.messages, [convo |-> st.id, mine |-> st.mine, text |-> st.text])
            \in Seq(MessageRows)
    BY <2>1, AppendProperties
  <2> QED
    BY <2>2, <2>3
<1> QED
  BY <1>2, <1>3, <1>4, <1>5, <1>6, <1>7, <1>8, <1>9, <1>10 DEF Statements

\* Whatever message arrives in whatever database, what getNextMessage goes on to
\* do is a sequence of well-formed statements.
LEMMA DispatchType ==
    ASSUME NEW d \in Databases, NEW me \in Clients, NEW m \in Msgs
    PROVE  Dispatch(d, me, m) \in Seq(Statements)
<1>1. m.from \in Clients /\ m.convo \in Draws /\ m.content \in Contents
  BY DEF Msgs, H!Messages
<1>2. addContactFromReq(m.from, m.content) \in Statements
  BY <1>1, StatementsType
<1>3. ASSUME getStateContact(d, m.from) = "waitingForAccept"
      PROVE  aliceAckAcceptContact(d, m) \in Seq(Statements)
  <2> DEFINE e == d.contacts[m.from].blob
  <2>1. e \in Draws
    BY <1>1, <1>3, WaitingBlobs
  <2>2. CASE finishAddContact(e, m.content)
    <3>1. m.content.resp \in Draws
      BY <1>1, <2>2, ContentsKinds DEF finishAddContact
    <3> DEFINE t1 == ThreadState(e, m.content.resp, "initiator")
               t2 == ThreadState(e, m.content.resp, "responder")
    <3>2. t1 \in ThreadStates /\ t2 \in ThreadStates
      BY <2>1, <3>1, KeysType
    <3>3. finalizeContact(m.from, t1, t2) \in Statements
      BY <1>1, <3>2, StatementsType
    <3> QED
      BY <2>2, <3>3 DEF aliceAckAcceptContact
  <2>3. CASE ~finishAddContact(e, m.content)
    BY <2>3 DEF aliceAckAcceptContact
  <2> QED
    BY <2>2, <2>3
<1>4. ASSUME threadRatchetStatesReady(d, m.from)
      PROVE  newThread(d, me, m) \in Seq(Statements)
  <2> DEFINE t2 == d.contacts[m.from].c2
             s1 == InitiatorThread(t2)
             s2 == ResponderThread(t2)
             create == IF "roles" \in Mended
                       THEN createConvo(m.convo, m.from, Null, s2, s1)
                       ELSE createConvo(m.convo, m.from, Null, s1, s2)
             ratchet == updateThreadRatchetStates(m.from, Null, Ratchet(t2))
             keys == updateSessionKeys(m.convo, m.from, Null, AfterAEAD(s1))
             title == updateTitle(m.convo, m.from, m.content.text)
  <2>1. t2 \in ThreadStates
    BY <1>1, <1>4, ReadyHasStates
  <2>2. s1 \in SessionKeys /\ s2 \in SessionKeys /\ AfterAEAD(s1) \in SessionKeys
        /\ Ratchet(t2) \in ThreadStates
    BY <2>1, KeysType
  <2>3. create \in Statements /\ ratchet \in Statements /\ keys \in Statements
    BY <1>1, <2>2, StatementsType
  <2>4. decryptMessage(s1, me, m) => title \in Statements
    BY <1>1, StatementsType, ContentsKinds DEF decryptMessage
  <2>5. <<create, ratchet>> \in Seq(Statements)
    BY <2>3
  <2> DEFINE rest == IF ~decryptMessage(s1, me, m) THEN <<>>
                     ELSE IF "title" \in Mended THEN <<keys, title>>
                     ELSE <<title>>
  <2>6. rest \in Seq(Statements)
    BY <2>3, <2>4
  <2>7. newThread(d, me, m) = <<create, ratchet>> \o rest
    BY DEF newThread
  <2> HIDE DEF rest, create, ratchet
  <2> QED
    BY <2>5, <2>6, <2>7, ConcatProperties
<1>5. handleNewMessage(d, me, m) \in Seq(Statements)
  <2>1. CASE ~ConvoExist(d, m.convo)
    BY <1>4, <2>1 DEF handleNewMessage
  <2>2. CASE /\ ConvoExist(d, m.convo)
             /\ sessionKeysFound(d, m.convo, m.from)
             /\ decryptMessage(d.convos[m.convo].c2, me, m)
    <3> DEFINE keys == updateSessionKeys(m.convo, m.from, Null,
                                         AfterAEAD(d.convos[m.convo].c2))
               message == storeMessage(m.convo, FALSE, m.content.text)
    <3>1. d.convos[m.convo].c2 \in SessionKeys
      BY <1>1, <2>2, FoundHasKeys DEF ConvoExist
    <3>2. AfterAEAD(d.convos[m.convo].c2) \in SessionKeys
      BY <3>1, KeysType
    <3>3. keys \in Statements
      BY <1>1, <3>1, <3>2, StatementsType
    <3>4. m.content.text \in Texts
      BY <1>1, <2>2, ContentsKinds DEF decryptMessage
    <3>5. message \in Statements
      BY <1>1, <3>4, StatementsType
    <3>6. handleNewMessage(d, me, m) = <<keys, message>>
      BY <2>2 DEF handleNewMessage
    <3> HIDE DEF keys, message
    <3>7. <<keys, message>> \in Seq(Statements)
      BY <3>3, <3>5
    <3> QED
      BY <3>6, <3>7
  <2>3. CASE /\ ConvoExist(d, m.convo)
             /\ ~(/\ sessionKeysFound(d, m.convo, m.from)
                  /\ decryptMessage(d.convos[m.convo].c2, me, m))
    <3>1. handleNewMessage(d, me, m) = <<>>
      BY <2>3 DEF handleNewMessage
    <3> QED
      BY <3>1
  <2> QED
    BY <2>1, <2>2, <2>3
<1> QED
  BY <1>2, <1>3, <1>5 DEF Dispatch

-----------------------------------------------------------------------------
(* Types are not inductive alone: handleClient writes the owner of the       *)
(* connection into the message it queues, so a request must have an owner.    *)

RequestsOwned ==
    \A k \in Conns : conn[k].req # Null => conn[k].owner \in Clients

IInv == TypeOK /\ RequestsOwned

\* A client that may draw draws a value, and types a text, of the right type.
LEMMA DrawType ==
    ASSUME TypeOK, NEW c \in Clients, Draw(c)
    PROVE  /\ Fresh(c) \in Draws
           /\ \A size \in Sizes : Typed(c, size) \in Texts
           /\ draws' \in [Clients -> 0 .. MaxDraws]
<1>1. draws[c] \in 0 .. MaxDraws /\ Limit[c] \in 0 .. MaxDraws
  BY LimitAssumption DEF TypeOK
<1>2. draws[c] + 1 \in 1 .. MaxDraws
  BY <1>1, MaxDrawsAssumption DEF Draw
<1>3. draws' = [draws EXCEPT ![c] = draws[c] + 1]
  BY DEF Draw
<1> QED
  BY <1>2, <1>3, MaxDrawsAssumption DEF TypeOK, Fresh, Typed, Draws, Texts

\* A call that starts keeps the invariant if what it is going to do is typed.
LEMMA BeginType ==
    ASSUME IInv, NEW c \in Clients, NEW w \in Workers, NEW call \in Calls,
           Begin(c, w, call), draws' \in [Clients -> 0 .. MaxDraws]
    PROVE  IInv'
BY DEF IInv, TypeOK, RequestsOwned, Begin

\* The requests and the calls that are built from typed parts.
LEMMA CallType ==
    /\ \A writes, after \in Seq(Statements), ask \in Reqs \cup {Null} :
          Call(writes, ask, after) \in Calls
    /\ \A p \in Clients, x \in Draws, ct \in Contents, fits \in BOOLEAN :
          H!SendMessage(p, x, ct, fits) \in Reqs
    /\ H!GetNextMessage \in Reqs
    /\ <<>> \in Seq(Statements)
    /\ Idle \in Calls
BY DEF Call, Calls, Reqs, H!Requests, H!SendMessage, H!GetNextMessage, Idle

\* The request of sendMessage.
LEMMA ToHubType ==
    ASSUME NEW c \in Clients, NEW p \in Clients, NEW x \in Draws,
           NEW s \in SessionKeys, NEW t \in Texts
    PROVE  ToHub(x, encryptMessage(s, x, c, p, t)) \in Reqs \cup {Null}
<1> DEFINE ct == encryptMessage(s, x, c, p, t)
<1>1. ct \in Contents
  BY ContentsKinds
<1>2. ct.to = p
  BY DEF encryptMessage
<1>3. (ct.text.size = "fits") \in BOOLEAN
  OBVIOUS
<1>4. H!SendMessage(ct.to, x, ct, ct.text.size = "fits") \in Reqs
  BY <1>1, <1>2, <1>3, CallType
<1> QED
  BY <1>4 DEF ToHub

\* A user's call.
LEMMA CallsStep ==
    ASSUME IInv, NEW c \in Clients, NEW w \in Workers, NEW p \in Clients,
           \/ aliceAddContact(c, w, p)
           \/ bobAcceptContact(c, w, p)
           \/ doDeleteContact(c, w, p)
           \/ \E size \in Sizes :
                 \/ sendNewThread(c, w, p, size)
                 \/ \E id \in Draws : sendInConvo(c, w, id, p, size)
           \/ getNextMessage(c, w)
    PROVE  IInv'
<1> USE DEF IInv
<1>0. db[c] \in Databases /\ draws \in [Clients -> 0 .. MaxDraws]
  BY DEF TypeOK
<1>1. CASE aliceAddContact(c, w, p)
  <2> DEFINE e == Fresh(c)
             ask == H!SendMessage(p, e, FirstHandshakeMessage(e), "hex" \in Mended)
             call == Call(<<addContact(p, e)>>, ask, <<>>)
  <2>1. e \in Draws /\ draws' \in [Clients -> 0 .. MaxDraws]
    BY <1>1, DrawType DEF aliceAddContact
  <2>2. ask \in Reqs
    <3>1. ("hex" \in Mended) \in BOOLEAN
      OBVIOUS
    <3>2. FirstHandshakeMessage(e) \in Contents
      BY <2>1, ContentsKinds
    <3> QED
      BY <2>1, <3>1, <3>2, CallType
  <2>3. <<addContact(p, e)>> \in Seq(Statements)
    BY <2>1, StatementsType
  <2>4. call \in Calls
    BY <2>2, <2>3, CallType
  <2>5. Begin(c, w, call)
    BY <1>1 DEF aliceAddContact
  <2> QED
    BY <2>1, <2>4, <2>5, BeginType
<1>2. CASE bobAcceptContact(c, w, p)
  <2> DEFINE f == Fresh(c)
             blob == db[c].contacts[p].blob
             t1 == ThreadState(blob.init, f, "responder")
             t2 == ThreadState(blob.init, f, "initiator")
             ask == IF "forward" \in Mended
                    THEN H!SendMessage(p, f, SecondHandshakeMessage(blob, f), TRUE)
                    ELSE Null
             call == Call(<<finalizeContact(p, t1, t2)>>, ask, <<>>)
  <2>1. f \in Draws /\ draws' \in [Clients -> 0 .. MaxDraws]
    BY <1>2, DrawType DEF bobAcceptContact
  <2>2. blob \in Contents /\ acceptContact(blob)
    BY <1>0, <1>2, WaitingBlobs DEF bobAcceptContact
  <2>3. blob.init \in Draws
    BY <2>2, ContentsKinds DEF acceptContact
  <2>4. t1 \in ThreadStates /\ t2 \in ThreadStates
    BY <2>1, <2>3, KeysType
  <2>5. <<finalizeContact(p, t1, t2)>> \in Seq(Statements)
    <3>1. finalizeContact(p, t1, t2) \in Statements
      BY <2>4, StatementsType
    <3> QED
      BY <3>1
  <2>6. ask \in Reqs \cup {Null}
    <3>1. SecondHandshakeMessage(blob, f) \in Contents
      BY <2>1, <2>2, ContentsKinds
    <3> QED
      BY <2>1, <3>1, CallType
  <2>7. call \in Calls
    BY <2>5, <2>6, CallType
  <2>8. Begin(c, w, call)
    BY <1>2 DEF bobAcceptContact
  <2> QED
    BY <2>1, <2>7, <2>8, BeginType
<1>3. CASE doDeleteContact(c, w, p)
  <2> DEFINE call == Call(<<deleteContact(p)>>, Null, <<>>)
  <2>1. <<deleteContact(p)>> \in Seq(Statements)
    BY StatementsType
  <2>2. call \in Calls
    BY <2>1, CallType
  <2> QED
    BY <1>0, <1>3, <2>2, BeginType DEF doDeleteContact
<1>4. ASSUME NEW size \in Sizes, sendNewThread(c, w, p, size) PROVE IInv'
  <2> DEFINE id == Fresh(c)
             t == Typed(c, size)
             t1 == db[c].contacts[p].c1
             s1 == InitiatorThread(t1)
             s2 == ResponderThread(t1)
             writes == <<updateThreadRatchetStates(p, Ratchet(t1), Null),
                         createConvo(id, p, t, s1, s2),
                         updateSessionKeys(id, p, AfterAEAD(s1), Null)>>
             ask == ToHub(id, encryptMessage(s1, id, c, p, t))
  <2>1. id \in Draws /\ t \in Texts /\ draws' \in [Clients -> 0 .. MaxDraws]
    BY <1>4, DrawType DEF sendNewThread
  <2>2. t1 \in ThreadStates
    BY <1>0, <1>4, ReadyHasStates DEF sendNewThread
  <2>3. s1 \in SessionKeys /\ s2 \in SessionKeys /\ AfterAEAD(s1) \in SessionKeys
        /\ Ratchet(t1) \in ThreadStates
    BY <2>2, KeysType
  <2>4. writes \in Seq(Statements)
    <3>1. updateThreadRatchetStates(p, Ratchet(t1), Null) \in Statements
      BY <2>3, StatementsType
    <3>2. createConvo(id, p, t, s1, s2) \in Statements
      BY <2>1, <2>3, StatementsType
    <3>3. updateSessionKeys(id, p, AfterAEAD(s1), Null) \in Statements
      BY <2>1, <2>3, StatementsType
    <3> QED
      BY <3>1, <3>2, <3>3
  <2>5. ask \in Reqs \cup {Null}
    BY <2>1, <2>3, ToHubType
  <2>6. Call(writes, ask, <<>>) \in Calls
    BY <2>4, <2>5, CallType
  <2>7. Begin(c, w, Call(writes, ask, <<>>))
    BY <1>4 DEF sendNewThread
  <2> QED
    BY <2>1, <2>6, <2>7, BeginType
<1>5. ASSUME NEW size \in Sizes, NEW id \in Draws,
             sendInConvo(c, w, id, p, size)
      PROVE  IInv'
  <2> DEFINE t == Typed(c, size)
             s1 == db[c].convos[id].c1
             writes == <<updateSessionKeys(id, p, AfterAEAD(s1), Null)>>
             ask == ToHub(id, encryptMessage(s1, id, c, p, t))
             after == IF "todo" \in Mended
                      THEN <<storeMessage(id, TRUE, t)>> ELSE <<>>
  <2>1. t \in Texts /\ draws' \in [Clients -> 0 .. MaxDraws]
    BY <1>5, DrawType DEF sendInConvo
  <2>2. s1 \in SessionKeys
    BY <1>0, <1>5, FoundHasKeys DEF sendInConvo, sessionKeysFound
  <2>3. AfterAEAD(s1) \in SessionKeys
    BY <2>2, KeysType
  <2>4. writes \in Seq(Statements)
    <3>1. updateSessionKeys(id, p, AfterAEAD(s1), Null) \in Statements
      BY <2>3, StatementsType
    <3> QED
      BY <3>1
  <2>5. after \in Seq(Statements)
    <3>1. storeMessage(id, TRUE, t) \in Statements
      BY <2>1, StatementsType
    <3>2. \A st \in Statements : <<st>> \in Seq(Statements)
      OBVIOUS
    <3> QED
      BY <3>1, <3>2, CallType
  <2>6. ask \in Reqs \cup {Null}
    BY <2>1, <2>2, ToHubType
  <2>7. Call(writes, ask, after) \in Calls
    BY <2>4, <2>5, <2>6, CallType
  <2>8. Begin(c, w, Call(writes, ask, after))
    BY <1>5 DEF sendInConvo
  <2> QED
    BY <2>1, <2>7, <2>8, BeginType
<1>6. CASE getNextMessage(c, w)
  <2>1. Call(<<>>, H!GetNextMessage, <<>>) \in Calls
    BY CallType
  <2> QED
    BY <1>0, <1>6, <2>1, BeginType DEF getNextMessage
<1> QED
  BY <1>1, <1>2, <1>3, <1>4, <1>5, <1>6

\* A step of a call that runs.
LEMMA RunStep ==
    ASSUME IInv, NEW c \in Clients, NEW w \in Workers,
           Write(c, w) \/ Ask(c, w) \/ Receive(c, w)
                       \/ ConnError(c, w) \/ ConnReset(c, w)
    PROVE  IInv'
<1> USE DEF IInv
<1>0. op[c][w] \in Calls /\ db[c] \in Databases
  BY DEF TypeOK
<1>01. Idle \in Calls
  BY CallType
<1>02. ASSUME NEW call \in Calls, op' = [op EXCEPT ![c][w] = call]
      PROVE  op' \in [Clients -> [Workers -> Calls]]
  BY <1>02 DEF TypeOK
<1>1. CASE Write(c, w)
  <2> DEFINE st == Head(op[c][w].writes)
  <2>1. op[c][w].writes \in Seq(Statements) /\ op[c][w].writes # <<>>
    BY <1>0, <1>1 DEF Calls, Write
  <2>2. st \in Statements /\ Tail(op[c][w].writes) \in Seq(Statements)
    BY <2>1, HeadTailProperties
  <2>3. db' \in [Clients -> Databases]
    <3>1. Executed(db[c], st) \in Databases
      BY <1>0, <2>2, ExecutedType
    <3> QED
      BY <1>1, <3>1 DEF Write, TypeOK
  <2>4. op' \in [Clients -> [Workers -> Calls]]
    <3>1. [op[c][w] EXCEPT !.writes = Tail(@)] \in Calls
      BY <1>0, <2>2 DEF Calls
    <3>2. \/ op' = [op EXCEPT ![c][w] = Idle]
          \/ op' = [op EXCEPT ![c][w] = [op[c][w] EXCEPT !.writes = Tail(@)]]
      BY <1>1, <1>0 DEF Write, TypeOK, Calls
    <3> QED
      BY <1>01, <1>02, <3>1, <3>2
  <2> QED
    BY <1>1, <2>3, <2>4 DEF Write, TypeOK, RequestsOwned
<1>2. CASE Ask(c, w)
  <2> DEFINE ask == op[c][w].ask
  <2>1. ask \in Reqs
    BY <1>0, <1>2 DEF Ask, AtHub, Calls
  <2>2. PICK k \in Conns :
           /\ hubConn' = [hubConn EXCEPT ![c] = k]
           /\ conn' = [conn EXCEPT ![k] = [owner |-> c, up |-> TRUE,
                                          req |-> ask, res |-> Null]]
    BY <1>2 DEF Ask
  <2>3. [owner |-> c, up |-> TRUE, req |-> ask, res |-> Null] \in Wires
    BY <2>1 DEF Wires
  <2>4. conn' \in [Conns -> Wires] /\ RequestsOwned'
    BY <2>2, <2>3 DEF TypeOK, RequestsOwned
  <2>5. sent' \in [Clients -> Seq(Ciphertexts)]
    <3>1. CASE ask.type = "SendMessage" /\ ask.content.kind = "aead"
      <4>1. ask.content \in Ciphertexts
        BY <2>1, <3>1, ContentsKinds
           DEF Reqs, H!Requests
      <4>2. Append(sent[c], ask.content) \in Seq(Ciphertexts)
        BY <4>1, AppendProperties DEF TypeOK
      <4>3. sent' = [sent EXCEPT ![c] = Append(@, ask.content)]
        BY <1>2, <3>1 DEF Ask
      <4> QED
        BY <4>2, <4>3 DEF TypeOK
    <3>2. CASE ~(ask.type = "SendMessage" /\ ask.content.kind = "aead")
      BY <1>2, <3>2 DEF Ask, TypeOK
    <3> QED
      BY <3>1, <3>2
  <2> QED
    BY <1>2, <2>2, <2>4, <2>5 DEF Ask, TypeOK
<1>3. CASE Receive(c, w)
  <2> DEFINE k == hubConn[c]
             res == conn[k].res
  <2>1. k \in Conns /\ res \in Resps
    BY <1>3 DEF Receive, Exchanging, TypeOK, Wires
  <2>2. Call(op[c][w].after, Null, <<>>) \in Calls
    BY <1>0, CallType DEF Calls
  <2>5. conn' \in [Conns -> Wires] /\ RequestsOwned'
    <3>1. conn' = [conn EXCEPT ![k] = [conn[k] EXCEPT !.res = Null]]
      BY <1>3 DEF Receive
    <3>2. conn[k] \in Wires
      BY <2>1 DEF TypeOK
    <3>3. [conn[k] EXCEPT !.res = Null] \in Wires
      BY <3>2 DEF Wires
    <3> QED
      BY <2>1, <3>1, <3>2, <3>3 DEF TypeOK, RequestsOwned, Wires
  <2>6. SUFFICES op' \in [Clients -> [Workers -> Calls]]
    BY <1>3, <2>5 DEF Receive, TypeOK
  <2>3. CASE res.type = "success"
    <3>1. \/ op' = [op EXCEPT ![c][w] = Idle]
          \/ op' = [op EXCEPT ![c][w] = Call(op[c][w].after, Null, <<>>)]
      BY <1>3, <2>3 DEF Receive
    <3> QED
      BY <1>01, <1>02, <2>2, <3>1
  <2>4. CASE res.type # "success"
    <3>1. res.msg \in Msgs \cup {Null}
      BY <2>1, <2>4 DEF Resps, H!Responses, Msgs
    <3>2. CASE res.msg = Null
      <4>1. op' = [op EXCEPT ![c][w] = Idle]
        BY <1>3, <2>4, <3>2 DEF Receive
      <4> QED
        BY <1>01, <1>02, <4>1
    <3>3. CASE res.msg # Null
      <4>1. Dispatch(db[c], c, res.msg) \in Seq(Statements)
        BY <1>0, <3>1, <3>3, DispatchType
      <4>2. Call(Dispatch(db[c], c, res.msg), Null, <<>>) \in Calls
        BY <4>1, CallType
      <4>3. op' = [op EXCEPT ![c][w] = Call(Dispatch(db[c], c, res.msg), Null, <<>>)]
        BY <1>3, <2>4, <3>3 DEF Receive
      <4> QED
        BY <1>02, <4>2, <4>3
    <3> QED
      BY <3>2, <3>3
  <2> QED
    BY <2>3, <2>4
<1>4. CASE ConnError(c, w)
  BY <1>4, CallType, FaultsAssumption
     DEF ConnError, GiveUp, Fault, TypeOK, RequestsOwned
<1>5. CASE ConnReset(c, w)
  BY <1>5, CallType DEF ConnReset, GiveUp, TypeOK, RequestsOwned
<1> QED
  BY <1>1, <1>2, <1>3, <1>4, <1>5

\* What the hub answers to a request is an answer.
LEMMA AnswerType ==
    ASSUME IInv, NEW who \in Clients, NEW req \in Reqs
    PROVE  H!Answer(pending, who, req) \in Resps
<1>1. pending[who] \in Seq(Msgs)
  BY DEF IInv, TypeOK
<1>2. pending[who] # <<>> => Head(pending[who]) \in Msgs
  BY <1>1, HeadTailProperties
<1>3. CASE req.type = "SendMessage"
  BY <1>3 DEF H!Answer, Resps, H!Responses, Reqs, H!Requests
<1>4. CASE req.type # "SendMessage"
  BY <1>2, <1>4 DEF H!Answer, Resps, H!Responses, Msgs
<1> QED
  BY <1>3, <1>4

\* A step of the hub, or a crash of a client.
LEMMA HubStep ==
    ASSUME IInv,
           \/ \E c \in Clients : Crash(c)
           \/ \E k \in Conns : handleClient(k) \/ hangUp(k)
           \/ hubRestart
    PROVE  IInv'
<1> USE DEF IInv
<1>1. ASSUME NEW c \in Clients, Crash(c) PROVE IInv'
  BY <1>1, CallType, FaultsAssumption DEF Crash, Fault, TypeOK, RequestsOwned
<1>2. ASSUME NEW k \in Conns, handleClient(k) PROVE IInv'
  <2> DEFINE who == conn[k].owner
             req == conn[k].req
  <2>1. who \in Clients /\ req \in Reqs
    BY <1>2 DEF handleClient, RequestsOwned, TypeOK, Wires
  <2>2. pending[who] \in Seq(Msgs) /\ H!Answer(pending, who, req) \in Resps
    BY <2>1, AnswerType DEF TypeOK
  <2>3. CASE req.type = "SendMessage"
    <3> DEFINE m == [from |-> who, convo |-> req.convo, content |-> req.content]
    <3>1. req.to \in Clients /\ m \in Msgs /\ req.fits \in BOOLEAN
      BY <2>1, <2>3 DEF Reqs, H!Requests, Msgs, H!Messages
    <3>2. Append(pending[req.to], m) \in Seq(Msgs)
      BY <3>1, AppendProperties DEF TypeOK
    <3>3. H!Served(pending, who, req) \in [Clients -> Seq(Msgs)]
      BY <2>3, <3>2 DEF H!Served, H!handleSendMessage, TypeOK
    <3> QED
      BY <1>2, <2>2, <3>3 DEF handleClient, TypeOK, RequestsOwned, Wires
  <2>4. CASE req.type # "SendMessage"
    <3>1. pending[who] # <<>> =>
             Head(pending[who]) \in Msgs /\ Tail(pending[who]) \in Seq(Msgs)
      BY <2>2, HeadTailProperties
    <3>2. H!Served(pending, who, req) \in [Clients -> Seq(Msgs)]
      BY <2>4, <3>1 DEF H!Served, H!handleGetNextMessage, TypeOK
    <3> QED
      BY <1>2, <2>2, <3>2 DEF handleClient, TypeOK, RequestsOwned, Wires
  <2> QED
    BY <2>3, <2>4
<1>3. ASSUME NEW k \in Conns, hangUp(k) PROVE IInv'
  BY <1>3 DEF hangUp, NoConn, TypeOK, RequestsOwned, Wires
<1>4. CASE hubRestart
  <2>1. conn' \in [Conns -> Wires] /\ RequestsOwned'
    <3>1. \A k \in Conns :
             /\ conn[k] \in Wires
             /\ [conn[k] EXCEPT !.up = FALSE, !.req = Null] \in Wires
      BY DEF TypeOK, Wires
    <3>2. \A k \in Conns : [conn[k] EXCEPT !.up = FALSE, !.req = Null].req = Null
      BY <3>1 DEF Wires
    <3>3. conn' = [k \in Conns |-> [conn[k] EXCEPT !.up = FALSE, !.req = Null]]
      BY <1>4 DEF hubRestart
    <3> QED
      BY <3>1, <3>2, <3>3 DEF RequestsOwned
  <2>2. pending' \in [Clients -> Seq(Msgs)]
    <3>1. pending' = [c \in Clients |-> <<>>]
      BY <1>4 DEF hubRestart
    <3> QED
      BY <3>1
  <2>3. faults' \in 0 .. MaxFaults
    <3>1. Fault("hub")
      BY <1>4 DEF hubRestart
    <3> QED
      BY <3>1, FaultsAssumption DEF Fault, TypeOK
  <2> QED
    BY <1>4, <2>1, <2>2, <2>3 DEF hubRestart, TypeOK
<1> QED
  BY <1>1, <1>2, <1>3, <1>4

\* The invariant, which the proofs of other modules start from.
LEMMA TypeInvariant == Spec => []IInv
<1>1. Init => IInv
  <2>1. EmptyDatabase \in Databases
    BY DEF EmptyDatabase, Databases
  <2>2. NoConn \in Wires
    BY DEF NoConn, Wires
  <2> QED
    BY <2>1, <2>2, CallType, MaxDrawsAssumption, FaultsAssumption
       DEF Init, IInv, TypeOK, RequestsOwned, NoConn
<1>2. IInv /\ [Next]_vars => IInv'
  <2> SUFFICES ASSUME IInv, [Next]_vars PROVE IInv'
    OBVIOUS
  <2>1. CASE Next
    BY <2>1, CallsStep, RunStep, HubStep DEF Next
  <2>2. CASE UNCHANGED vars
    BY <2>2 DEF IInv, TypeOK, RequestsOwned, vars
  <2> QED
    BY <2>1, <2>2
<1> QED
  BY <1>1, <1>2, PTL DEF Spec

\* Every row of every database, every pending statement, every request, answer
\* and message has the form that its component says it has.
THEOREM TypeCorrect == Spec => []TypeOK
<1>1. IInv => TypeOK
  BY DEF IInv
<1> QED
  BY <1>1, TypeInvariant, PTL

-----------------------------------------------------------------------------
(***************************************************************************)
(* Secrets only advance (SecretsOnlyAdvance), whatever places are mended.  *)
(*                                                                         *)
(* The argument: the statements that a call has yet to execute were        *)
(* computed from a database that no one else changes (OneCall), so that    *)
(* each of them still moves forward what it changes (WritesSafe) when its  *)
(* turn comes; and a conversation is created under an id that is not in    *)
(* the database, because its id was drawn after all others (DrawnOnly).    *)
(***************************************************************************)

ContactStatements == {"addContact", "addContactFromReq", "finalizeContact",
                      "deleteContact", "updateThreadRatchetStates"}

\* Two statements that may change the same row in the same way.
Clash(st, su) == st.do = su.do \/ {st.do, su.do} \subseteq ContactStatements

IsAdded(d, p) == d.contacts[p] # Null /\ d.contacts[p].tag = 2

\* The statement, executed in d, puts no older secret back.
Advances(d, st) ==
    /\ st.do = "finalizeContact" => ~IsAdded(d, st.who)
    /\ st.do = "updateThreadRatchetStates" /\ IsAdded(d, st.who) =>
          IF st.c1 # Null THEN d.contacts[st.who].c1.turn <= st.c1.turn
          ELSE d.contacts[st.who].c2.turn <= st.c2.turn
    /\ st.do = "createConvo" =>
          d.convos[st.id] = Null /\ st.c1.turn = 0 /\ st.c2.turn = 0
    /\ st.do = "updateSessionKeys" =>
          /\ 1 <= (IF st.c1 # Null THEN st.c1.turn ELSE st.c2.turn)
          /\ d.convos[st.id] # Null =>
                IF st.c1 # Null THEN d.convos[st.id].c1.turn <= st.c1.turn
                ELSE d.convos[st.id].c2.turn <= st.c2.turn

\* Every statement advances, and no two of them get into each other's way.
SafeWrites(d, ws) ==
    /\ \A i \in DOMAIN ws : Advances(d, ws[i])
    /\ \A i, j \in DOMAIN ws : Clash(ws[i], ws[j]) => i = j

\* What SecretsOnlyAdvance says of one client's database before and after.
Advanced(d, e) ==
    /\ \A p \in Clients :
          IsAdded(d, p) /\ e.contacts[p] # Null =>
              /\ e.contacts[p].tag = 2
              /\ d.contacts[p].c1.turn <= e.contacts[p].c1.turn
              /\ d.contacts[p].c2.turn <= e.contacts[p].c2.turn
    /\ \A x \in Draws :
          d.convos[x] # Null =>
              /\ e.convos[x] # Null
              /\ d.convos[x].c1.turn <= e.convos[x].c1.turn
              /\ d.convos[x].c2.turn <= e.convos[x].c2.turn

-----------------------------------------------------------------------------
(* One statement and one database *)

\* Turns are numbers, so an unchanged row has advanced.
LEMMA TurnsType ==
    ASSUME NEW d \in Databases
    PROVE  /\ \A p \in Clients : IsAdded(d, p) =>
                 d.contacts[p].c1.turn \in Nat /\ d.contacts[p].c2.turn \in Nat
           /\ \A x \in Draws : d.convos[x] # Null =>
                 d.convos[x].c1.turn \in Nat /\ d.convos[x].c2.turn \in Nat
<1>1. ASSUME NEW p \in Clients, IsAdded(d, p)
      PROVE  d.contacts[p].c1.turn \in Nat /\ d.contacts[p].c2.turn \in Nat
  <2>1. d.contacts[p] \in ContactRows
    BY <1>1 DEF IsAdded, Databases
  <2>2. d.contacts[p].c1 \in ThreadStates /\ d.contacts[p].c2 \in ThreadStates
    BY <1>1, <2>1, RowFields DEF IsAdded
  <2> QED
    BY <2>2 DEF ThreadStates
<1>2. ASSUME NEW x \in Draws, d.convos[x] # Null
      PROVE  d.convos[x].c1.turn \in Nat /\ d.convos[x].c2.turn \in Nat
  BY <1>2, FoundHasKeys DEF SessionKeys
<1> QED
  BY <1>1, <1>2

\* Which rows a statement leaves alone, and what it makes of the others.
LEMMA ExecutedFrame ==
    ASSUME NEW d \in Databases, NEW st \in Statements
    PROVE  LET e == Executed(d, st) IN
           /\ st.do \notin ContactStatements => e.contacts = d.contacts
           /\ st.do \in ContactStatements =>
                 /\ e.convos = d.convos
                 /\ st.who \in Clients
                 /\ \A p \in Clients \ {st.who} : e.contacts[p] = d.contacts[p]
           /\ st.do = "createConvo" =>
                 /\ st.id \in Draws
                 /\ e.convos = [d.convos EXCEPT ![st.id] =
                       [peer |-> st.who, title |-> st.title,
                        c1 |-> st.c1, c2 |-> st.c2]]
           /\ st.do = "updateSessionKeys" =>
                 /\ st.id \in Draws
                 /\ \/ e.convos = d.convos
                    \/ /\ d.convos[st.id] # Null
                       /\ e.convos = [d.convos EXCEPT ![st.id] = SetOne(@, st)]
           /\ st.do = "updateTitle" =>
                 /\ st.id \in Draws
                 /\ \/ e.convos = d.convos
                    \/ /\ d.convos[st.id] # Null
                       /\ e.convos = [d.convos EXCEPT ![st.id].title = st.title]
           /\ st.do = "storeMessage" => e.convos = d.convos
<1> DEFINE e == Executed(d, st)
<1>0. d = [contacts |-> d.contacts, convos |-> d.convos, messages |-> d.messages]
  BY DEF Databases
<1>1. CASE st.do = "addContact"
  BY <1>0, <1>1 DEF Executed, ContactStatements, Statements, Databases
<1>2. CASE st.do = "addContactFromReq"
  BY <1>0, <1>2 DEF Executed, ContactStatements, Statements, Databases
<1>3. CASE st.do = "finalizeContact"
  BY <1>0, <1>3 DEF Executed, ContactStatements, Statements, Databases
<1>4. CASE st.do = "deleteContact"
  BY <1>0, <1>4 DEF Executed, ContactStatements, Statements, Databases, RemoveContact
<1>5. CASE st.do = "updateThreadRatchetStates"
  BY <1>0, <1>5 DEF Executed, ContactStatements, Statements, Databases
<1>6. CASE st.do = "createConvo"
  BY <1>0, <1>6 DEF Executed, ContactStatements, Statements, Matches
<1>7. CASE st.do = "updateSessionKeys"
  BY <1>0, <1>7 DEF Executed, ContactStatements, Statements, Matches
<1>8. CASE st.do = "updateTitle"
  BY <1>0, <1>8 DEF Executed, ContactStatements, Statements, Matches
<1>9. CASE st.do = "storeMessage"
  BY <1>0, <1>9 DEF Executed, ContactStatements, Statements
<1> QED
  BY <1>1, <1>2, <1>3, <1>4, <1>5, <1>6, <1>7, <1>8, <1>9 DEF Statements

\* The same for one conversation.
LEMMA ExecutedConvo ==
    ASSUME NEW d \in Databases, NEW st \in Statements, NEW x \in Draws
    PROVE  LET row == Executed(d, st).convos[x] IN
           \/ row = d.convos[x]
           \/ /\ st.do = "createConvo" /\ st.id = x
              /\ row = [peer |-> st.who, title |-> st.title,
                        c1 |-> st.c1, c2 |-> st.c2]
           \/ /\ st.do = "updateSessionKeys" /\ st.id = x
              /\ d.convos[x] # Null
              /\ row = SetOne(d.convos[x], st)
           \/ /\ st.do = "updateTitle"
              /\ d.convos[x] # Null
              /\ row = [d.convos[x] EXCEPT !.title = st.title]
<1> DEFINE e == Executed(d, st)
<1>0. d.convos \in [Draws -> ConvoRows \cup {Null}]
  BY DEF Databases
<1>1. CASE st.do \in ContactStatements \cup {"storeMessage"}
  BY <1>1, ExecutedFrame
<1>2. CASE st.do = "createConvo"
  <2>1. /\ st.id \in Draws
        /\ e.convos = [d.convos EXCEPT ![st.id] =
                          [peer |-> st.who, title |-> st.title,
                           c1 |-> st.c1, c2 |-> st.c2]]
    BY <1>2, ExecutedFrame
  <2> QED
    BY <1>0, <1>2, <2>1
<1>3. CASE st.do = "updateSessionKeys"
  <2>1. /\ st.id \in Draws
        /\ \/ e.convos = d.convos
           \/ /\ d.convos[st.id] # Null
              /\ e.convos = [d.convos EXCEPT ![st.id] = SetOne(@, st)]
    BY <1>3, ExecutedFrame
  <2> QED
    BY <1>0, <1>3, <2>1
<1>4. CASE st.do = "updateTitle"
  <2>1. /\ st.id \in Draws
        /\ \/ e.convos = d.convos
           \/ /\ d.convos[st.id] # Null
              /\ e.convos = [d.convos EXCEPT ![st.id].title = st.title]
    BY <1>4, ExecutedFrame
  <2> QED
    BY <1>0, <1>4, <2>1
<1> QED
  BY <1>1, <1>2, <1>3, <1>4 DEF Statements, ContactStatements

\* Only createConvo adds a conversation, the one it names.
LEMMA OnlyCreateAdds ==
    ASSUME NEW d \in Databases, NEW st \in Statements, NEW x \in Draws,
           d.convos[x] = Null, Executed(d, st).convos[x] # Null
    PROVE  st.do = "createConvo" /\ st.id = x
<1> DEFINE row == Executed(d, st).convos[x]
<1>1. row # d.convos[x]
  OBVIOUS
<1>2. \/ row = d.convos[x]
      \/ st.do = "createConvo" /\ st.id = x
      \/ d.convos[x] # Null
  BY ExecutedConvo
<1> QED
  BY <1>1, <1>2

\* A statement that advances makes the database advance.
LEMMA StatementAdvances ==
    ASSUME NEW d \in Databases, NEW st \in Statements,
           Advances(d, st), ~Violates(d, st)
    PROVE  Advanced(d, Executed(d, st))
<1> DEFINE e == Executed(d, st)
<1>0. e \in Databases
  BY ExecutedType
<1>1. \A p \in Clients : IsAdded(d, p) /\ e.contacts[p] # Null =>
         /\ e.contacts[p].tag = 2
         /\ d.contacts[p].c1.turn <= e.contacts[p].c1.turn
         /\ d.contacts[p].c2.turn <= e.contacts[p].c2.turn
  <2> SUFFICES ASSUME NEW p \in Clients, IsAdded(d, p), e.contacts[p] # Null
               PROVE  /\ e.contacts[p].tag = 2
                      /\ d.contacts[p].c1.turn <= e.contacts[p].c1.turn
                      /\ d.contacts[p].c2.turn <= e.contacts[p].c2.turn
    OBVIOUS
  <2>1. d.contacts[p].c1.turn \in Nat /\ d.contacts[p].c2.turn \in Nat
    BY TurnsType
  <2>2. CASE e.contacts[p] = d.contacts[p]
    BY <2>1, <2>2 DEF IsAdded
  <2>3. CASE st.do \in ContactStatements /\ st.who = p
    <3>1. d.contacts[p] # Null /\ d.contacts[p].tag = 2
      BY DEF IsAdded
    <3>2. CASE st.do = "updateThreadRatchetStates"
      <4>1. e.contacts[p] = SetOne(d.contacts[p], st)
        BY <2>3, <3>1, <3>2 DEF Executed, Matches, Databases
      <4>2. d.contacts[p] \in ContactRows
        BY <3>1 DEF Databases
      <4>3. IF st.c1 # Null THEN d.contacts[p].c1.turn <= st.c1.turn
            ELSE d.contacts[p].c2.turn <= st.c2.turn
        BY <2>3, <3>2 DEF Advances
      <4>4. /\ e.contacts[p].tag = 2
            /\ e.contacts[p].c1 = IF st.c1 # Null THEN st.c1 ELSE d.contacts[p].c1
            /\ e.contacts[p].c2 = IF st.c1 # Null THEN d.contacts[p].c2 ELSE st.c2
        BY <3>1, <4>1, <4>2 DEF SetOne, ContactRows
      <4> QED
        BY <2>1, <4>3, <4>4
    <3>3. CASE st.do = "deleteContact"
      BY <2>3, <3>3 DEF Executed, Matches, RemoveContact, Databases
    <3>4. CASE st.do \in {"addContact", "addContactFromReq"}
      BY <2>3, <3>1, <3>4 DEF Violates
    <3>5. CASE st.do = "finalizeContact"
      BY <2>3, <3>5 DEF Advances
    <3> QED
      BY <2>3, <3>2, <3>3, <3>4, <3>5 DEF ContactStatements
  <2> QED
    BY <2>2, <2>3, ExecutedFrame
<1>2. \A x \in Draws : d.convos[x] # Null =>
         /\ e.convos[x] # Null
         /\ d.convos[x].c1.turn <= e.convos[x].c1.turn
         /\ d.convos[x].c2.turn <= e.convos[x].c2.turn
  <2> SUFFICES ASSUME NEW x \in Draws, d.convos[x] # Null
               PROVE  /\ e.convos[x] # Null
                      /\ d.convos[x].c1.turn <= e.convos[x].c1.turn
                      /\ d.convos[x].c2.turn <= e.convos[x].c2.turn
    OBVIOUS
  <2>1. /\ d.convos[x].c1.turn \in Nat /\ d.convos[x].c2.turn \in Nat
        /\ d.convos[x] \in ConvoRows /\ d.convos \in [Draws -> ConvoRows \cup {Null}]
    BY TurnsType DEF Databases
  <2>2. CASE e.convos[x] = d.convos[x]
    BY <2>1, <2>2
  <2>3. CASE e.convos[x] = SetOne(d.convos[x], st) /\ st.do = "updateSessionKeys"
                                                  /\ st.id = x
    <3>1. IF st.c1 # Null THEN d.convos[x].c1.turn <= st.c1.turn
          ELSE d.convos[x].c2.turn <= st.c2.turn
      BY <2>3 DEF Advances
    <3>2. /\ e.convos[x].c1 = IF st.c1 # Null THEN st.c1 ELSE d.convos[x].c1
          /\ e.convos[x].c2 = IF st.c1 # Null THEN d.convos[x].c2 ELSE st.c2
      BY <2>1, <2>3 DEF SetOne, ConvoRows
    <3>3. e.convos[x] # Null
      <4>1. e.convos[x] \in ConvoRows
        BY <2>1, <2>3 DEF SetOne, ConvoRows, Statements
      <4> QED
        BY <4>1, RowAssumption
    <3> QED
      BY <2>1, <3>1, <3>2, <3>3
  <2>4. CASE e.convos[x] = [d.convos[x] EXCEPT !.title = st.title]
             /\ st.do = "updateTitle"
    <3>1. e.convos[x] \in ConvoRows
      BY <2>1, <2>4 DEF ConvoRows, Statements
    <3> QED
      BY <2>1, <2>4, <3>1, RowAssumption DEF ConvoRows
  <2>5. st.do = "createConvo" => st.id # x
    BY DEF Advances
  <2> QED
    BY <2>2, <2>3, <2>4, <2>5, ExecutedConvo
<1> QED
  BY <1>1, <1>2 DEF Advanced

\* A statement that advances still does after another one was executed.
LEMMA StillAdvances ==
    ASSUME NEW d \in Databases, NEW st \in Statements, NEW su \in Statements,
           Advances(d, st), Advances(d, su), ~Clash(st, su)
    PROVE  Advances(Executed(d, st), su)
<1> DEFINE e == Executed(d, st)
<1>1. CASE su.do \in ContactStatements
  <2>1. e.contacts = d.contacts
    BY <1>1, ExecutedFrame DEF Clash
  <2> QED
    BY <1>1, <2>1 DEF Advances, ContactStatements, IsAdded
<1>2. CASE su.do = "createConvo"
  <2>1. su.id \in Draws /\ d.convos[su.id] = Null
    BY <1>2, ExecutedFrame DEF Advances
  <2>2. st.do # "createConvo"
    BY <1>2 DEF Clash
  <2>3. e.convos[su.id] = Null
    BY <2>1, <2>2, ExecutedConvo
  <2> QED
    BY <1>2, <2>3 DEF Advances
<1>3. CASE su.do = "updateSessionKeys"
  <2>0. /\ su.id \in Draws /\ d.convos \in [Draws -> ConvoRows \cup {Null}]
        /\ su.c1 # Null => su.c1.turn \in Nat
        /\ su.c1 = Null => su.c2.turn \in Nat
    BY <1>3, NullAssumption DEF Statements, Databases, SessionKeys
  <2>1. st.do # "updateSessionKeys"
    BY <1>3 DEF Clash
  <2>2. CASE e.convos[su.id] = d.convos[su.id]
    BY <1>3, <2>2 DEF Advances
  <2>3. CASE /\ st.do = "createConvo" /\ st.id = su.id
             /\ e.convos[su.id] = [peer |-> st.who, title |-> st.title,
                                   c1 |-> st.c1, c2 |-> st.c2]
    <3>1. e.convos[su.id] = [peer |-> st.who, title |-> st.title,
                             c1 |-> st.c1, c2 |-> st.c2]
      BY <2>3
    <3>2. st.c1.turn = 0 /\ st.c2.turn = 0
      BY <2>3 DEF Advances
    <3>3. e.convos[su.id].c1.turn = 0 /\ e.convos[su.id].c2.turn = 0
      BY <3>1, <3>2
    <3> QED
      BY <1>3, <2>0, <3>3 DEF Advances
  <2>4. CASE st.do = "updateTitle" /\ d.convos[su.id] # Null
             /\ e.convos[su.id] = [d.convos[su.id] EXCEPT !.title = st.title]
    <3>1. d.convos[su.id] \in ConvoRows
      BY <2>0, <2>4
    <3>2. /\ e.convos[su.id].c1 = d.convos[su.id].c1
          /\ e.convos[su.id].c2 = d.convos[su.id].c2
      BY <2>4, <3>1 DEF ConvoRows
    <3> QED
      BY <1>3, <2>4, <3>2 DEF Advances
  <2> QED
    BY <2>0, <2>1, <2>2, <2>3, <2>4, ExecutedConvo
<1>4. CASE su.do \in {"updateTitle", "storeMessage"}
  BY <1>4 DEF Advances
<1> QED
  BY <1>1, <1>2, <1>3, <1>4 DEF Statements, ContactStatements

-----------------------------------------------------------------------------
(* Sequences of statements *)

\* What is left after the first statement is still safe.
LEMMA SafeTail ==
    ASSUME NEW d \in Databases, NEW ws \in Seq(Statements), ws # <<>>,
           SafeWrites(d, ws)
    PROVE  SafeWrites(Executed(d, Head(ws)), Tail(ws))
<1> DEFINE e == Executed(d, Head(ws))
<1>1. /\ Head(ws) = ws[1] /\ 1 \in DOMAIN ws /\ ws[1] \in Statements
      /\ \A i \in DOMAIN Tail(ws) :
            /\ i \in Nat /\ i # 0
            /\ i + 1 \in DOMAIN ws
            /\ ws[i + 1] \in Statements
            /\ Tail(ws)[i] = ws[i + 1]
  OBVIOUS
<1>2. ASSUME NEW i \in DOMAIN Tail(ws) PROVE Advances(e, Tail(ws)[i])
  <2>1. ~Clash(ws[1], ws[i + 1])
    BY <1>1 DEF SafeWrites
  <2>2. Advances(d, ws[1]) /\ Advances(d, ws[i + 1])
    BY <1>1 DEF SafeWrites
  <2> QED
    BY <1>1, <2>1, <2>2, StillAdvances
<1>3. ASSUME NEW i \in DOMAIN Tail(ws), NEW j \in DOMAIN Tail(ws),
             Clash(Tail(ws)[i], Tail(ws)[j])
      PROVE  i = j
  <2>1. i + 1 = j + 1
    BY <1>1, <1>3 DEF SafeWrites
  <2> QED
    BY <1>1, <2>1
<1> QED
  BY <1>2, <1>3 DEF SafeWrites

\* Sequences of up to four statements.
LEMMA SafeSequences ==
    ASSUME NEW d
    PROVE  /\ SafeWrites(d, <<>>)
           /\ \A s1 : Advances(d, s1) => SafeWrites(d, <<s1>>)
           /\ \A s1, s2 :
                 Advances(d, s1) /\ Advances(d, s2) /\ ~Clash(s1, s2) =>
                     SafeWrites(d, <<s1, s2>>)
           /\ \A s1, s2, s3 :
                 (/\ Advances(d, s1) /\ Advances(d, s2) /\ Advances(d, s3)
                  /\ ~Clash(s1, s2) /\ ~Clash(s1, s3) /\ ~Clash(s2, s3)) =>
                     SafeWrites(d, <<s1, s2, s3>>)
           /\ \A s1, s2, s3, s4 :
                 (/\ Advances(d, s1) /\ Advances(d, s2) /\ Advances(d, s3)
                  /\ Advances(d, s4)
                  /\ ~Clash(s1, s2) /\ ~Clash(s1, s3) /\ ~Clash(s2, s3)
                  /\ ~Clash(s1, s4) /\ ~Clash(s2, s4) /\ ~Clash(s3, s4)) =>
                     SafeWrites(d, <<s1, s2, s3, s4>>)
<1>0. \A st, su : Clash(st, su) => Clash(su, st)
  BY DEF Clash
<1>1. SafeWrites(d, <<>>)
  BY DEF SafeWrites
<1>2. ASSUME NEW s1, Advances(d, s1) PROVE SafeWrites(d, <<s1>>)
  BY <1>2 DEF SafeWrites
<1>3. ASSUME NEW s1, NEW s2, Advances(d, s1), Advances(d, s2), ~Clash(s1, s2)
      PROVE  SafeWrites(d, <<s1, s2>>)
  BY <1>0, <1>3 DEF SafeWrites
<1>4. ASSUME NEW s1, NEW s2, NEW s3,
             Advances(d, s1), Advances(d, s2), Advances(d, s3),
             ~Clash(s1, s2), ~Clash(s1, s3), ~Clash(s2, s3)
      PROVE  SafeWrites(d, <<s1, s2, s3>>)
  BY <1>0, <1>4 DEF SafeWrites
<1>5. ASSUME NEW s1, NEW s2, NEW s3, NEW s4,
             Advances(d, s1), Advances(d, s2), Advances(d, s3), Advances(d, s4),
             ~Clash(s1, s2), ~Clash(s1, s3), ~Clash(s2, s3),
             ~Clash(s1, s4), ~Clash(s2, s4), ~Clash(s3, s4)
      PROVE  SafeWrites(d, <<s1, s2, s3, s4>>)
  BY <1>0, <1>5 DEF SafeWrites
<1> QED
  BY <1>1, <1>2, <1>3, <1>4, <1>5

\* The statements that advance whatever the database is.
LEMMA AlwaysAdvance ==
    ASSUME NEW d, NEW p
    PROVE  /\ \A e : Advances(d, addContact(p, e))
           /\ \A ct : Advances(d, addContactFromReq(p, ct))
           /\ Advances(d, deleteContact(p))
           /\ \A x, t : Advances(d, updateTitle(x, p, t))
           /\ \A x, t, mine : Advances(d, storeMessage(x, mine, t))
BY DEF Advances, addContact, addContactFromReq, deleteContact, updateTitle,
       storeMessage

\* The statements that set states advance if these come from the database.
LEMMA RatchetsAdvance ==
    ASSUME NEW d \in Databases, NEW p \in Clients, NEW x \in Draws
    PROVE  /\ threadRatchetStatesReady(d, p) =>
                 /\ Advances(d, updateThreadRatchetStates(p,
                                   Ratchet(d.contacts[p].c1), Null))
                 /\ Advances(d, updateThreadRatchetStates(p, Null,
                                   Ratchet(d.contacts[p].c2)))
           /\ d.convos[x] # Null =>
                 /\ Advances(d, updateSessionKeys(x, p,
                                   AfterAEAD(d.convos[x].c1), Null))
                 /\ Advances(d, updateSessionKeys(x, p, Null,
                                   AfterAEAD(d.convos[x].c2)))
           /\ d.convos[x] = Null =>
                 \A ts \in ThreadStates : \A t :
                    /\ Advances(d, createConvo(x, p, t, InitiatorThread(ts),
                                               ResponderThread(ts)))
                    /\ Advances(d, createConvo(x, p, t, ResponderThread(ts),
                                               InitiatorThread(ts)))
                    /\ Advances(d, updateSessionKeys(x, p,
                                      AfterAEAD(InitiatorThread(ts)), Null))
                    /\ Advances(d, updateSessionKeys(x, p, Null,
                                      AfterAEAD(InitiatorThread(ts))))
<1>1. \A ts \in ThreadStates :
         /\ Ratchet(ts) # Null /\ ts.turn \in Nat /\ Ratchet(ts).turn = ts.turn + 1
         /\ InitiatorThread(ts) \in SessionKeys
         /\ InitiatorThread(ts).turn = 0 /\ ResponderThread(ts).turn = 0
  BY KeysType, NullAssumption DEF ThreadStates, Ratchet, InitiatorThread, ResponderThread
<1>2. \A s \in SessionKeys :
         AfterAEAD(s) # Null /\ s.turn \in Nat /\ AfterAEAD(s).turn = s.turn + 1
  BY KeysType, NullAssumption DEF SessionKeys, AfterAEAD
<1>3. ASSUME threadRatchetStatesReady(d, p)
      PROVE  /\ Advances(d, updateThreadRatchetStates(p,
                               Ratchet(d.contacts[p].c1), Null))
             /\ Advances(d, updateThreadRatchetStates(p, Null,
                               Ratchet(d.contacts[p].c2)))
  <2>1. d.contacts[p].c1 \in ThreadStates /\ d.contacts[p].c2 \in ThreadStates
    BY <1>3, ReadyHasStates
  <2> QED
    BY <1>1, <2>1 DEF Advances, updateThreadRatchetStates
<1>4. ASSUME d.convos[x] # Null
      PROVE  /\ Advances(d, updateSessionKeys(x, p,
                               AfterAEAD(d.convos[x].c1), Null))
             /\ Advances(d, updateSessionKeys(x, p, Null,
                               AfterAEAD(d.convos[x].c2)))
  <2>1. d.convos[x].c1 \in SessionKeys /\ d.convos[x].c2 \in SessionKeys
    BY <1>4, FoundHasKeys
  <2> QED
    BY <1>2, <2>1 DEF Advances, updateSessionKeys
<1>5. ASSUME d.convos[x] = Null, NEW ts \in ThreadStates, NEW t
      PROVE  /\ Advances(d, createConvo(x, p, t, InitiatorThread(ts),
                                        ResponderThread(ts)))
             /\ Advances(d, createConvo(x, p, t, ResponderThread(ts),
                                        InitiatorThread(ts)))
             /\ Advances(d, updateSessionKeys(x, p,
                               AfterAEAD(InitiatorThread(ts)), Null))
             /\ Advances(d, updateSessionKeys(x, p, Null,
                               AfterAEAD(InitiatorThread(ts))))
  BY <1>1, <1>2, <1>5 DEF Advances, createConvo, updateSessionKeys
<1> QED
  BY <1>3, <1>4, <1>5

\* Two statements and what follows them.
LEMMA ConcatSequences ==
    ASSUME NEW a, NEW b, NEW y, NEW z
    PROVE  /\ <<a, b>> \o <<>> = <<a, b>>
           /\ <<a, b>> \o <<y>> = <<a, b, y>>
           /\ <<a, b>> \o <<y, z>> = <<a, b, y, z>>
<1> DEFINE S == {a, b, y, z}
<1>1. /\ <<a, b>> \in Seq(S) /\ <<y>> \in Seq(S) /\ <<y, z>> \in Seq(S)
      /\ <<a, b, y>> \in Seq(S) /\ <<a, b, y, z>> \in Seq(S)
  OBVIOUS
<1> HIDE DEF S
<1>2. <<a, b>> \o <<y>> = <<a, b, y>>
  <2> DEFINE s == <<a, b>> \o <<y>>
  <2>1. s \in Seq(S) /\ Len(s) = Len(<<a, b, y>>)
    BY <1>1, ConcatProperties
  <2>2. \A i \in 1 .. Len(s) : s[i] = <<a, b, y>>[i]
    BY <1>1, <2>1, ConcatProperties
  <2> QED
    BY <1>1, <2>1, <2>2, SeqEqual
<1>3. <<a, b>> \o <<y, z>> = <<a, b, y, z>>
  <2> DEFINE s == <<a, b>> \o <<y, z>>
  <2>1. s \in Seq(S) /\ Len(s) = Len(<<a, b, y, z>>)
    BY <1>1, ConcatProperties
  <2>2. \A i \in 1 .. Len(s) : s[i] = <<a, b, y, z>>[i]
    BY <1>1, <2>1, ConcatProperties
  <2> QED
    BY <1>1, <2>1, <2>2, SeqEqual
<1> QED
  BY <1>1, <1>2, <1>3, ConcatEmptySeq

\* The statements of a new thread, at the receiver.
LEMMA NewThreadForms ==
    ASSUME NEW d, NEW me, NEW m
    PROVE  LET t2 == d.contacts[m.from].c2
               s1 == InitiatorThread(t2)
               s2 == ResponderThread(t2)
               create == IF "roles" \in Mended
                         THEN createConvo(m.convo, m.from, Null, s2, s1)
                         ELSE createConvo(m.convo, m.from, Null, s1, s2)
               ratchet == updateThreadRatchetStates(m.from, Null, Ratchet(t2))
               keys == updateSessionKeys(m.convo, m.from, Null, AfterAEAD(s1))
               title == updateTitle(m.convo, m.from, m.content.text)
           IN  \/ newThread(d, me, m) = <<create, ratchet>>
               \/ newThread(d, me, m) = <<create, ratchet, title>>
               \/ newThread(d, me, m) = <<create, ratchet, keys, title>>
<1> DEFINE t2 == d.contacts[m.from].c2
           s1 == InitiatorThread(t2)
           s2 == ResponderThread(t2)
           create == IF "roles" \in Mended
                     THEN createConvo(m.convo, m.from, Null, s2, s1)
                     ELSE createConvo(m.convo, m.from, Null, s1, s2)
           ratchet == updateThreadRatchetStates(m.from, Null, Ratchet(t2))
           keys == updateSessionKeys(m.convo, m.from, Null, AfterAEAD(s1))
           title == updateTitle(m.convo, m.from, m.content.text)
           rest == IF ~decryptMessage(s1, me, m) THEN <<>>
                   ELSE IF "title" \in Mended THEN <<keys, title>>
                   ELSE <<title>>
<1>1. newThread(d, me, m) = <<create, ratchet>> \o rest
  BY DEF newThread
<1>2. rest = <<>> \/ rest = <<title>> \/ rest = <<keys, title>>
  OBVIOUS
<1> HIDE DEF create, ratchet, keys, title, rest
<1>3. /\ <<create, ratchet>> \o <<>> = <<create, ratchet>>
      /\ <<create, ratchet>> \o <<title>> = <<create, ratchet, title>>
      /\ <<create, ratchet>> \o <<keys, title>> = <<create, ratchet, keys, title>>
  BY ConcatSequences
<1>4. CASE rest = <<>>
  BY <1>1, <1>3, <1>4 DEF create, ratchet, keys, title
<1>5. CASE rest = <<title>>
  BY <1>1, <1>3, <1>5 DEF create, ratchet, keys, title
<1>6. CASE rest = <<keys, title>>
  BY <1>1, <1>3, <1>6 DEF create, ratchet, keys, title
<1> QED
  BY <1>2, <1>4, <1>5, <1>6

\* What getNextMessage goes on to do with a message is safe, and creates no
\* conversation but the one that the message names.
LEMMA DispatchSafe ==
    ASSUME NEW d \in Databases, NEW me \in Clients, NEW m \in Msgs
    PROVE  LET ws == Dispatch(d, me, m) IN
           /\ SafeWrites(d, ws)
           /\ \A i \in DOMAIN ws : ws[i].do = "createConvo" => ws[i].id = m.convo
<1> DEFINE Named(ws) ==
              \A i \in DOMAIN ws : ws[i].do = "createConvo" => ws[i].id = m.convo
           p == m.from
           x == m.convo
<1>0. p \in Clients /\ x \in Draws
  BY DEF Msgs, H!Messages
<1>1. SafeWrites(d, <<>>) /\ Named(<<>>)
  BY SafeSequences
<1>2. LET ws == <<addContactFromReq(p, m.content)>> IN SafeWrites(d, ws) /\ Named(ws)
  <2> DEFINE st == addContactFromReq(p, m.content)
  <2>1. Advances(d, st)
    BY AlwaysAdvance
  <2>2. SafeWrites(d, <<st>>)
    BY <2>1, SafeSequences
  <2>3. Named(<<st>>)
    BY DEF addContactFromReq
  <2> QED
    BY <2>2, <2>3
<1>3. ASSUME getStateContact(d, p) = "waitingForAccept"
      PROVE  LET ws == aliceAckAcceptContact(d, m) IN SafeWrites(d, ws) /\ Named(ws)
  <2>1. ~IsAdded(d, p)
    BY <1>3 DEF getStateContact, IsAdded
  <2>2. \A t1, t2 : /\ Advances(d, finalizeContact(p, t1, t2))
                    /\ Named(<<finalizeContact(p, t1, t2)>>)
    BY <2>1 DEF Advances, finalizeContact
  <2> QED
    BY <1>1, <2>2, SafeSequences DEF aliceAckAcceptContact
<1>4. ASSUME threadRatchetStatesReady(d, p), ~ConvoExist(d, x)
      PROVE  LET ws == newThread(d, me, m) IN SafeWrites(d, ws) /\ Named(ws)
  <2> DEFINE t2 == d.contacts[p].c2
             s1 == InitiatorThread(t2)
             s2 == ResponderThread(t2)
             create == IF "roles" \in Mended THEN createConvo(x, p, Null, s2, s1)
                                             ELSE createConvo(x, p, Null, s1, s2)
             ratchet == updateThreadRatchetStates(p, Null, Ratchet(t2))
             keys == updateSessionKeys(x, p, Null, AfterAEAD(s1))
             title == updateTitle(x, p, m.content.text)
  <2>1. t2 \in ThreadStates
    BY <1>0, <1>4, ReadyHasStates
  <2>2. Advances(d, create) /\ Advances(d, keys)
    BY <1>0, <1>4, <2>1, RatchetsAdvance DEF ConvoExist
  <2>3. Advances(d, ratchet)
    BY <1>0, <1>4, RatchetsAdvance
  <2>4. Advances(d, title)
    BY AlwaysAdvance
  <2>5. /\ create.do = "createConvo" /\ create.id = x
        /\ ratchet.do = "updateThreadRatchetStates"
        /\ keys.do = "updateSessionKeys"
        /\ title.do = "updateTitle"
    BY DEF createConvo, updateThreadRatchetStates, updateSessionKeys, updateTitle
  <2>6. \/ newThread(d, me, m) = <<create, ratchet>>
        \/ newThread(d, me, m) = <<create, ratchet, title>>
        \/ newThread(d, me, m) = <<create, ratchet, keys, title>>
    BY NewThreadForms
  <2> HIDE DEF create, ratchet, keys, title
  <2>7. /\ ~Clash(create, ratchet) /\ ~Clash(create, keys) /\ ~Clash(create, title)
        /\ ~Clash(ratchet, keys) /\ ~Clash(ratchet, title) /\ ~Clash(keys, title)
    BY <2>5 DEF Clash, ContactStatements
  <2>8. /\ SafeWrites(d, <<create, ratchet>>)
        /\ SafeWrites(d, <<create, ratchet, title>>)
        /\ SafeWrites(d, <<create, ratchet, keys, title>>)
    BY <2>2, <2>3, <2>4, <2>7, SafeSequences
  <2>9. /\ Named(<<create, ratchet>>)
        /\ Named(<<create, ratchet, title>>)
        /\ Named(<<create, ratchet, keys, title>>)
    BY <2>5
  <2> QED
    BY <2>6, <2>8, <2>9
<1>5. LET ws == handleNewMessage(d, me, m) IN SafeWrites(d, ws) /\ Named(ws)
  <2> DEFINE keys == updateSessionKeys(x, p, Null, AfterAEAD(d.convos[x].c2))
             message == storeMessage(x, FALSE, m.content.text)
  <2>1. CASE ~ConvoExist(d, x)
    BY <1>1, <1>4, <2>1 DEF handleNewMessage
  <2>2. CASE /\ ConvoExist(d, x)
             /\ handleNewMessage(d, me, m) = <<keys, message>>
    <3>1. Advances(d, keys) /\ Advances(d, message)
      BY <1>0, <2>2, RatchetsAdvance, AlwaysAdvance DEF ConvoExist
    <3>2. keys.do = "updateSessionKeys" /\ message.do = "storeMessage"
      BY DEF updateSessionKeys, storeMessage
    <3> HIDE DEF keys, message
    <3>3. ~Clash(keys, message) /\ Named(<<keys, message>>)
      BY <3>2 DEF Clash, ContactStatements
    <3> QED
      BY <2>2, <3>1, <3>3, SafeSequences
  <2>3. CASE handleNewMessage(d, me, m) = <<>>
    BY <1>1, <2>3
  <2> QED
    BY <2>1, <2>2, <2>3 DEF handleNewMessage
<1> QED
  BY <1>1, <1>2, <1>3, <1>5 DEF Dispatch

-----------------------------------------------------------------------------
(* The inductive invariant *)

\* At most one call of a client runs (queryMutex).
OneCall ==
    \A c \in Clients : \A v, w \in Workers :
        op[c][v] # Idle /\ op[c][w] # Idle => v = w

\* Nothing but storeMessage ever waits for the hub's answer.
Stores(after) == \A i \in DOMAIN after : after[i].do = "storeMessage" /\ i = 1

AfterStores == \A c \in Clients, w \in Workers : Stores(op[c][w].after)

\* What a call has yet to execute is safe in the database as it is now.
WritesSafe == \A c \in Clients, w \in Workers : SafeWrites(db[c], op[c][w].writes)

\* Conversation x was drawn when the clients had drawn n values.
Drawn(n, x) == x.no <= n[x.who]
DrawnRequest(n, req) == req # Null /\ req.type = "SendMessage" => Drawn(n, req.convo)
DrawnResponse(n, res) ==
    res # Null /\ res.type = "message" /\ res.msg # Null => Drawn(n, res.msg.convo)
DrawnWrites(n, ws) ==
    \A i \in DOMAIN ws : ws[i].do = "createConvo" => Drawn(n, ws[i].id)
DrawnRows(n, d) == \A x \in Draws : d.convos[x] # Null => Drawn(n, x)
DrawnBox(n, box) == \A i \in DOMAIN box : Drawn(n, box[i].convo)

\* No conversation is known anywhere before its id was drawn.
RowsDrawn == \A c \in Clients : DrawnRows(draws, db[c])
CallsDrawn ==
    \A c \in Clients, w \in Workers :
        DrawnWrites(draws, op[c][w].writes) /\ DrawnRequest(draws, op[c][w].ask)
WiresDrawn ==
    \A k \in Conns : DrawnRequest(draws, conn[k].req) /\ DrawnResponse(draws, conn[k].res)
BoxesDrawn == \A c \in Clients : DrawnBox(draws, pending[c])
DrawnOnly == RowsDrawn /\ CallsDrawn /\ WiresDrawn /\ BoxesDrawn

Secrets == OneCall /\ AfterStores /\ WritesSafe /\ DrawnOnly

\* What was drawn stays drawn.
LEMMA StillDrawn ==
    ASSUME NEW n \in [Clients -> Nat], NEW m \in [Clients -> Nat],
           \A c \in Clients : n[c] <= m[c]
    PROVE  /\ \A x \in Draws : Drawn(n, x) => Drawn(m, x)
           /\ \A req \in Reqs \cup {Null} : DrawnRequest(n, req) => DrawnRequest(m, req)
           /\ \A res \in Resps \cup {Null} : DrawnResponse(n, res) => DrawnResponse(m, res)
           /\ \A ws \in Seq(Statements) : DrawnWrites(n, ws) => DrawnWrites(m, ws)
           /\ \A d : DrawnRows(n, d) => DrawnRows(m, d)
           /\ \A box \in Seq(Msgs) : DrawnBox(n, box) => DrawnBox(m, box)
<1>1. ASSUME NEW x \in Draws, Drawn(n, x) PROVE Drawn(m, x)
  BY <1>1, MaxDrawsAssumption DEF Drawn, Draws
<1>2. ASSUME NEW req \in Reqs \cup {Null}, DrawnRequest(n, req)
      PROVE  DrawnRequest(m, req)
  BY <1>1, <1>2 DEF DrawnRequest, Reqs, H!Requests
<1>3. ASSUME NEW res \in Resps \cup {Null}, DrawnResponse(n, res)
      PROVE  DrawnResponse(m, res)
  BY <1>1, <1>3 DEF DrawnResponse, Resps, H!Responses, H!Messages
<1>4. ASSUME NEW ws \in Seq(Statements), DrawnWrites(n, ws) PROVE DrawnWrites(m, ws)
  <2> SUFFICES ASSUME NEW i \in DOMAIN ws, ws[i].do = "createConvo"
               PROVE  Drawn(m, ws[i].id)
    BY DEF DrawnWrites
  <2>1. ws[i] \in Statements
    OBVIOUS
  <2>2. ws[i].id \in Draws
    BY <2>1 DEF Statements
  <2> QED
    BY <1>1, <1>4, <2>2 DEF DrawnWrites
<1>5. ASSUME NEW d, DrawnRows(n, d) PROVE DrawnRows(m, d)
  BY <1>1, <1>5 DEF DrawnRows
<1>6. ASSUME NEW box \in Seq(Msgs), DrawnBox(n, box) PROVE DrawnBox(m, box)
  <2>1. \A i \in DOMAIN box : box[i] \in Msgs
    OBVIOUS
  <2> QED
    BY <1>1, <1>6, <2>1 DEF DrawnBox, Msgs, H!Messages
<1> QED
  BY <1>1, <1>2, <1>3, <1>4, <1>5, <1>6

\* A call that starts keeps the invariant if what it is going to do is safe.
LEMMA BeginSafe ==
    ASSUME IInv, IInv', Secrets, NEW c \in Clients, NEW w \in Workers, NEW call,
           Begin(c, w, call),
           \A q \in Clients : draws[q] <= draws'[q],
           SafeWrites(db[c], call.writes), Stores(call.after),
           DrawnWrites(draws', call.writes), DrawnRequest(draws', call.ask)
    PROVE  Secrets'
<1> USE DEF IInv
<1>0. /\ op \in [Clients -> [Workers -> Calls]]
      /\ op' = [op EXCEPT ![c][w] = call]
      /\ UNCHANGED <<db, hubConn, conn, pending, sent, faults>>
      /\ \A v \in Workers : op[c][v] = Idle
  BY DEF TypeOK, Begin, MutexFree
<1>1. OneCall'
  BY <1>0 DEF Secrets, OneCall
<1>2. \A q \in Clients, v \in Workers :
         \/ q = c /\ v = w /\ op'[q][v] = call
         \/ op'[q][v] = op[q][v]
  BY <1>0
<1>3. AfterStores'
  BY <1>2 DEF Secrets, AfterStores
<1>4. WritesSafe'
  BY <1>0, <1>2 DEF Secrets, WritesSafe
<1>5. DrawnOnly'
  <2>1. draws \in [Clients -> Nat] /\ draws' \in [Clients -> Nat]
    BY MaxDrawsAssumption DEF TypeOK
  <2>2. RowsDrawn'
    BY <1>0, <2>1, StillDrawn DEF Secrets, DrawnOnly, RowsDrawn
  <2>3. CallsDrawn'
    <3> SUFFICES ASSUME NEW q \in Clients, NEW v \in Workers
                 PROVE  /\ DrawnWrites(draws', op'[q][v].writes)
                        /\ DrawnRequest(draws', op'[q][v].ask)
      BY DEF CallsDrawn
    <3>1. op[q][v].writes \in Seq(Statements) /\ op[q][v].ask \in Reqs \cup {Null}
      BY <1>0 DEF Calls
    <3>2. DrawnWrites(draws, op[q][v].writes) /\ DrawnRequest(draws, op[q][v].ask)
      BY DEF Secrets, DrawnOnly, CallsDrawn
    <3>3. DrawnWrites(draws', op[q][v].writes)
      <4>1. \A ws \in Seq(Statements) : DrawnWrites(draws, ws) => DrawnWrites(draws', ws)
        BY <2>1, StillDrawn
      <4> QED
        BY <3>1, <3>2, <4>1
    <3>4. DrawnRequest(draws', op[q][v].ask)
      BY <2>1, <3>1, <3>2, StillDrawn
    <3> QED
      BY <1>2, <3>3, <3>4
  <2>4. WiresDrawn'
    <3> SUFFICES ASSUME NEW k \in Conns
                 PROVE  DrawnRequest(draws', conn[k].req) /\ DrawnResponse(draws', conn[k].res)
      BY <1>0 DEF WiresDrawn
    <3>1. conn[k].req \in Reqs \cup {Null} /\ conn[k].res \in Resps \cup {Null}
      BY DEF TypeOK, Wires
    <3> QED
      BY <2>1, <3>1, StillDrawn DEF Secrets, DrawnOnly, WiresDrawn
  <2>5. BoxesDrawn'
    <3> SUFFICES ASSUME NEW q \in Clients PROVE DrawnBox(draws', pending[q])
      BY <1>0 DEF BoxesDrawn
    <3>1. pending[q] \in Seq(Msgs)
      BY DEF TypeOK
    <3> QED
      BY <2>1, <3>1, StillDrawn DEF Secrets, DrawnOnly, BoxesDrawn
  <2> QED
    BY <2>2, <2>3, <2>4, <2>5 DEF DrawnOnly
<1> QED
  BY <1>1, <1>3, <1>4, <1>5 DEF Secrets

\* A user's call.
LEMMA CallsSafe ==
    ASSUME IInv, IInv', Secrets, NEW c \in Clients, NEW w \in Workers, NEW p \in Clients,
           \/ aliceAddContact(c, w, p)
           \/ bobAcceptContact(c, w, p)
           \/ doDeleteContact(c, w, p)
           \/ \E size \in Sizes :
                 \/ sendNewThread(c, w, p, size)
                 \/ \E id \in Draws : sendInConvo(c, w, id, p, size)
           \/ getNextMessage(c, w)
    PROVE  Secrets'
<1>0. db[c] \in Databases /\ draws \in [Clients -> 0 .. MaxDraws]
  BY DEF IInv, TypeOK
<1>01. ASSUME Draw(c)
      PROVE  /\ \A q \in Clients : draws[q] <= draws'[q]
             /\ Fresh(c) \in Draws
             /\ db[c].convos[Fresh(c)] = Null
             /\ Drawn(draws', Fresh(c))
  <2>1. draws' = [draws EXCEPT ![c] = draws[c] + 1]
    BY <1>01 DEF Draw
  <2>2. \A q \in Clients : draws[q] \in Nat
    BY <1>0, MaxDrawsAssumption
  <2>3. draws'[c] = draws[c] + 1
    BY <1>0, <2>1
  <2>4. \A q \in Clients : draws[q] <= draws'[q]
    BY <1>0, <2>1, <2>2
  <2>5. Fresh(c) \in Draws
    BY <1>01, DrawType DEF IInv
  <2>6. ~Drawn(draws, Fresh(c)) /\ Drawn(draws', Fresh(c))
    BY <2>2, <2>3 DEF Drawn, Fresh
  <2>7. db[c].convos[Fresh(c)] = Null
    BY <2>5, <2>6 DEF Secrets, DrawnOnly, RowsDrawn, DrawnRows
  <2> QED
    BY <2>4, <2>5, <2>6, <2>7
<1>02. ASSUME UNCHANGED draws PROVE \A q \in Clients : draws[q] <= draws'[q]
  BY <1>0, <1>02, MaxDrawsAssumption
<1>03. Stores(<<>>) /\ DrawnWrites(draws', <<>>) /\ DrawnRequest(draws', Null)
  BY DEF Stores, DrawnWrites, DrawnRequest
<1>04. \A st : st.do # "createConvo" => DrawnWrites(draws', <<st>>)
  BY DEF DrawnWrites
<1>05. \A writes, ask, after :
         /\ Call(writes, ask, after).writes = writes
         /\ Call(writes, ask, after).ask = ask
         /\ Call(writes, ask, after).after = after
  BY DEF Call
<1>06. \A to, x, ct, fits : Drawn(draws', x) =>
         DrawnRequest(draws', H!SendMessage(to, x, ct, fits))
  BY DEF DrawnRequest, H!SendMessage
<1>07. ASSUME NEW x, NEW ct, Drawn(draws', x) PROVE DrawnRequest(draws', ToHub(x, ct))
  BY <1>03, <1>06, <1>07 DEF ToHub
<1>1. CASE aliceAddContact(c, w, p)
  <2> DEFINE st == addContact(p, Fresh(c))
             ask == H!SendMessage(p, Fresh(c), FirstHandshakeMessage(Fresh(c)), "hex" \in Mended)
  <2>1. Draw(c) /\ Begin(c, w, Call(<<st>>, ask, <<>>))
    BY <1>1 DEF aliceAddContact
  <2>2. SafeWrites(db[c], <<st>>)
    BY AlwaysAdvance, SafeSequences
  <2>3. DrawnWrites(draws', <<st>>)
    BY <1>04 DEF addContact
  <2>4. DrawnRequest(draws', ask)
    BY <1>01, <1>06, <2>1
  <2> HIDE DEF st, ask
  <2> QED
    BY <1>05, <1>01, <1>03, <2>1, <2>2, <2>3, <2>4, BeginSafe
<1>2. CASE bobAcceptContact(c, w, p)
  <2> DEFINE blob == db[c].contacts[p].blob
             st == finalizeContact(p, ThreadState(blob.init, Fresh(c), "responder"),
                                      ThreadState(blob.init, Fresh(c), "initiator"))
             ask == IF "forward" \in Mended
                    THEN H!SendMessage(p, Fresh(c),
                            SecondHandshakeMessage(blob, Fresh(c)), TRUE)
                    ELSE Null
  <2>1. Draw(c) /\ Begin(c, w, Call(<<st>>, ask, <<>>))
    BY <1>2 DEF bobAcceptContact
  <2>2. ~IsAdded(db[c], p)
    BY <1>2 DEF bobAcceptContact, getStateContact, IsAdded
  <2>3. Advances(db[c], st)
    BY <2>2 DEF Advances, finalizeContact
  <2>4. SafeWrites(db[c], <<st>>)
    BY <2>3, SafeSequences
  <2>5. DrawnWrites(draws', <<st>>)
    BY <1>04 DEF finalizeContact
  <2>6. DrawnRequest(draws', ask)
    BY <1>01, <1>03, <1>06, <2>1
  <2> HIDE DEF st, ask
  <2> QED
    BY <1>05, <1>01, <1>03, <2>1, <2>4, <2>5, <2>6, BeginSafe
<1>3. CASE doDeleteContact(c, w, p)
  <2> DEFINE st == deleteContact(p)
  <2>1. Begin(c, w, Call(<<st>>, Null, <<>>)) /\ UNCHANGED draws
    BY <1>3 DEF doDeleteContact
  <2>2. SafeWrites(db[c], <<st>>)
    BY AlwaysAdvance, SafeSequences
  <2>3. DrawnWrites(draws', <<st>>)
    BY <1>04 DEF deleteContact
  <2> QED
    BY <1>05, <1>03, <1>02, <2>1, <2>2, <2>3, BeginSafe
<1>4. ASSUME NEW size \in Sizes, sendNewThread(c, w, p, size) PROVE Secrets'
  <2> DEFINE id == Fresh(c)
             t == Typed(c, size)
             t1 == db[c].contacts[p].c1
             s1 == InitiatorThread(t1)
             s2 == ResponderThread(t1)
             ratchet == updateThreadRatchetStates(p, Ratchet(t1), Null)
             create == createConvo(id, p, t, s1, s2)
             keys == updateSessionKeys(id, p, AfterAEAD(s1), Null)
             ask == ToHub(id, encryptMessage(s1, id, c, p, t))
  <2>1. /\ threadRatchetStatesReady(db[c], p)
        /\ Draw(c)
        /\ Begin(c, w, Call(<<ratchet, create, keys>>, ask, <<>>))
    BY <1>4 DEF sendNewThread
  <2>2. t1 \in ThreadStates
    BY <1>0, <2>1, ReadyHasStates
  <2>3. Advances(db[c], ratchet) /\ Advances(db[c], create) /\ Advances(db[c], keys)
    BY <1>0, <1>01, <2>1, <2>2, RatchetsAdvance
  <2>4. /\ ratchet.do = "updateThreadRatchetStates"
        /\ create.do = "createConvo" /\ create.id = id
        /\ keys.do = "updateSessionKeys"
    BY DEF updateThreadRatchetStates, createConvo, updateSessionKeys
  <2>5. DrawnRequest(draws', ask)
    BY <1>01, <1>07, <2>1
  <2> HIDE DEF ratchet, create, keys, ask
  <2>6. ~Clash(ratchet, create) /\ ~Clash(ratchet, keys) /\ ~Clash(create, keys)
    BY <2>4 DEF Clash, ContactStatements
  <2>7. SafeWrites(db[c], <<ratchet, create, keys>>)
    BY <2>3, <2>6, SafeSequences
  <2>8. DrawnWrites(draws', <<ratchet, create, keys>>)
    BY <1>01, <2>1, <2>4 DEF DrawnWrites
  <2> QED
    BY <1>05, <1>01, <1>03, <2>1, <2>5, <2>7, <2>8, BeginSafe
<1>5. ASSUME NEW size \in Sizes, NEW id \in Draws, sendInConvo(c, w, id, p, size)
      PROVE  Secrets'
  <2> DEFINE t == Typed(c, size)
             s1 == db[c].convos[id].c1
             keys == updateSessionKeys(id, p, AfterAEAD(s1), Null)
             ask == ToHub(id, encryptMessage(s1, id, c, p, t))
             after == IF "todo" \in Mended
                      THEN <<storeMessage(id, TRUE, t)>> ELSE <<>>
  <2>1. /\ db[c].convos[id] # Null
        /\ Draw(c)
        /\ Begin(c, w, Call(<<keys>>, ask, after))
    BY <1>5 DEF sendInConvo, sessionKeysFound
  <2>2. Advances(db[c], keys)
    BY <1>0, <2>1, RatchetsAdvance
  <2>3. SafeWrites(db[c], <<keys>>)
    BY <2>2, SafeSequences
  <2>4. DrawnWrites(draws', <<keys>>)
    BY <1>04 DEF updateSessionKeys
  <2>5. Drawn(draws', id)
    <3>1. Drawn(draws, id)
      BY <2>1 DEF Secrets, DrawnOnly, RowsDrawn, DrawnRows
    <3>2. draws \in [Clients -> Nat] /\ draws' \in [Clients -> Nat]
      BY MaxDrawsAssumption DEF IInv, TypeOK
    <3> QED
      BY <1>01, <2>1, <3>1, <3>2, StillDrawn
  <2>6. DrawnRequest(draws', ask)
    BY <1>07, <2>5
  <2>7. Stores(after)
    BY DEF Stores, storeMessage
  <2> QED
    BY <1>05, <1>01, <2>1, <2>3, <2>4, <2>6, <2>7, BeginSafe
<1>6. CASE getNextMessage(c, w)
  <2>1. Begin(c, w, Call(<<>>, H!GetNextMessage, <<>>)) /\ UNCHANGED draws
    BY <1>6 DEF getNextMessage
  <2>2. DrawnRequest(draws', H!GetNextMessage)
    BY DEF DrawnRequest, H!GetNextMessage
  <2> QED
    BY <1>05, <1>03, <1>02, <2>1, <2>2, SafeSequences, BeginSafe
<1> QED
  BY <1>1, <1>2, <1>3, <1>4, <1>5, <1>6

\* A statement is executed.
LEMMA WriteSafe ==
    ASSUME IInv, Secrets, NEW c \in Clients, NEW w \in Workers, Write(c, w)
    PROVE  /\ Secrets'
           /\ \A q \in Clients : q # c => db'[q] = db[q]
           /\ Advanced(db[c], db'[c])
<1> DEFINE ws == op[c][w].writes
           st == Head(ws)
<1>0. /\ op \in [Clients -> [Workers -> Calls]] /\ db \in [Clients -> Databases]
      /\ op[c][w] \in Calls /\ db[c] \in Databases
      /\ ws \in Seq(Statements) /\ ws # <<>>
      /\ st \in Statements /\ st = ws[1] /\ 1 \in DOMAIN ws
      /\ UNCHANGED <<draws, conn, pending>>
  <2>1. op \in [Clients -> [Workers -> Calls]] /\ db \in [Clients -> Databases]
    BY DEF IInv, TypeOK
  <2>2. ws \in Seq(Statements) /\ ws # <<>>
    BY <2>1 DEF Calls, Write
  <2> QED
    BY <2>1, <2>2 DEF Write
<1>1. SafeWrites(db[c], ws)
  BY DEF Secrets, WritesSafe
<1>2. ASSUME NEW v \in Workers, v # w PROVE op[c][v] = Idle
  <2>1. op[c][w] # Idle
    BY <1>0 DEF Idle, Call
  <2> QED
    BY <1>2, <2>1 DEF Secrets, OneCall
<1>3. /\ SafeWrites(db[c], <<>>) /\ SafeWrites(db'[c], <<>>)
      /\ Stores(<<>>) /\ DrawnWrites(draws, <<>>) /\ DrawnRequest(draws, Null)
  BY SafeSequences DEF Stores, DrawnWrites, DrawnRequest
<1>4. Idle.writes = <<>> /\ Idle.after = <<>> /\ Idle.ask = Null
  BY DEF Idle, Call
<1>5. \/ /\ op' = [op EXCEPT ![c][w] = Idle] /\ db' = db
      \/ /\ ~Violates(db[c], st)
         /\ op' = [op EXCEPT ![c][w] = [op[c][w] EXCEPT !.writes = Tail(ws)]]
         /\ db' = [db EXCEPT ![c] = Executed(db[c], st)]
  BY <1>0 DEF Write, Calls
<1>6. CASE op' = [op EXCEPT ![c][w] = Idle] /\ db' = db
  <2>1. \A q \in Clients, v \in Workers : op'[q][v] = op[q][v] \/ op'[q][v] = Idle
    BY <1>0, <1>6
  <2>2. OneCall' /\ AfterStores'
    BY <1>3, <1>4, <2>1 DEF Secrets, OneCall, AfterStores
  <2>3. WritesSafe'
    BY <1>4, <1>6, <2>1, SafeSequences DEF Secrets, WritesSafe
  <2>4. DrawnOnly'
    BY <1>0, <1>3, <1>4, <1>6, <2>1
       DEF Secrets, DrawnOnly, RowsDrawn, CallsDrawn, WiresDrawn, BoxesDrawn
  <2>5. Advanced(db[c], db'[c])
    BY <1>0, <1>6, TurnsType DEF Advanced, IsAdded
  <2> QED
    BY <1>6, <2>2, <2>3, <2>4, <2>5 DEF Secrets
<1>7. CASE /\ ~Violates(db[c], st)
           /\ op' = [op EXCEPT ![c][w] = [op[c][w] EXCEPT !.writes = Tail(ws)]]
           /\ db' = [db EXCEPT ![c] = Executed(db[c], st)]
  <2> DEFINE e == Executed(db[c], st)
             left == [op[c][w] EXCEPT !.writes = Tail(ws)]
  <2>1. /\ left.writes = Tail(ws) /\ left.ask = op[c][w].ask
        /\ left.after = op[c][w].after
    BY <1>0 DEF Calls
  <2>2. /\ op'[c][w] = left /\ db'[c] = e
        /\ \A v \in Workers : v # w => op'[c][v] = Idle
        /\ \A q \in Clients : q # c => op'[q] = op[q] /\ db'[q] = db[q]
    BY <1>0, <1>2, <1>7
  <2> HIDE DEF left, e
  <2>3. OneCall'
    BY <2>2 DEF Secrets, OneCall
  <2>4. AfterStores'
    BY <1>3, <1>4, <2>1, <2>2 DEF Secrets, AfterStores
  <2>5. WritesSafe'
    <3>1. SafeWrites(e, Tail(ws))
      BY <1>0, <1>1, SafeTail DEF e
    <3> QED
      BY <1>3, <1>4, <2>1, <2>2, <3>1 DEF Secrets, WritesSafe
  <2>6. RowsDrawn'
    <3> SUFFICES ASSUME NEW x \in Draws, e.convos[x] # Null PROVE Drawn(draws, x)
      BY <1>0, <2>2 DEF Secrets, DrawnOnly, RowsDrawn, DrawnRows
    <3>1. CASE db[c].convos[x] # Null
      BY <3>1 DEF Secrets, DrawnOnly, RowsDrawn, DrawnRows
    <3>2. CASE db[c].convos[x] = Null
      <4>1. st.do = "createConvo" /\ st.id = x
        BY <1>0, <3>2, OnlyCreateAdds DEF e
      <4> QED
        BY <1>0, <4>1 DEF Secrets, DrawnOnly, CallsDrawn, DrawnWrites
    <3> QED
      BY <3>1, <3>2
  <2>7. CallsDrawn'
    <3>1. DrawnWrites(draws, Tail(ws))
      <4>1. \A i \in DOMAIN Tail(ws) : i + 1 \in DOMAIN ws /\ Tail(ws)[i] = ws[i + 1]
        BY <1>0
      <4> QED
        BY <4>1 DEF Secrets, DrawnOnly, CallsDrawn, DrawnWrites
    <3> QED
      BY <1>0, <1>3, <1>4, <2>1, <2>2, <3>1 DEF Secrets, DrawnOnly, CallsDrawn
  <2>8. WiresDrawn' /\ BoxesDrawn'
    BY <1>0 DEF Secrets, DrawnOnly, WiresDrawn, BoxesDrawn
  <2>9. Advanced(db[c], e)
    BY <1>0, <1>1, <1>7, StatementAdvances DEF SafeWrites, e
  <2> QED
    BY <2>2, <2>3, <2>4, <2>5, <2>6, <2>7, <2>8, <2>9 DEF Secrets, DrawnOnly
<1> QED
  BY <1>5, <1>6, <1>7

\* A call that comes to its end keeps the invariant.
LEMMA EndSafe ==
    ASSUME Secrets, NEW c \in Clients, UNCHANGED <<db, draws, pending>>,
           \A q \in Clients, v \in Workers : op'[q][v] = op[q][v] \/ op'[q][v] = Idle,
           WiresDrawn'
    PROVE  Secrets'
<1>1. /\ Idle.writes = <<>> /\ Idle.after = <<>> /\ Idle.ask = Null
      /\ Stores(<<>>) /\ DrawnWrites(draws, <<>>) /\ DrawnRequest(draws, Null)
  BY DEF Idle, Call, Stores, DrawnWrites, DrawnRequest
<1>2. OneCall' /\ AfterStores'
  BY <1>1 DEF Secrets, OneCall, AfterStores
<1>3. WritesSafe'
  BY <1>1, SafeSequences DEF Secrets, WritesSafe
<1>4. RowsDrawn' /\ CallsDrawn' /\ BoxesDrawn'
  BY <1>1 DEF Secrets, DrawnOnly, RowsDrawn, CallsDrawn, BoxesDrawn
<1> QED
  BY <1>2, <1>3, <1>4 DEF Secrets, DrawnOnly

\* The request goes out, the answer comes in, or the exchange fails.
LEMMA ExchangeSafe ==
    ASSUME IInv, Secrets, NEW c \in Clients, NEW w \in Workers,
           Ask(c, w) \/ Receive(c, w) \/ ConnError(c, w) \/ ConnReset(c, w)
    PROVE  Secrets'
<1>0. /\ op \in [Clients -> [Workers -> Calls]] /\ conn \in [Conns -> Wires]
      /\ db[c] \in Databases
  BY DEF IInv, TypeOK
<1>1. CASE Ask(c, w)
  <2>1. DrawnRequest(draws, op[c][w].ask) /\ DrawnResponse(draws, Null)
    BY DEF Secrets, DrawnOnly, CallsDrawn, DrawnResponse
  <2>2. PICK k \in Conns :
           conn' = [conn EXCEPT ![k] = [owner |-> c, up |-> TRUE,
                                        req |-> op[c][w].ask, res |-> Null]]
    BY <1>1 DEF Ask
  <2>3. UNCHANGED <<db, op, draws, pending>>
    BY <1>1 DEF Ask
  <2>4. WiresDrawn'
    BY <1>0, <2>1, <2>2, <2>3 DEF Secrets, DrawnOnly, WiresDrawn
  <2> QED
    BY <2>3, <2>4, EndSafe
<1>2. CASE Receive(c, w)
  <2> DEFINE k == hubConn[c]
             res == conn[k].res
             call == op'[c][w]
             ws == Dispatch(db[c], c, res.msg)
  <2>1. /\ k \in Conns /\ res \in Resps
        /\ conn' = [conn EXCEPT ![k] = [conn[k] EXCEPT !.res = Null]]
        /\ UNCHANGED <<db, draws, pending>>
        /\ op[c][w] # Idle
    BY <1>2 DEF Receive, Exchanging, AtHub, IInv, TypeOK, Wires, Idle, Call
  <2>2. WiresDrawn'
    <3>1. DrawnResponse(draws, Null)
      BY DEF DrawnResponse
    <3>2. conn[k] \in Wires
      BY <1>0, <2>1
    <3>3. /\ [conn[k] EXCEPT !.res = Null].req = conn[k].req
          /\ [conn[k] EXCEPT !.res = Null].res = Null
      BY <3>2 DEF Wires
    <3> QED
      BY <1>0, <2>1, <3>1, <3>3 DEF Secrets, DrawnOnly, WiresDrawn
  <2>3. \/ op' = [op EXCEPT ![c][w] = Idle]
        \/ op' = [op EXCEPT ![c][w] = Call(op[c][w].after, Null, <<>>)]
        \/ /\ res.type # "success" /\ res.msg # Null
           /\ op' = [op EXCEPT ![c][w] = Call(ws, Null, <<>>)]
    BY <1>2 DEF Receive
  <2>4. CASE op' = [op EXCEPT ![c][w] = Idle]
    <3>1. \A q \in Clients, v \in Workers : op'[q][v] = op[q][v] \/ op'[q][v] = Idle
      BY <1>0, <2>4
    <3> QED
      BY <2>1, <2>2, <3>1, EndSafe
  <2>5. ASSUME NEW writes, op' = [op EXCEPT ![c][w] = Call(writes, Null, <<>>)],
               SafeWrites(db[c], writes), DrawnWrites(draws, writes)
        PROVE  Secrets'
    <3>1. \A q \in Clients, v \in Workers :
             \/ q = c /\ v = w /\ op'[q][v] = Call(writes, Null, <<>>)
             \/ op'[q][v] = op[q][v]
      BY <1>0, <2>5
    <3>2. /\ Call(writes, Null, <<>>).writes = writes
          /\ Call(writes, Null, <<>>).ask = Null
          /\ Call(writes, Null, <<>>).after = <<>>
      BY DEF Call
    <3>3. Stores(<<>>) /\ DrawnRequest(draws, Null)
      BY DEF Stores, DrawnRequest
    <3>4. OneCall'
      BY <2>1, <3>1 DEF Secrets, OneCall
    <3>5. AfterStores'
      BY <3>1, <3>2, <3>3 DEF Secrets, AfterStores
    <3>6. WritesSafe'
      BY <2>1, <2>5, <3>1, <3>2 DEF Secrets, WritesSafe
    <3>7. CallsDrawn'
      BY <2>1, <2>5, <3>1, <3>2, <3>3 DEF Secrets, DrawnOnly, CallsDrawn
    <3>8. RowsDrawn' /\ BoxesDrawn'
      BY <2>1 DEF Secrets, DrawnOnly, RowsDrawn, BoxesDrawn
    <3> QED
      BY <2>2, <3>4, <3>5, <3>6, <3>7, <3>8 DEF Secrets, DrawnOnly
  <2>6. CASE op' = [op EXCEPT ![c][w] = Call(op[c][w].after, Null, <<>>)]
    <3> DEFINE after == op[c][w].after
    <3>1. Stores(after)
      BY DEF Secrets, AfterStores
    <3>2. SafeWrites(db[c], after)
      BY <3>1 DEF SafeWrites, Stores, Advances
    <3>3. DrawnWrites(draws, after)
      BY <3>1 DEF DrawnWrites, Stores
    <3> QED
      BY <2>5, <2>6, <3>2, <3>3
  <2>7. CASE /\ res.type # "success" /\ res.msg # Null
             /\ op' = [op EXCEPT ![c][w] = Call(ws, Null, <<>>)]
    <3>1. res.msg \in Msgs /\ res.type = "message" /\ res # Null
      BY <1>2, <2>1, <2>7 DEF Resps, H!Responses, Msgs, Receive
    <3>2. Drawn(draws, res.msg.convo)
      BY <2>1, <2>7, <3>1 DEF Secrets, DrawnOnly, WiresDrawn, DrawnResponse
    <3>3. SafeWrites(db[c], ws)
      BY <1>0, <3>1, DispatchSafe
    <3>4. DrawnWrites(draws, ws)
      <4>1. \A i \in DOMAIN ws : ws[i].do = "createConvo" => ws[i].id = res.msg.convo
        BY <1>0, <3>1, DispatchSafe
      <4> QED
        BY <3>2, <4>1 DEF DrawnWrites
    <3> HIDE DEF ws
    <3> QED
      BY <2>5, <2>7, <3>3, <3>4
  <2> QED
    BY <2>3, <2>4, <2>6, <2>7
<1>3. CASE ConnError(c, w) \/ ConnReset(c, w)
  <2>1. op' = [op EXCEPT ![c][w] = Idle] /\ UNCHANGED <<db, draws, conn, pending>>
    BY <1>3 DEF ConnError, ConnReset, GiveUp
  <2>2. \A q \in Clients, v \in Workers : op'[q][v] = op[q][v] \/ op'[q][v] = Idle
    BY <1>0, <2>1
  <2>3. WiresDrawn'
    BY <2>1 DEF Secrets, DrawnOnly, WiresDrawn
  <2> QED
    BY <2>1, <2>2, <2>3, EndSafe
<1> QED
  BY <1>1, <1>2, <1>3

\* A step of the hub, or a crash of a client.
LEMMA HubSafe ==
    ASSUME IInv, Secrets,
           \/ \E c \in Clients : Crash(c)
           \/ \E k \in Conns : handleClient(k) \/ hangUp(k)
           \/ hubRestart
    PROVE  Secrets'
<1>0. /\ op \in [Clients -> [Workers -> Calls]] /\ conn \in [Conns -> Wires]
      /\ pending \in [Clients -> Seq(Msgs)]
  BY DEF IInv, TypeOK
<1>1. DrawnRequest(draws, Null) /\ DrawnResponse(draws, Null) /\ DrawnBox(draws, <<>>)
  BY DEF DrawnRequest, DrawnResponse, DrawnBox
<1>2. ASSUME NEW c \in Clients, Crash(c) PROVE Secrets'
  <2>1. /\ op' = [op EXCEPT ![c] = [w \in Workers |-> Idle]]
        /\ UNCHANGED <<db, draws, conn, pending>>
    BY <1>2 DEF Crash
  <2>2. \A q \in Clients, v \in Workers : op'[q][v] = op[q][v] \/ op'[q][v] = Idle
    BY <1>0, <2>1
  <2>3. WiresDrawn'
    BY <2>1 DEF Secrets, DrawnOnly, WiresDrawn
  <2> QED
    BY <2>1, <2>2, <2>3, EndSafe
<1>3. ASSUME UNCHANGED <<db, op, draws>>, WiresDrawn', BoxesDrawn' PROVE Secrets'
  BY <1>3 DEF Secrets, OneCall, AfterStores, WritesSafe, DrawnOnly, RowsDrawn, CallsDrawn
<1>4. ASSUME NEW k \in Conns, handleClient(k) PROVE Secrets'
  <2> DEFINE who == conn[k].owner
             req == conn[k].req
             res == H!Answer(pending, who, req)
  <2>1. /\ who \in Clients /\ req \in Reqs /\ req # Null
        /\ conn[k] \in Wires /\ pending[who] \in Seq(Msgs)
        /\ DrawnRequest(draws, req) /\ DrawnBox(draws, pending[who])
        /\ UNCHANGED <<db, op, draws>>
    BY <1>0, <1>4 DEF handleClient, IInv, RequestsOwned, Wires, Secrets,
                      DrawnOnly, WiresDrawn, BoxesDrawn
  <2>2. pending[who] # <<>> =>
           Drawn(draws, Head(pending[who]).convo) /\ DrawnBox(draws, Tail(pending[who]))
    <3> SUFFICES ASSUME pending[who] # <<>>
                 PROVE  /\ Drawn(draws, Head(pending[who]).convo)
                        /\ DrawnBox(draws, Tail(pending[who]))
      OBVIOUS
    <3>1. /\ 1 \in DOMAIN pending[who] /\ Head(pending[who]) = pending[who][1]
          /\ \A i \in DOMAIN Tail(pending[who]) :
                i + 1 \in DOMAIN pending[who]
                /\ Tail(pending[who])[i] = pending[who][i + 1]
      BY <2>1
    <3> QED
      BY <2>1, <3>1 DEF DrawnBox
  <2>3. WiresDrawn'
    <3>1. DrawnResponse(draws, res)
      BY <2>1, <2>2 DEF H!Answer, DrawnResponse
    <3>2. conn' = [conn EXCEPT ![k] = [conn[k] EXCEPT !.req = Null, !.res = res]]
      BY <1>4 DEF handleClient
    <3>3. /\ [conn[k] EXCEPT !.req = Null, !.res = res].req = Null
          /\ [conn[k] EXCEPT !.req = Null, !.res = res].res = res
      BY <2>1 DEF Wires
    <3> HIDE DEF res
    <3> QED
      BY <1>0, <1>1, <2>1, <3>1, <3>2, <3>3 DEF Secrets, DrawnOnly, WiresDrawn
  <2>4. BoxesDrawn'
    <3>1. CASE req.type = "SendMessage" /\ req.fits
      <4> DEFINE m == [from |-> who, convo |-> req.convo, content |-> req.content]
                 box == pending[req.to]
      <4>1. req.to \in Clients /\ Drawn(draws, m.convo) /\ m \in Msgs
        BY <2>1, <3>1 DEF DrawnRequest, Reqs, H!Requests, Msgs, H!Messages
      <4>2. pending' = [pending EXCEPT ![req.to] = Append(box, m)]
        BY <1>4, <3>1 DEF handleClient, H!Served, H!handleSendMessage
      <4> HIDE DEF m
      <4>3. \A i \in DOMAIN Append(box, m) :
               \/ Append(box, m)[i] = m
               \/ i \in DOMAIN box /\ Append(box, m)[i] = box[i]
        BY <1>0, <4>1
      <4>4. DrawnBox(draws, Append(box, m))
        BY <4>1, <4>3 DEF Secrets, DrawnOnly, BoxesDrawn, DrawnBox
      <4> QED
        BY <1>0, <2>1, <4>1, <4>2, <4>4 DEF Secrets, DrawnOnly, BoxesDrawn
    <3>2. CASE req.type # "SendMessage" /\ pending[who] # <<>>
      <4>1. pending' = [pending EXCEPT ![who] = Tail(pending[who])]
        BY <1>4, <3>2 DEF handleClient, H!Served, H!handleGetNextMessage
      <4> QED
        BY <1>0, <2>1, <2>2, <3>2, <4>1 DEF Secrets, DrawnOnly, BoxesDrawn
    <3>3. CASE pending' = pending
      BY <2>1, <3>3 DEF Secrets, DrawnOnly, BoxesDrawn
    <3>4. \/ req.type = "SendMessage" /\ req.fits
          \/ req.type # "SendMessage" /\ pending[who] # <<>>
          \/ pending' = pending
      BY <1>4 DEF handleClient, H!Served, H!handleSendMessage, H!handleGetNextMessage
    <3> QED
      BY <3>1, <3>2, <3>3, <3>4
  <2> QED
    BY <1>3, <2>1, <2>3, <2>4
<1>5. ASSUME NEW k \in Conns, hangUp(k) PROVE Secrets'
  <2>1. conn' = [conn EXCEPT ![k] = NoConn] /\ UNCHANGED <<db, op, draws, pending>>
    BY <1>5 DEF hangUp
  <2>2. WiresDrawn' /\ BoxesDrawn'
    BY <1>0, <1>1, <2>1 DEF NoConn, Secrets, DrawnOnly, WiresDrawn, BoxesDrawn
  <2> QED
    BY <1>3, <2>1, <2>2
<1>6. CASE hubRestart
  <2>1. /\ conn' = [k \in Conns |-> [conn[k] EXCEPT !.up = FALSE, !.req = Null]]
        /\ pending' = [c \in Clients |-> <<>>]
        /\ UNCHANGED <<db, op, draws>>
    BY <1>6 DEF hubRestart
  <2>2. \A k \in Conns :
           /\ [conn[k] EXCEPT !.up = FALSE, !.req = Null].req = Null
           /\ [conn[k] EXCEPT !.up = FALSE, !.req = Null].res = conn[k].res
    BY <1>0 DEF Wires
  <2>3. WiresDrawn' /\ BoxesDrawn'
    BY <1>1, <2>1, <2>2 DEF Secrets, DrawnOnly, WiresDrawn, BoxesDrawn
  <2> QED
    BY <1>3, <2>1, <2>3
<1> QED
  BY <1>2, <1>4, <1>5, <1>6

-----------------------------------------------------------------------------
(* The invariant and the theorem *)

\* A client's database changes only when a call of its own executes a statement
\* (Write), and each statement only moves forward what it changes.
LEMMA DatabasesAdvance ==
    ASSUME IInv, Secrets, [Next]_vars
    PROVE  \A c \in Clients : Advanced(db[c], db'[c])
<1>0. \A c \in Clients : db[c] \in Databases
  BY DEF IInv, TypeOK
<1>1. \A c \in Clients : Advanced(db[c], db[c])
  BY <1>0, TurnsType DEF Advanced, IsAdded
<1>2. ASSUME NEW c \in Clients, NEW w \in Workers, Write(c, w)
      PROVE  \A q \in Clients : Advanced(db[q], db'[q])
  <2>1. Advanced(db[c], db'[c]) /\ \A q \in Clients : q # c => db'[q] = db[q]
    BY <1>2, WriteSafe
  <2> QED
    BY <1>1, <2>1
<1>3. CASE UNCHANGED db
  BY <1>1, <1>3
<1>4. CASE \E c \in Clients, w \in Workers :
              \/ \E p \in Clients \ {c} :
                    \/ aliceAddContact(c, w, p)
                    \/ bobAcceptContact(c, w, p)
                    \/ doDeleteContact(c, w, p)
                    \/ \E size \in Sizes :
                          \/ sendNewThread(c, w, p, size)
                          \/ \E id \in Draws : sendInConvo(c, w, id, p, size)
              \/ getNextMessage(c, w)
  <2>1. ASSUME NEW c \in Clients, NEW w \in Workers, NEW p \in Clients
        PROVE  /\ aliceAddContact(c, w, p) => UNCHANGED db
               /\ bobAcceptContact(c, w, p) => UNCHANGED db
               /\ doDeleteContact(c, w, p) => UNCHANGED db
               /\ getNextMessage(c, w) => UNCHANGED db
    BY DEF Begin, aliceAddContact, bobAcceptContact, doDeleteContact, getNextMessage
  <2>2. ASSUME NEW c \in Clients, NEW w \in Workers, NEW p \in Clients,
               NEW size \in Sizes
        PROVE  /\ sendNewThread(c, w, p, size) => UNCHANGED db
               /\ \A id \in Draws : sendInConvo(c, w, id, p, size) => UNCHANGED db
    BY DEF Begin, sendNewThread, sendInConvo
  <2> QED
    BY <1>3, <1>4, <2>1, <2>2
<1>5. CASE \/ \E c \in Clients, w \in Workers :
                Ask(c, w) \/ Receive(c, w) \/ ConnError(c, w) \/ ConnReset(c, w)
           \/ \E c \in Clients : Crash(c)
           \/ \E k \in Conns : handleClient(k) \/ hangUp(k)
           \/ hubRestart
  BY <1>3, <1>5 DEF Ask, Receive, ConnError, ConnReset, GiveUp, Crash,
                    handleClient, hangUp, hubRestart
<1> QED
  BY <1>2, <1>3, <1>4, <1>5 DEF Next, vars

\* The invariant, which the proofs of other modules start from.
LEMMA SecretsInvariant == Spec => []Secrets
<1>1. Init => Secrets
  <2>1. \A d : SafeWrites(d, <<>>)
    BY SafeSequences
  <2>2. /\ Stores(<<>>) /\ DrawnBox(draws, <<>>) /\ DrawnWrites(draws, <<>>)
        /\ DrawnRequest(draws, Null) /\ DrawnResponse(draws, Null)
    BY DEF Stores, DrawnBox, DrawnWrites, DrawnRequest, DrawnResponse
  <2>3. DrawnRows(draws, EmptyDatabase)
    BY DEF DrawnRows, EmptyDatabase
  <2> QED
    BY <2>1, <2>2, <2>3
       DEF Init, Idle, Call, NoConn, Secrets, OneCall, AfterStores, WritesSafe,
           DrawnOnly, RowsDrawn, CallsDrawn, WiresDrawn, BoxesDrawn
<1>2. IInv /\ IInv' /\ Secrets /\ [Next]_vars => Secrets'
  <2> SUFFICES ASSUME IInv, IInv', Secrets, [Next]_vars PROVE Secrets'
    OBVIOUS
  <2>1. CASE Next
    BY <2>1, CallsSafe, WriteSafe, ExchangeSafe, HubSafe DEF Next
  <2>2. CASE UNCHANGED vars
    BY <2>2 DEF Secrets, OneCall, AfterStores, WritesSafe,
                DrawnOnly, RowsDrawn, CallsDrawn, WiresDrawn, BoxesDrawn, vars
  <2> QED
    BY <2>1, <2>2
<1> QED
  BY <1>1, <1>2, TypeInvariant, PTL DEF Spec

\* Nothing that can happen, a crash between two statements included, puts an
\* older strobe state back into a database or takes a finished contact back to
\* an earlier state of its handshake.
THEOREM SecretsAdvance == Spec => SecretsOnlyAdvance
<1>1. IInv /\ Secrets /\ [Next]_vars =>
         [\A c, p \in Clients : \A x \in Draws :
             LET row  == db[c].contacts[p]    row1 == db'[c].contacts[p]
                 cv   == db[c].convos[x]      cv1  == db'[c].convos[x]
             IN  /\ ContactAdded(c, p) /\ row1 # Null =>
                       /\ row1.tag = 2
                       /\ row.c1.turn <= row1.c1.turn
                       /\ row.c2.turn <= row1.c2.turn
                 /\ cv # Null =>
                       /\ cv1 # Null
                       /\ cv.c1.turn <= cv1.c1.turn
                       /\ cv.c2.turn <= cv1.c2.turn]_vars
  BY DatabasesAdvance DEF Advanced, ContactAdded, IsAdded
<1> QED
  BY <1>1, TypeInvariant, SecretsInvariant, PTL DEF Spec, SecretsOnlyAdvance

-----------------------------------------------------------------------------
(***************************************************************************)
(* No strobe state encrypts two messages (NoKeyReuse) if no client is      *)
(* killed, and none of an initiator's even if clients are                  *)
(* (NoInitiatorKeyReuse).                                                  *)
(*                                                                         *)
(* The argument looks at one client at a time.  Every state it encrypts    *)
(* with derives from its own half of a handshake (Half), which it drew     *)
(* once and for one contact; so does every conversation it keeps.  A       *)
(* database is Clean if all states that were used, or that a conversation  *)
(* holds, come before what the contact of that half creates threads from,  *)
(* no two conversations hold states of one chain, and what a conversation  *)
(* holds was not used.  A call computes its statements from a clean        *)
(* database; they leave a clean database in which the state that the       *)
(* call's ciphertext was made with counts as used (Planned).  In between   *)
(* the database need not be clean, unless the client may be killed there:  *)
(* then only the initiator's states are accounted for (Watched).           *)
(***************************************************************************)

\* The states that are accounted for.
Watched(s) == s.label = "initiatorThread" \/ "crash" \notin Faults

\* The half of the handshake that the side sending with s drew.
Half(s) ==
    IF s.label = "initiatorThread" <=> s.thread.from = "initiator"
    THEN s.thread.init ELSE s.thread.resp

\* What a contact's row creates threads from: its handshake is under way or done.
HasHalf(row) == row # Null /\ row.tag # 1
HalfOf(row) ==
    IF row.tag = 0 THEN row.blob
    ELSE IF row.c1.from = "initiator" THEN row.c1.init ELSE row.c1.resp

\* c1 and c2 are the two states of one handshake.
Twins(row) ==
    /\ row.c1.init = row.c2.init
    /\ row.c1.resp = row.c2.resp
    /\ row.c1.from # row.c2.from

\* The contact creates no more threads with the turn of s, or before it.
Spent(row, s) ==
    HasHalf(row) /\ HalfOf(row) = Half(s) =>
        /\ row.tag = 2
        /\ s.thread.turn <
              (IF s.label = "initiatorThread" THEN row.c1.turn ELSE row.c2.turn)

\* Two states of one direction of one conversation.
SameChain(s, t) ==
    /\ Half(s) = Half(t)
    /\ s.label = t.label
    /\ s.thread.turn = t.thread.turn

\* x is one of the first n draws of c.
DrawnBy(c, n, x) == x.who = c /\ x.no <= n

\* Every contact has a half of its own.
ContactsClean(c, n, d) ==
    \A p \in Clients : HasHalf(d.contacts[p]) =>
        /\ DrawnBy(c, n, HalfOf(d.contacts[p]))
        /\ d.contacts[p].tag = 2 => Twins(d.contacts[p])
        /\ \A q \in Clients :
              HasHalf(d.contacts[q])
              /\ HalfOf(d.contacts[p]) = HalfOf(d.contacts[q]) => p = q

\* No contact can give s again.
KeyClean(c, n, d, s) ==
    Watched(s) =>
        /\ DrawnBy(c, n, Half(s))
        /\ \A p \in Clients : Spent(d.contacts[p], s)

\* No conversation can give s again.
Passed(d, s) ==
    \A x \in Draws :
        d.convos[x] # Null /\ Watched(s) /\ SameChain(d.convos[x].c1, s) =>
            s.turn < d.convos[x].c1.turn

ConvosClean(c, n, d) ==
    \A x \in Draws : d.convos[x] # Null =>
        /\ KeyClean(c, n, d, d.convos[x].c1)
        /\ \A y \in Draws :
              (/\ d.convos[y] # Null
               /\ Watched(d.convos[x].c1)
               /\ SameChain(d.convos[x].c1, d.convos[y].c1)) => x = y

\* The database of c after n draws, when the states in K were used.
Clean(c, n, d, K) ==
    /\ ContactsClean(c, n, d)
    /\ ConvosClean(c, n, d)
    /\ \A s \in K : KeyClean(c, n, d, s) /\ Passed(d, s)

-----------------------------------------------------------------------------
(* Halves *)

\* Neither an AEAD nor a RATCHET changes the half; the two threads that a
\* contact creates have the half of the contact.
LEMMA Halves ==
    /\ \A s \in SessionKeys :
          /\ Half(s) \in Draws
          /\ Half(AfterAEAD(s)) = Half(s)
          /\ AfterAEAD(s).label = s.label
          /\ AfterAEAD(s).thread = s.thread
          /\ AfterAEAD(s).turn = s.turn + 1
          /\ s.turn \in Nat /\ s.thread \in ThreadStates /\ s.thread.turn \in Nat
          /\ s.label \in {"initiatorThread", "responderThread"}
    /\ \A ts \in ThreadStates :
          /\ Half(InitiatorThread(ts)) =
                IF ts.from = "initiator" THEN ts.init ELSE ts.resp
          /\ Half(ResponderThread(ts)) =
                IF ts.from = "initiator" THEN ts.resp ELSE ts.init
          /\ InitiatorThread(ts).label = "initiatorThread"
          /\ InitiatorThread(ts).thread = ts /\ InitiatorThread(ts).turn = 0
          /\ ResponderThread(ts).label = "responderThread"
          /\ ResponderThread(ts).thread = ts /\ ResponderThread(ts).turn = 0
          /\ Ratchet(ts).init = ts.init /\ Ratchet(ts).resp = ts.resp
          /\ Ratchet(ts).from = ts.from
          /\ Ratchet(ts).turn = ts.turn + 1
          /\ ts.turn \in Nat /\ ts.from \in {"initiator", "responder"}
          /\ ts.init \in Draws /\ ts.resp \in Draws
<1>1. ASSUME NEW s \in SessionKeys
      PROVE  /\ Half(s) \in Draws
             /\ Half(AfterAEAD(s)) = Half(s)
             /\ AfterAEAD(s).label = s.label
             /\ AfterAEAD(s).thread = s.thread
             /\ AfterAEAD(s).turn = s.turn + 1
             /\ s.turn \in Nat /\ s.thread \in ThreadStates /\ s.thread.turn \in Nat
             /\ s.label \in {"initiatorThread", "responderThread"}
  <2>1. /\ s.thread \in ThreadStates /\ s.turn \in Nat
        /\ s.label \in {"initiatorThread", "responderThread"}
    BY DEF SessionKeys
  <2>2. /\ s.thread.init \in Draws /\ s.thread.resp \in Draws
        /\ s.thread.turn \in Nat
    BY <2>1 DEF ThreadStates
  <2>3. /\ AfterAEAD(s).label = s.label
        /\ AfterAEAD(s).thread = s.thread
        /\ AfterAEAD(s).turn = s.turn + 1
    BY DEF SessionKeys, AfterAEAD
  <2> QED
    BY <2>1, <2>2, <2>3 DEF Half
<1>2. ASSUME NEW ts \in ThreadStates
      PROVE  /\ Half(InitiatorThread(ts)) =
                   IF ts.from = "initiator" THEN ts.init ELSE ts.resp
             /\ Half(ResponderThread(ts)) =
                   IF ts.from = "initiator" THEN ts.resp ELSE ts.init
             /\ InitiatorThread(ts).label = "initiatorThread"
             /\ InitiatorThread(ts).thread = ts /\ InitiatorThread(ts).turn = 0
             /\ ResponderThread(ts).label = "responderThread"
             /\ ResponderThread(ts).thread = ts /\ ResponderThread(ts).turn = 0
             /\ Ratchet(ts).init = ts.init /\ Ratchet(ts).resp = ts.resp
             /\ Ratchet(ts).from = ts.from
             /\ Ratchet(ts).turn = ts.turn + 1
             /\ ts.turn \in Nat /\ ts.from \in {"initiator", "responder"}
             /\ ts.init \in Draws /\ ts.resp \in Draws
  BY DEF ThreadStates, Half, InitiatorThread, ResponderThread, Ratchet
<1> QED
  BY <1>1, <1>2

-----------------------------------------------------------------------------
(* Clean databases *)

\* A database stays clean when only its titles, messages and c2 columns of
\* conversations change, values are drawn, and fewer states count as used.
LEMMA CleanView ==
    ASSUME NEW c \in Clients, NEW n \in Nat, NEW m \in Nat, n <= m,
           NEW d \in Databases, NEW e \in Databases,
           NEW K \in SUBSET SessionKeys, NEW L \in SUBSET K,
           e.contacts = d.contacts,
           \A x \in Draws : /\ e.convos[x] # Null <=> d.convos[x] # Null
                            /\ d.convos[x] # Null => e.convos[x].c1 = d.convos[x].c1,
           Clean(c, n, d, K)
    PROVE  Clean(c, m, e, L)
<1>1. \A x \in Draws : DrawnBy(c, n, x) => DrawnBy(c, m, x)
  BY MaxDrawsAssumption DEF DrawnBy, Draws
<1>2. \A p \in Clients : HasHalf(d.contacts[p]) => HalfOf(d.contacts[p]) \in Draws
  <2> SUFFICES ASSUME NEW p \in Clients, HasHalf(d.contacts[p])
               PROVE  HalfOf(d.contacts[p]) \in Draws
    OBVIOUS
  <2>1. d.contacts[p] \in ContactRows
    BY DEF Databases, HasHalf
  <2>2. /\ d.contacts[p].tag = 0 => d.contacts[p].blob \in Draws
        /\ d.contacts[p].tag = 0 \/ d.contacts[p].c1 \in ThreadStates
    BY <2>1, RowFields DEF HasHalf
  <2> QED
    BY <2>2, Halves DEF HalfOf
<1>3. ContactsClean(c, m, e)
  BY <1>1, <1>2 DEF Clean, ContactsClean
<1>4. \A s \in SessionKeys : KeyClean(c, n, d, s) => KeyClean(c, m, e, s)
  BY <1>1, Halves DEF KeyClean
<1>5. ConvosClean(c, m, e)
  BY <1>4, FoundHasKeys DEF Clean, ConvosClean
<1>6. \A s \in L : KeyClean(c, m, e, s) /\ Passed(e, s)
  BY <1>4 DEF Clean, Passed
<1> QED
  BY <1>3, <1>5, <1>6 DEF Clean

\* One contact changes; what was spent is spent in the new row.
LEMMA CleanContact ==
    ASSUME NEW c \in Clients, NEW n \in Nat, NEW m \in Nat, n <= m, NEW p \in Clients,
           NEW d \in Databases, NEW e \in Databases, NEW K \in SUBSET SessionKeys,
           e.convos = d.convos,
           \A q \in Clients \ {p} : e.contacts[q] = d.contacts[q],
           HasHalf(e.contacts[p]) =>
              /\ DrawnBy(c, m, HalfOf(e.contacts[p]))
              /\ e.contacts[p].tag = 2 => Twins(e.contacts[p])
              /\ \A q \in Clients \ {p} :
                    HasHalf(d.contacts[q]) => HalfOf(d.contacts[q]) # HalfOf(e.contacts[p]),
           \A s \in SessionKeys :
              KeyClean(c, n, d, s) /\ Watched(s) => Spent(e.contacts[p], s),
           Clean(c, n, d, K)
    PROVE  Clean(c, m, e, K)
<1>0. Clean(c, m, d, K)
  BY CleanView
<1>1. ContactsClean(c, m, e)
  BY <1>0 DEF Clean, ContactsClean
<1>2. \A s \in SessionKeys : KeyClean(c, n, d, s) => KeyClean(c, m, e, s)
  <2>1. \A x \in Draws : DrawnBy(c, n, x) => DrawnBy(c, m, x)
    BY MaxDrawsAssumption DEF DrawnBy, Draws
  <2> QED
    BY <2>1, Halves DEF KeyClean
<1>3. ConvosClean(c, m, e)
  BY <1>2, FoundHasKeys DEF Clean, ConvosClean
<1>4. \A s \in K : KeyClean(c, m, e, s) /\ Passed(e, s)
  BY <1>2 DEF Clean, Passed
<1> QED
  BY <1>1, <1>3, <1>4 DEF Clean

\* s is not used, and nothing of its chain is.
Unused(d, K, s) ==
    Watched(s) =>
        /\ \A x \in Draws : d.convos[x] # Null => ~SameChain(d.convos[x].c1, s)
        /\ \A k \in K : ~SameChain(k, s)

\* A conversation is added that holds an unused state.
LEMMA CleanConvo ==
    ASSUME NEW c \in Clients, NEW n \in Nat, NEW x \in Draws,
           NEW d \in Databases, NEW e \in Databases, NEW K \in SUBSET SessionKeys,
           e.contacts = d.contacts,
           \A y \in Draws \ {x} : e.convos[y] = d.convos[y],
           d.convos[x] = Null, e.convos[x] # Null,
           KeyClean(c, n, d, e.convos[x].c1),
           Unused(d, K, e.convos[x].c1),
           Clean(c, n, d, K)
    PROVE  Clean(c, n, e, K)
<1> DEFINE s1 == e.convos[x].c1
<1>1. ContactsClean(c, n, e)
  BY DEF Clean, ContactsClean
<1>2. \A s : KeyClean(c, n, d, s) => KeyClean(c, n, e, s)
  BY DEF KeyClean
<1>3. \A s, t : SameChain(s, t) => SameChain(t, s) /\ (Watched(s) <=> Watched(t))
  BY DEF SameChain, Watched
<1>4. ConvosClean(c, n, e)
  BY <1>2, <1>3 DEF Clean, ConvosClean, Unused
<1>5. \A s \in K : KeyClean(c, n, e, s) /\ Passed(e, s)
  BY <1>2, <1>3 DEF Clean, Passed, Unused
<1> QED
  BY <1>1, <1>4, <1>5 DEF Clean

\* A conversation is used: its state is replaced by the one after the AEAD,
\* and counts as used.  It was not used before.
LEMMA CleanUse ==
    ASSUME NEW c \in Clients, NEW n \in Nat, NEW x \in Draws,
           NEW d \in Databases, NEW e \in Databases, NEW K \in SUBSET SessionKeys,
           e.contacts = d.contacts,
           \A y \in Draws \ {x} : e.convos[y] = d.convos[y],
           d.convos[x] # Null, e.convos[x] # Null,
           e.convos[x].c1 = AfterAEAD(d.convos[x].c1),
           Clean(c, n, d, K)
    PROVE  /\ Clean(c, n, e, K)
           /\ Clean(c, n, e, K \cup {d.convos[x].c1})
           /\ Watched(d.convos[x].c1) => d.convos[x].c1 \notin K
<1> DEFINE s1 == d.convos[x].c1
           s2 == e.convos[x].c1
<1>0. s1 \in SessionKeys
  BY FoundHasKeys
<1>1. \A s : /\ SameChain(s, s2) <=> SameChain(s, s1)
             /\ SameChain(s2, s) <=> SameChain(s1, s)
             /\ Watched(s2) <=> Watched(s1)
             /\ Spent(s, s2) <=> Spent(s, s1)
             /\ s2.turn = s1.turn + 1 /\ s1.turn \in Nat
             /\ Half(s2) = Half(s1)
  BY <1>0, Halves DEF SameChain, Watched, Spent
<1>2. ContactsClean(c, n, e)
  BY DEF Clean, ContactsClean
<1>3. \A s : KeyClean(c, n, d, s) => KeyClean(c, n, e, s)
  BY DEF KeyClean
<1>4. KeyClean(c, n, d, s1) /\ KeyClean(c, n, e, s2)
  <2>1. KeyClean(c, n, d, s1)
    BY DEF Clean, ConvosClean
  <2> QED
    BY <1>1, <2>1 DEF KeyClean
<1>5. ConvosClean(c, n, e)
  <2> SUFFICES ASSUME NEW y \in Draws, e.convos[y] # Null
               PROVE  /\ KeyClean(c, n, e, e.convos[y].c1)
                      /\ \A z \in Draws :
                            (/\ e.convos[z] # Null
                             /\ Watched(e.convos[y].c1)
                             /\ SameChain(e.convos[y].c1, e.convos[z].c1)) => y = z
    BY DEF ConvosClean
  <2>1. KeyClean(c, n, e, e.convos[y].c1)
    BY <1>3, <1>4 DEF Clean, ConvosClean
  <2>2. \A z \in Draws : e.convos[z] # Null =>
           /\ d.convos[z] # Null
           /\ \A s : /\ SameChain(s, e.convos[z].c1) <=> SameChain(s, d.convos[z].c1)
                     /\ SameChain(e.convos[z].c1, s) <=> SameChain(d.convos[z].c1, s)
           /\ Watched(e.convos[z].c1) <=> Watched(d.convos[z].c1)
    BY <1>1
  <2> QED
    BY <2>1, <2>2 DEF Clean, ConvosClean
<1>6. ASSUME NEW s \in K PROVE KeyClean(c, n, e, s) /\ Passed(e, s)
  <2>1. KeyClean(c, n, d, s) /\ Passed(d, s) /\ s.turn \in Nat
    BY Halves DEF Clean
  <2> QED
    BY <1>1, <1>3, <2>1 DEF Passed
<1>7. KeyClean(c, n, e, s1) /\ Passed(e, s1)
  <2>1. Passed(e, s1)
    <3> SUFFICES ASSUME NEW y \in Draws, e.convos[y] # Null, Watched(s1),
                        SameChain(e.convos[y].c1, s1)
                 PROVE  s1.turn < e.convos[y].c1.turn
      BY DEF Passed
    <3>1. CASE y = x
      BY <1>1, <3>1
    <3>2. CASE y # x
      <4>1. d.convos[y] # Null /\ SameChain(d.convos[y].c1, s1)
        BY <3>2
      <4>2. Watched(d.convos[y].c1)
        BY <4>1 DEF SameChain, Watched
      <4> QED
        BY <3>2, <4>1, <4>2 DEF Clean, ConvosClean
    <3> QED
      BY <3>1, <3>2
  <2> QED
    BY <1>3, <1>4, <2>1
<1>8. Watched(s1) => s1 \notin K
  BY <1>1 DEF Clean, Passed, SameChain
<1> QED
  BY <1>2, <1>5, <1>6, <1>7, <1>8 DEF Clean

\* Fewer states count as used.
LEMMA CleanFewer ==
    ASSUME NEW c, NEW n, NEW d, NEW K, NEW ks, Clean(c, n, d, K \cup ks)
    PROVE  Clean(c, n, d, K)
BY DEF Clean

-----------------------------------------------------------------------------
(* Statements on clean databases *)

\* What a statement on contacts makes of the row it names.
LEMMA ExecutedContact ==
    ASSUME NEW d \in Databases, NEW p \in Clients
    PROVE  /\ \A e \in Draws :
                 Executed(d, addContact(p, e)).contacts[p] = NewContact(0, e)
           /\ \A ct \in Contents :
                 Executed(d, addContactFromReq(p, ct)).contacts[p] = NewContact(1, ct)
           /\ Executed(d, deleteContact(p)).contacts[p] = Null
           /\ d.contacts[p] # Null => \A t1, t2 \in ThreadStates :
                 /\ Executed(d, finalizeContact(p, t1, t2)).contacts[p] =
                       [tag |-> 2, blob |-> Null, c1 |-> t1, c2 |-> t2]
                 /\ Executed(d, updateThreadRatchetStates(p, t1, Null)).contacts[p] =
                       [d.contacts[p] EXCEPT !.c1 = t1]
                 /\ Executed(d, updateThreadRatchetStates(p, Null, t2)).contacts[p] =
                       [d.contacts[p] EXCEPT !.c2 = t2]
<1>0. /\ d = [contacts |-> d.contacts, convos |-> d.convos, messages |-> d.messages]
      /\ d.contacts \in [Clients -> ContactRows \cup {Null}]
  BY DEF Databases
<1>1. ASSUME NEW e \in Draws
      PROVE  Executed(d, addContact(p, e)).contacts[p] = NewContact(0, e)
  BY <1>0 DEF Executed, Matches, addContact
<1>2. ASSUME NEW ct \in Contents
      PROVE  Executed(d, addContactFromReq(p, ct)).contacts[p] = NewContact(1, ct)
  BY <1>0 DEF Executed, Matches, addContactFromReq
<1>3. Executed(d, deleteContact(p)).contacts[p] = Null
  BY <1>0 DEF Executed, Matches, deleteContact, RemoveContact
<1>4. ASSUME d.contacts[p] # Null, NEW t1 \in ThreadStates, NEW t2 \in ThreadStates
      PROVE  /\ Executed(d, finalizeContact(p, t1, t2)).contacts[p] =
                   [tag |-> 2, blob |-> Null, c1 |-> t1, c2 |-> t2]
             /\ Executed(d, updateThreadRatchetStates(p, t1, Null)).contacts[p] =
                   [d.contacts[p] EXCEPT !.c1 = t1]
             /\ Executed(d, updateThreadRatchetStates(p, Null, t2)).contacts[p] =
                   [d.contacts[p] EXCEPT !.c2 = t2]
  <2>1. Executed(d, finalizeContact(p, t1, t2)).contacts[p] =
           [tag |-> 2, blob |-> Null, c1 |-> t1, c2 |-> t2]
    BY <1>0, <1>4 DEF Executed, Matches, finalizeContact, Finalized
  <2>2. Executed(d, updateThreadRatchetStates(p, t1, Null)).contacts[p] =
           [d.contacts[p] EXCEPT !.c1 = t1]
    BY <1>0, <1>4, NullAssumption DEF Executed, Matches, updateThreadRatchetStates, SetOne
  <2>3. Executed(d, updateThreadRatchetStates(p, Null, t2)).contacts[p] =
           [d.contacts[p] EXCEPT !.c2 = t2]
    BY <1>0, <1>4 DEF Executed, Matches, updateThreadRatchetStates, SetOne
  <2> QED
    BY <2>1, <2>2, <2>3
<1> QED
  BY <1>1, <1>2, <1>3, <1>4

\* The same for finalizeContact.
LEMMA ExecutedFinalize ==
    ASSUME NEW d \in Databases, NEW p \in Clients, d.contacts[p] # Null,
           NEW t1 \in ThreadStates, NEW t2 \in ThreadStates
    PROVE  Executed(d, finalizeContact(p, t1, t2)).contacts[p] =
              [tag |-> 2, blob |-> Null, c1 |-> t1, c2 |-> t2]
<1>1. /\ d = [contacts |-> d.contacts, convos |-> d.convos, messages |-> d.messages]
      /\ d.contacts \in [Clients -> ContactRows \cup {Null}]
  BY DEF Databases
<1> QED
  BY <1>1 DEF Executed, Matches, finalizeContact, Finalized

\* What updateSessionKeys makes of the conversation it names.
LEMMA ExecutedKeys ==
    ASSUME NEW d \in Databases, NEW x \in Draws, NEW p \in Clients,
           d.convos[x] # Null, d.convos[x].peer = p, NEW s \in SessionKeys,
           NEW e, e = Executed(d, updateSessionKeys(x, p, s, Null))
    PROVE  /\ e \in Databases /\ e.contacts = d.contacts
           /\ \A y \in Draws \ {x} : e.convos[y] = d.convos[y]
           /\ e.convos[x] # Null /\ e.convos[x].c1 = s
<1> DEFINE st == updateSessionKeys(x, p, s, Null)
           row == [d.convos[x] EXCEPT !.c1 = s]
<1>1. d.convos[x] \in ConvoRows
  BY DEF Databases
<1>2. row \in ConvoRows /\ row # Null /\ row.c1 = s
  BY <1>1, RowAssumption DEF ConvoRows
<1>3. d = [contacts |-> d.contacts, convos |-> d.convos, messages |-> d.messages]
  BY DEF Databases
<1>4. e = [d EXCEPT !.convos[x] = row]
  BY NullAssumption DEF Executed, Matches, updateSessionKeys, SetOne
<1>5. e.contacts = d.contacts /\ e.convos = [d.convos EXCEPT ![x] = row]
  BY <1>3, <1>4
<1>6. \A y \in Draws : e.convos[y] = IF y = x THEN row ELSE d.convos[y]
  BY <1>5 DEF Databases
<1>7. e \in Databases
  <2>1. st \in Statements
    BY StatementsType
  <2> QED
    BY <2>1, ExecutedType
<1> QED
  BY <1>2, <1>5, <1>6, <1>7

\* No statement removes a conversation.
LEMMA RowsStay ==
    ASSUME NEW d \in Databases, NEW st \in Statements, NEW x \in Draws,
           d.convos[x] # Null
    PROVE  Executed(d, st).convos[x] \in ConvoRows
<1> DEFINE row == Executed(d, st).convos[x]
<1>0. d.convos[x] \in ConvoRows
  BY DEF Databases
<1>1. CASE row = d.convos[x]
  BY <1>0, <1>1
<1>2. CASE /\ st.do = "createConvo" /\ st.id = x
           /\ row = [peer |-> st.who, title |-> st.title, c1 |-> st.c1, c2 |-> st.c2]
  BY <1>2 DEF Statements, ConvoRows
<1>3. CASE st.do = "updateSessionKeys" /\ row = SetOne(d.convos[x], st)
  BY <1>0, <1>3 DEF Statements, ConvoRows, SetOne
<1>4. CASE st.do = "updateTitle" /\ row = [d.convos[x] EXCEPT !.title = st.title]
  BY <1>0, <1>4 DEF Statements, ConvoRows
<1> QED
  BY <1>1, <1>2, <1>3, <1>4, ExecutedConvo

\* Statements that touch no contact and no sending state.
LEMMA QuietStatements ==
    ASSUME NEW c \in Clients, NEW n \in Nat, NEW d \in Databases,
           NEW K \in SUBSET SessionKeys, Clean(c, n, d, K), NEW st \in Statements,
           \/ st.do \in {"updateTitle", "storeMessage"}
           \/ st.do = "updateSessionKeys" /\ st.c1 = Null
    PROVE  Clean(c, n, Executed(d, st), K)
<1> DEFINE e == Executed(d, st)
<1>1. e \in Databases
  BY ExecutedType
<1>2. e.contacts = d.contacts
  BY ExecutedFrame DEF ContactStatements
<1>3. ASSUME NEW x \in Draws
      PROVE  /\ e.convos[x] # Null <=> d.convos[x] # Null
             /\ d.convos[x] # Null => e.convos[x].c1 = d.convos[x].c1
  <2>1. \/ e.convos[x] = d.convos[x]
        \/ /\ st.do = "updateSessionKeys" /\ d.convos[x] # Null
           /\ e.convos[x] = SetOne(d.convos[x], st)
        \/ /\ d.convos[x] # Null
           /\ e.convos[x] = [d.convos[x] EXCEPT !.title = st.title]
    BY ExecutedConvo
  <2>2. d.convos[x] # Null =>
           /\ d.convos[x] \in ConvoRows
           /\ e.convos[x] \in ConvoRows \cup {Null}
    BY <1>1 DEF Databases
  <2>3. CASE e.convos[x] = d.convos[x]
    BY <2>3
  <2>4. CASE /\ d.convos[x] # Null
             /\ \/ e.convos[x] = [d.convos[x] EXCEPT !.title = st.title]
                \/ e.convos[x] = [d.convos[x] EXCEPT !.c2 = st.c2]
    <3>1. e.convos[x].c1 = d.convos[x].c1
      BY <2>2, <2>4 DEF ConvoRows
    <3>2. e.convos[x] # Null
      BY <2>4, RowsStay, RowAssumption
    <3> QED
      BY <2>4, <3>1, <3>2
  <2> QED
    BY <2>1, <2>3, <2>4 DEF SetOne
<1> QED
  BY <1>1, <1>2, <1>3, CleanView

-----------------------------------------------------------------------------
(* Calls: sequences of up to four statements *)

Done(d, ws, i) == IF i <= Len(ws) THEN Executed(d, ws[i]) ELSE d
After1(d, ws) == Done(d, ws, 1)
After2(d, ws) == Done(After1(d, ws), ws, 2)
After3(d, ws) == Done(After2(d, ws), ws, 3)
After4(d, ws) == Done(After3(d, ws), ws, 4)

\* The statements ws, executed in d, leave a clean database in which the states
\* in ks are used as well; and all that can be cut off by a crash is clean.
Planned(c, n, d, K, ws, ks) ==
    /\ Len(ws) <= 4
    /\ \A i \in DOMAIN ws : ~Violates(d, ws[i])
    /\ Clean(c, n, After4(d, ws), K \cup ks)
    /\ "crash" \in Faults =>
          /\ Clean(c, n, d, K)
          /\ Clean(c, n, After1(d, ws), K)
          /\ Clean(c, n, After2(d, ws), K)
          /\ Clean(c, n, After3(d, ws), K)

\* The databases on the way of calls with up to four statements.
LEMMA AfterNone ==
    ASSUME NEW d
    PROVE  /\ After1(d, <<>>) = d /\ After2(d, <<>>) = d
           /\ After3(d, <<>>) = d /\ After4(d, <<>>) = d
BY DEF After1, After2, After3, After4, Done

LEMMA AfterOne ==
    ASSUME NEW d, NEW s1, NEW e, e = Executed(d, s1)
    PROVE  /\ After1(d, <<s1>>) = e /\ After2(d, <<s1>>) = e
           /\ After3(d, <<s1>>) = e /\ After4(d, <<s1>>) = e
BY DEF After1, After2, After3, After4, Done

LEMMA AfterTwo ==
    ASSUME NEW d, NEW s1, NEW s2, NEW e, NEW f,
           e = Executed(d, s1), f = Executed(e, s2)
    PROVE  /\ After1(d, <<s1, s2>>) = e /\ After2(d, <<s1, s2>>) = f
           /\ After3(d, <<s1, s2>>) = f /\ After4(d, <<s1, s2>>) = f
BY DEF After1, After2, After3, After4, Done

LEMMA AfterThree ==
    ASSUME NEW d, NEW s1, NEW s2, NEW s3, NEW e, NEW f, NEW g,
           e = Executed(d, s1), f = Executed(e, s2), g = Executed(f, s3)
    PROVE  /\ After1(d, <<s1, s2, s3>>) = e /\ After2(d, <<s1, s2, s3>>) = f
           /\ After3(d, <<s1, s2, s3>>) = g /\ After4(d, <<s1, s2, s3>>) = g
BY DEF After1, After2, After3, After4, Done

LEMMA AfterFour ==
    ASSUME NEW d, NEW s1, NEW s2, NEW s3, NEW s4, NEW e, NEW f, NEW g, NEW h,
           e = Executed(d, s1), f = Executed(e, s2), g = Executed(f, s3),
           h = Executed(g, s4)
    PROVE  /\ After1(d, <<s1, s2, s3, s4>>) = e /\ After2(d, <<s1, s2, s3, s4>>) = f
           /\ After3(d, <<s1, s2, s3, s4>>) = g /\ After4(d, <<s1, s2, s3, s4>>) = h
BY DEF After1, After2, After3, After4, Done

\* A statement that is executed leaves the same databases to come.
LEMMA AfterTail ==
    ASSUME NEW d, NEW ws \in Seq(Statements), ws # <<>>, Len(ws) <= 4
    PROVE  LET e == Executed(d, Head(ws)) IN
           /\ After1(d, ws) = e
           /\ After1(e, Tail(ws)) = After2(d, ws)
           /\ After2(e, Tail(ws)) = After3(d, ws)
           /\ After3(e, Tail(ws)) = After4(d, ws)
           /\ After4(e, Tail(ws)) = After4(d, ws)
<1> DEFINE e == Executed(d, Head(ws))
           us == Tail(ws)
<1>0. Len(ws) \in Nat /\ Len(ws) # 0
  OBVIOUS
<1>01. Head(ws) = ws[1] /\ Len(us) = Len(ws) - 1
  OBVIOUS
<1>02. \A i \in 1 .. 3 : i <= Len(us) => us[i] = ws[i + 1]
  BY <1>0
<1>1. /\ Len(ws) \in 1 .. 4 /\ Head(ws) = ws[1]
      /\ Len(us) = Len(ws) - 1
      /\ \A i \in 1 .. 3 : i <= Len(us) => us[i] = ws[i + 1]
  BY <1>0, <1>01, <1>02
<1> HIDE DEF us
<1>2. After1(d, ws) = e
  BY <1>1 DEF After1, Done
<1>3. /\ \A f : Done(f, us, 1) = Done(f, ws, 2)
      /\ \A f : Done(f, us, 2) = Done(f, ws, 3)
      /\ \A f : Done(f, us, 3) = Done(f, ws, 4)
      /\ \A f : Done(f, us, 4) = f
  BY <1>1 DEF Done
<1>4. After1(e, us) = After2(d, ws)
  BY <1>2, <1>3 DEF After1, After2
<1>5. After2(e, us) = After3(d, ws)
  BY <1>3, <1>4 DEF After2, After3
<1>6. After3(e, us) = After4(d, ws)
  BY <1>3, <1>5 DEF After3, After4
<1>7. After4(e, us) = After4(d, ws)
  BY <1>3, <1>6 DEF After4
<1> QED
  BY <1>2, <1>4, <1>5, <1>6, <1>7 DEF us

\* What a call has left, when it has executed a statement.
LEMMA PlannedTail ==
    ASSUME NEW c, NEW n, NEW d \in Databases, NEW K, NEW ks,
           NEW ws \in Seq(Statements), ws # <<>>,
           Planned(c, n, d, K, ws, ks), SafeWrites(d, ws)
    PROVE  Planned(c, n, Executed(d, Head(ws)), K, Tail(ws), ks)
<1> DEFINE e == Executed(d, Head(ws))
<1>1. /\ Len(ws) <= 4 /\ Len(Tail(ws)) <= 4
      /\ Head(ws) = ws[1] /\ 1 \in DOMAIN ws /\ ws[1] \in Statements
      /\ \A i \in DOMAIN Tail(ws) :
            /\ i + 1 \in DOMAIN ws /\ i + 1 # 1
            /\ Tail(ws)[i] = ws[i + 1]
            /\ ws[i + 1] \in Statements
  BY DEF Planned
<1>2. ASSUME NEW i \in DOMAIN Tail(ws) PROVE ~Violates(e, Tail(ws)[i])
  <2> DEFINE su == ws[i + 1]
  <2>1. ~Violates(d, su) /\ ~Clash(ws[1], su) /\ su \in Statements
    BY <1>1 DEF Planned, SafeWrites
  <2>2. CASE su.do \in {"addContact", "addContactFromReq"}
    <3>1. ws[1].do \notin ContactStatements
      BY <2>1, <2>2 DEF Clash, ContactStatements
    <3>2. e.contacts = d.contacts
      BY <1>1, <3>1, ExecutedFrame
    <3> QED
      BY <1>1, <2>1, <3>2 DEF Violates
  <2>3. CASE su.do \notin {"addContact", "addContactFromReq"}
    BY <1>1, <2>3 DEF Violates
  <2> QED
    BY <2>2, <2>3
<1>3. /\ After1(d, ws) = e
      /\ After1(e, Tail(ws)) = After2(d, ws)
      /\ After2(e, Tail(ws)) = After3(d, ws)
      /\ After3(e, Tail(ws)) = After4(d, ws)
      /\ After4(e, Tail(ws)) = After4(d, ws)
  BY <1>1, AfterTail
<1>4. "crash" \in Faults => Clean(c, n, After4(d, ws), K)
  BY CleanFewer DEF Planned
<1> QED
  BY <1>1, <1>2, <1>3, <1>4 DEF Planned

\* A call without statements.
LEMMA PlannedNone ==
    ASSUME NEW c, NEW n, NEW d, NEW K, NEW ks
    PROVE  Planned(c, n, d, K, <<>>, ks) <=>
              /\ Clean(c, n, d, K \cup ks)
              /\ "crash" \in Faults => Clean(c, n, d, K)
BY AfterNone DEF Planned

\* A call with one statement.
LEMMA PlannedOne ==
    ASSUME NEW c, NEW n, NEW d, NEW K, NEW ks, NEW st,
           ~Violates(d, st),
           Clean(c, n, d, K), Clean(c, n, Executed(d, st), K),
           Clean(c, n, Executed(d, st), K \cup ks)
    PROVE  Planned(c, n, d, K, <<st>>, ks)
<1> DEFINE e == Executed(d, st)
<1>1. /\ After1(d, <<st>>) = e /\ After2(d, <<st>>) = e
      /\ After3(d, <<st>>) = e /\ After4(d, <<st>>) = e
  BY AfterOne
<1>2. Len(<<st>>) = 1 /\ \A i \in DOMAIN <<st>> : <<st>>[i] = st
  OBVIOUS
<1> HIDE DEF e
<1> QED
  BY <1>1, <1>2 DEF Planned, e

\* addContact: the new half was never used.
LEMMA PlanAdd ==
    ASSUME NEW c \in Clients, NEW n \in Nat, NEW d \in Databases,
           NEW K \in SUBSET SessionKeys, Clean(c, n, d, K),
           NEW p \in Clients, d.contacts[p] = Null,
           NEW e \in Draws, e.who = c, e.no = n + 1
    PROVE  Planned(c, n + 1, d, K, <<addContact(p, e)>>, {})
<1> DEFINE st == addContact(p, e)
           f == Executed(d, st)
<1>1. st \in Statements /\ st.do = "addContact" /\ st.who = p
  BY StatementsType DEF addContact
<1>2. f \in Databases /\ Clean(c, n + 1, d, K)
  BY <1>1, ExecutedType, CleanView
<1>3. f.convos = d.convos /\ \A q \in Clients \ {p} : f.contacts[q] = d.contacts[q]
  BY <1>1, ExecutedFrame DEF ContactStatements
<1>4. f.contacts[p] = NewContact(0, e)
  BY ExecutedContact
<1>5. HalfOf(f.contacts[p]) = e /\ f.contacts[p].tag = 0
  BY <1>4 DEF HalfOf, NewContact
<1>6. \A x : DrawnBy(c, n, x) => x # e
  BY DEF DrawnBy
<1>7. \A q \in Clients : HasHalf(d.contacts[q]) => HalfOf(d.contacts[q]) # e
  BY <1>6 DEF Clean, ContactsClean
<1>8. \A s \in SessionKeys : KeyClean(c, n, d, s) /\ Watched(s) => Spent(f.contacts[p], s)
  BY <1>5, <1>6 DEF KeyClean, Spent
<1>9. Clean(c, n + 1, f, K)
  BY <1>2, <1>3, <1>5, <1>7, <1>8, CleanContact DEF DrawnBy
<1> QED
  BY <1>2, <1>9, PlannedOne DEF Violates, addContact

\* finalizeContact in the responder: its half was never used.
LEMMA PlanAccept ==
    ASSUME NEW c \in Clients, NEW n \in Nat, NEW d \in Databases,
           NEW K \in SUBSET SessionKeys, Clean(c, n, d, K),
           NEW p \in Clients, d.contacts[p] # Null,
           NEW e \in Draws, NEW f \in Draws, f.who = c, f.no = n + 1
    PROVE  Planned(c, n + 1, d, K,
                   <<finalizeContact(p, ThreadState(e, f, "responder"),
                                        ThreadState(e, f, "initiator"))>>, {})
<1> DEFINE t1 == ThreadState(e, f, "responder")
           t2 == ThreadState(e, f, "initiator")
           st == finalizeContact(p, t1, t2)
           g == Executed(d, st)
<1>0. t1 \in ThreadStates /\ t2 \in ThreadStates
  BY KeysType
<1>1. st \in Statements /\ st.do = "finalizeContact" /\ st.who = p
  BY <1>0, StatementsType DEF finalizeContact
<1>2. g \in Databases /\ Clean(c, n + 1, d, K)
  BY <1>1, ExecutedType, CleanView
<1>3. g.convos = d.convos /\ \A q \in Clients \ {p} : g.contacts[q] = d.contacts[q]
  <2>1. \A su \in Statements : su.do = "finalizeContact" =>
           /\ Executed(d, su).convos = d.convos
           /\ \A q \in Clients \ {su.who} : Executed(d, su).contacts[q] = d.contacts[q]
    BY ExecutedFrame DEF ContactStatements
  <2> HIDE DEF st
  <2> QED
    BY <1>1, <2>1
<1>4. g.contacts[p] = [tag |-> 2, blob |-> Null, c1 |-> t1, c2 |-> t2]
  <2> HIDE DEF t1, t2
  <2> QED
    BY <1>0, ExecutedFinalize
<1>5. HalfOf(g.contacts[p]) = f /\ Twins(g.contacts[p])
  BY <1>4 DEF HalfOf, Twins, ThreadState
<1>6. \A x : DrawnBy(c, n, x) => x # f
  BY DEF DrawnBy
<1>7. \A q \in Clients : HasHalf(d.contacts[q]) => HalfOf(d.contacts[q]) # f
  BY <1>6 DEF Clean, ContactsClean
<1>8. \A s \in SessionKeys : KeyClean(c, n, d, s) /\ Watched(s) => Spent(g.contacts[p], s)
  BY <1>5, <1>6 DEF KeyClean, Spent
<1>9. Clean(c, n + 1, g, K)
  BY <1>2, <1>3, <1>5, <1>7, <1>8, CleanContact DEF DrawnBy
<1> QED
  BY <1>2, <1>9, PlannedOne DEF Violates, finalizeContact

\* finalizeContact in the initiator: its half created no thread yet.
LEMMA PlanFinish ==
    ASSUME NEW c \in Clients, NEW n \in Nat, NEW d \in Databases,
           NEW K \in SUBSET SessionKeys, Clean(c, n, d, K),
           NEW p \in Clients, d.contacts[p] # Null, d.contacts[p].tag = 0,
           NEW e \in Draws, d.contacts[p].blob = e, NEW f \in Draws
    PROVE  Planned(c, n, d, K,
                   <<finalizeContact(p, ThreadState(e, f, "initiator"),
                                        ThreadState(e, f, "responder"))>>, {})
<1> DEFINE t1 == ThreadState(e, f, "initiator")
           t2 == ThreadState(e, f, "responder")
           st == finalizeContact(p, t1, t2)
           g == Executed(d, st)
<1>0. t1 \in ThreadStates /\ t2 \in ThreadStates
  BY KeysType
<1>1. st \in Statements /\ st.do = "finalizeContact" /\ st.who = p
  BY <1>0, StatementsType DEF finalizeContact
<1>2. g \in Databases
  BY <1>1, ExecutedType
<1>3. g.convos = d.convos /\ \A q \in Clients \ {p} : g.contacts[q] = d.contacts[q]
  <2>1. \A su \in Statements : su.do = "finalizeContact" =>
           /\ Executed(d, su).convos = d.convos
           /\ \A q \in Clients \ {su.who} : Executed(d, su).contacts[q] = d.contacts[q]
    BY ExecutedFrame DEF ContactStatements
  <2> HIDE DEF st
  <2> QED
    BY <1>1, <2>1
<1>4. g.contacts[p] = [tag |-> 2, blob |-> Null, c1 |-> t1, c2 |-> t2]
  <2> HIDE DEF t1, t2
  <2> QED
    BY <1>0, ExecutedFinalize
<1>5. HalfOf(g.contacts[p]) = e /\ Twins(g.contacts[p])
  BY <1>4 DEF HalfOf, Twins, ThreadState
<1>6. HasHalf(d.contacts[p]) /\ HalfOf(d.contacts[p]) = e
  BY DEF HasHalf, HalfOf
<1>7. /\ DrawnBy(c, n, e)
      /\ \A q \in Clients \ {p} : HasHalf(d.contacts[q]) => HalfOf(d.contacts[q]) # e
  BY <1>6 DEF Clean, ContactsClean
<1>8. \A s \in SessionKeys : KeyClean(c, n, d, s) /\ Watched(s) => Spent(g.contacts[p], s)
  BY <1>5, <1>6 DEF KeyClean, Spent
<1>9. Clean(c, n, g, K)
  BY <1>2, <1>3, <1>5, <1>7, <1>8, CleanContact
<1> QED
  BY <1>9, PlannedOne DEF Violates, finalizeContact

\* The contact's row goes, or one without a half comes.
LEMMA PlanForget ==
    ASSUME NEW c \in Clients, NEW n \in Nat, NEW d \in Databases,
           NEW K \in SUBSET SessionKeys, Clean(c, n, d, K), NEW p \in Clients
    PROVE  /\ Planned(c, n, d, K, <<deleteContact(p)>>, {})
           /\ d.contacts[p] = Null => \A ct \in Contents :
                 Planned(c, n, d, K, <<addContactFromReq(p, ct)>>, {})
<1>1. ASSUME NEW st \in Statements, st.do \in ContactStatements, st.who = p,
             ~HasHalf(Executed(d, st).contacts[p]), ~Violates(d, st)
      PROVE  Planned(c, n, d, K, <<st>>, {})
  <2> DEFINE e == Executed(d, st)
  <2>1. e \in Databases
    BY ExecutedType
  <2>2. e.convos = d.convos /\ \A q \in Clients \ {p} : e.contacts[q] = d.contacts[q]
    BY <1>1, ExecutedFrame
  <2>3. Clean(c, n, e, K)
    BY <1>1, <2>1, <2>2, CleanContact DEF Spent
  <2> QED
    BY <1>1, <2>3, PlannedOne
<1>2. Planned(c, n, d, K, <<deleteContact(p)>>, {})
  <2> DEFINE st == deleteContact(p)
  <2>1. st \in Statements /\ st.do \in ContactStatements /\ st.who = p
    BY StatementsType DEF deleteContact, ContactStatements
  <2>2. ~HasHalf(Executed(d, st).contacts[p])
    BY ExecutedContact DEF HasHalf
  <2>3. ~Violates(d, st)
    BY DEF Violates, deleteContact
  <2> QED
    BY <1>1, <2>1, <2>2, <2>3
<1>3. ASSUME d.contacts[p] = Null, NEW ct \in Contents
      PROVE  Planned(c, n, d, K, <<addContactFromReq(p, ct)>>, {})
  <2> DEFINE st == addContactFromReq(p, ct)
  <2>1. st \in Statements /\ st.do \in ContactStatements /\ st.who = p
    BY StatementsType DEF addContactFromReq, ContactStatements
  <2>2. ~HasHalf(Executed(d, st).contacts[p])
    <3>0. \A blob \in Contents :
             Executed(d, addContactFromReq(p, blob)).contacts[p] = NewContact(1, blob)
      BY ExecutedContact
    <3>1. Executed(d, st).contacts[p] = NewContact(1, ct)
      BY <3>0
    <3> QED
      BY <3>1 DEF HasHalf, NewContact
  <2>3. ~Violates(d, st)
    BY <1>3 DEF Violates, addContactFromReq
  <2> QED
    BY <1>1, <2>1, <2>2, <2>3
<1> QED
  BY <1>2, <1>3

\* A ciphertext in a conversation: its state is replaced before it goes out.
LEMMA PlanInConvo ==
    ASSUME NEW c \in Clients, NEW n \in Nat, NEW d \in Databases,
           NEW K \in SUBSET SessionKeys, Clean(c, n, d, K), NEW p \in Clients,
           NEW x \in Draws, d.convos[x] # Null, d.convos[x].peer = p,
           NEW s1, s1 = d.convos[x].c1
    PROVE  /\ Planned(c, n + 1, d, K,
                      <<updateSessionKeys(x, p, AfterAEAD(s1), Null)>>, {s1})
           /\ Watched(s1) => s1 \notin K
<1> DEFINE st == updateSessionKeys(x, p, AfterAEAD(s1), Null)
           e == Executed(d, st)
<1>0. s1 \in SessionKeys /\ AfterAEAD(s1) \in SessionKeys
  BY FoundHasKeys, KeysType
<1>1. ~Violates(d, st)
  BY DEF updateSessionKeys, Violates
<1>2. /\ e \in Databases /\ e.contacts = d.contacts
      /\ \A y \in Draws \ {x} : e.convos[y] = d.convos[y]
      /\ e.convos[x] # Null /\ e.convos[x].c1 = AfterAEAD(s1)
  BY <1>0, ExecutedKeys
<1> HIDE DEF e, st
<1>3. Clean(c, n + 1, d, K)
  BY CleanView
<1>4. /\ Clean(c, n + 1, e, K)
      /\ Clean(c, n + 1, e, K \cup {s1})
      /\ Watched(s1) => s1 \notin K
  BY <1>2, <1>3, CleanUse
<1> QED
  BY <1>1, <1>3, <1>4, PlannedOne DEF e, st

-----------------------------------------------------------------------------
(* New threads *)

\* A contact that creates threads has the two states of one handshake.
LEMMA ReadyRow ==
    ASSUME NEW c \in Clients, NEW n \in Nat, NEW d \in Databases,
           NEW K \in SUBSET SessionKeys, Clean(c, n, d, K),
           NEW p \in Clients, threadRatchetStatesReady(d, p)
    PROVE  LET row == d.contacts[p] IN
           /\ row # Null /\ row.tag = 2 /\ row \in ContactRows
           /\ row.c1 \in ThreadStates /\ row.c2 \in ThreadStates
           /\ HasHalf(row) /\ Twins(row)
           /\ DrawnBy(c, n, HalfOf(row))
           /\ \A q \in Clients \ {p} :
                 HasHalf(d.contacts[q]) => HalfOf(d.contacts[q]) # HalfOf(row)
<1> DEFINE row == d.contacts[p]
<1>1. row \in ContactRows /\ row # Null
  BY DEF Databases, threadRatchetStatesReady
<1>2. row.tag = 2
  BY <1>1, RowFields, NullAssumption DEF threadRatchetStatesReady
<1>3. row.c1 \in ThreadStates /\ row.c2 \in ThreadStates
  BY <1>1, <1>2, RowFields
<1>4. HasHalf(row)
  BY <1>1, <1>2 DEF HasHalf
<1> QED
  BY <1>1, <1>2, <1>3, <1>4 DEF Clean, ContactsClean

\* A turn that the contact is about to create a thread from is not in use.
LEMMA ThreadUnused ==
    ASSUME NEW c \in Clients, NEW n \in Nat, NEW d \in Databases,
           NEW K \in SUBSET SessionKeys, Clean(c, n, d, K), NEW p \in Clients,
           HasHalf(d.contacts[p]), d.contacts[p].tag = 2,
           NEW s \in SessionKeys, Half(s) = HalfOf(d.contacts[p]),
           s.thread.turn = IF s.label = "initiatorThread"
                           THEN d.contacts[p].c1.turn ELSE d.contacts[p].c2.turn
    PROVE  Unused(d, K, s)
<1>1. \A t \in SessionKeys :
         KeyClean(c, n, d, t) /\ Watched(s) => ~SameChain(t, s)
  <2> SUFFICES ASSUME NEW t \in SessionKeys, KeyClean(c, n, d, t), Watched(s),
                      SameChain(t, s)
               PROVE  FALSE
    OBVIOUS
  <2>1. Watched(t) /\ Half(t) = Half(s) /\ t.label = s.label
        /\ t.thread.turn = s.thread.turn /\ s.thread.turn \in Nat
    BY Halves DEF Watched, SameChain
  <2>2. Spent(d.contacts[p], t)
    BY <2>1 DEF KeyClean
  <2> QED
    BY <2>1, <2>2 DEF Spent
<1> QED
  BY <1>1, FoundHasKeys DEF Unused, Clean, ConvosClean

\* The contact p ratchets a state, after it created the thread state s from it.
Moved(d, e, p, s) ==
    LET row == d.contacts[p] IN
    /\ e \in Databases
    /\ e.convos = d.convos
    /\ \A q \in Clients \ {p} : e.contacts[q] = d.contacts[q]
    /\ \/ /\ s = InitiatorThread(row.c1)
          /\ e.contacts[p] = [row EXCEPT !.c1 = Ratchet(row.c1)]
       \/ /\ s = ResponderThread(row.c2)
          /\ e.contacts[p] = [row EXCEPT !.c2 = Ratchet(row.c2)]

\* A ratchet moves the contact beyond the turn, which gives an unused state.
LEMMA CleanRatchet ==
    ASSUME NEW c \in Clients, NEW n \in Nat, NEW d \in Databases,
           NEW K \in SUBSET SessionKeys, Clean(c, n, d, K), NEW p \in Clients,
           threadRatchetStatesReady(d, p), NEW e, NEW s \in SessionKeys,
           Moved(d, e, p, s)
    PROVE  /\ Clean(c, n, e, K)
           /\ KeyClean(c, n, e, s)
           /\ Unused(d, K, s) /\ Unused(e, K, s)
<1> DEFINE row == d.contacts[p]
           new == e.contacts[p]
<1>1. /\ row # Null /\ row.tag = 2 /\ row \in ContactRows
      /\ row.c1 \in ThreadStates /\ row.c2 \in ThreadStates
      /\ HasHalf(row) /\ Twins(row)
      /\ DrawnBy(c, n, HalfOf(row))
      /\ \A q \in Clients \ {p} :
            HasHalf(d.contacts[q]) => HalfOf(d.contacts[q]) # HalfOf(row)
  BY ReadyRow
<1>2. /\ new.tag = 2 /\ new \in ContactRows
      /\ \/ /\ s = InitiatorThread(row.c1)
            /\ new.c1 = Ratchet(row.c1) /\ new.c2 = row.c2
         \/ /\ s = ResponderThread(row.c2)
            /\ new.c1 = row.c1 /\ new.c2 = Ratchet(row.c2)
  <2>1. Ratchet(row.c1) \in ThreadStates /\ Ratchet(row.c2) \in ThreadStates
    BY <1>1, KeysType
  <2> QED
    BY <1>1, <2>1 DEF ContactRows, Moved
<1>3. /\ new.c1.init = row.c1.init /\ new.c1.resp = row.c1.resp
      /\ new.c1.from = row.c1.from /\ new.c2.from = row.c2.from
      /\ new.c2.init = row.c2.init /\ new.c2.resp = row.c2.resp
      /\ new.c1.turn \in Nat /\ row.c1.turn \in Nat
      /\ new.c2.turn \in Nat /\ row.c2.turn \in Nat
      /\ row.c1.turn <= new.c1.turn /\ row.c2.turn <= new.c2.turn
      /\ row.c1.from \in {"initiator", "responder"}
      /\ row.c2.from \in {"initiator", "responder"}
  BY <1>1, <1>2, Halves
<1>4. HalfOf(new) = HalfOf(row) /\ Twins(new)
  BY <1>1, <1>2, <1>3 DEF HalfOf, Twins
<1>5. /\ Half(s) = HalfOf(row)
      /\ s.thread.turn = IF s.label = "initiatorThread" THEN row.c1.turn ELSE row.c2.turn
      /\ s.thread.turn < IF s.label = "initiatorThread" THEN new.c1.turn ELSE new.c2.turn
  <2>1. CASE s = InitiatorThread(row.c1) /\ new.c1 = Ratchet(row.c1)
    BY <1>1, <1>3, <2>1, Halves DEF HalfOf
  <2>2. CASE s = ResponderThread(row.c2) /\ new.c2 = Ratchet(row.c2)
    <3>1. /\ Half(s) = IF row.c2.from = "initiator" THEN row.c2.resp ELSE row.c2.init
          /\ s.label = "responderThread" /\ s.thread = row.c2
          /\ new.c2.turn = row.c2.turn + 1
      BY <1>1, <2>2, Halves
    <3> QED
      BY <1>1, <1>3, <3>1 DEF HalfOf, Twins
  <2> QED
    BY <1>2, <2>1, <2>2
<1>6. \A t \in SessionKeys :
         KeyClean(c, n, d, t) /\ Watched(t) => Spent(new, t)
  <2> SUFFICES ASSUME NEW t \in SessionKeys, KeyClean(c, n, d, t), Watched(t),
                      HalfOf(new) = Half(t)
               PROVE  t.thread.turn <
                         (IF t.label = "initiatorThread" THEN new.c1.turn ELSE new.c2.turn)
    BY <1>2 DEF Spent
  <2>1. Spent(row, t) /\ t.thread.turn \in Nat
    BY Halves DEF KeyClean
  <2> QED
    BY <1>1, <1>3, <1>4, <2>1 DEF Spent
<1>7. Clean(c, n, e, K)
  BY <1>1, <1>4, <1>6, CleanContact DEF Moved
<1>8. KeyClean(c, n, e, s)
  BY <1>1, <1>2, <1>4, <1>5 DEF KeyClean, Spent, Moved
<1>9. Unused(d, K, s)
  BY <1>1, <1>5, ThreadUnused
<1> QED
  BY <1>7, <1>8, <1>9 DEF Unused, Moved

\* What createConvo makes of the database.
LEMMA ExecutedCreate ==
    ASSUME NEW d \in Databases, NEW x \in Draws, NEW p \in Clients,
           NEW t \in Texts \cup {Null}, NEW s1 \in SessionKeys, NEW s2 \in SessionKeys,
           NEW e, e = Executed(d, createConvo(x, p, t, s1, s2))
    PROVE  /\ e \in Databases /\ e.contacts = d.contacts
           /\ \A y \in Draws \ {x} : e.convos[y] = d.convos[y]
           /\ e.convos[x] \in ConvoRows /\ e.convos[x] # Null
           /\ e.convos[x].peer = p /\ e.convos[x].c1 = s1
<1> DEFINE st == createConvo(x, p, t, s1, s2)
           row == [peer |-> p, title |-> t, c1 |-> s1, c2 |-> s2]
<1>1. /\ st \in Statements /\ st.do = "createConvo" /\ st.id = x /\ st.who = p
      /\ st.title = t /\ st.c1 = s1 /\ st.c2 = s2
  BY StatementsType DEF createConvo
<1>2. d = [contacts |-> d.contacts, convos |-> d.convos, messages |-> d.messages]
  BY DEF Databases
<1>3. e = [d EXCEPT !.convos[x] = row]
  BY <1>1 DEF Executed, Matches
<1>4. e.contacts = d.contacts /\ e.convos = [d.convos EXCEPT ![x] = row]
  BY <1>2, <1>3
<1>5. row \in ConvoRows /\ row # Null
  BY RowAssumption DEF ConvoRows
<1>6. e.convos[x] = row
  BY <1>4 DEF Databases
<1>7. row.peer = p /\ row.c1 = s1
  OBVIOUS
<1> HIDE DEF row
<1>8. e \in Databases
  BY <1>1, ExecutedType
<1> QED
  BY <1>4, <1>5, <1>6, <1>7, <1>8

\* What a ratchet of a contact makes of the database.
LEMMA ExecutedRatchet ==
    ASSUME NEW d \in Databases, NEW p \in Clients, threadRatchetStatesReady(d, p)
    PROVE  LET row == d.contacts[p] IN
           /\ Moved(d, Executed(d, updateThreadRatchetStates(p, Ratchet(row.c1), Null)),
                    p, InitiatorThread(row.c1))
           /\ Moved(d, Executed(d, updateThreadRatchetStates(p, Null, Ratchet(row.c2))),
                    p, ResponderThread(row.c2))
<1> DEFINE row == d.contacts[p]
           r1 == Ratchet(row.c1)
           r2 == Ratchet(row.c2)
<1>1. r1 \in ThreadStates /\ r2 \in ThreadStates /\ row # Null
  BY ReadyHasStates, KeysType DEF threadRatchetStatesReady
<1>2. /\ d = [contacts |-> d.contacts, convos |-> d.convos, messages |-> d.messages]
      /\ d.contacts \in [Clients -> ContactRows \cup {Null}]
  BY DEF Databases
<1>3. \A su \in Statements : su.do = "updateThreadRatchetStates" =>
         /\ Executed(d, su) \in Databases
         /\ Executed(d, su).convos = d.convos
         /\ \A q \in Clients \ {su.who} : Executed(d, su).contacts[q] = d.contacts[q]
  BY ExecutedFrame, ExecutedType DEF ContactStatements
<1>4. ASSUME NEW r \in ThreadStates
      PROVE  /\ LET e == Executed(d, updateThreadRatchetStates(p, r, Null)) IN
                /\ e \in Databases /\ e.convos = d.convos
                /\ \A q \in Clients \ {p} : e.contacts[q] = d.contacts[q]
                /\ e.contacts[p] = [row EXCEPT !.c1 = r]
             /\ LET e == Executed(d, updateThreadRatchetStates(p, Null, r)) IN
                /\ e \in Databases /\ e.convos = d.convos
                /\ \A q \in Clients \ {p} : e.contacts[q] = d.contacts[q]
                /\ e.contacts[p] = [row EXCEPT !.c2 = r]
  <2> DEFINE su == updateThreadRatchetStates(p, r, Null)
             sv == updateThreadRatchetStates(p, Null, r)
  <2>1. /\ su \in Statements /\ su.do = "updateThreadRatchetStates" /\ su.who = p
        /\ sv \in Statements /\ sv.do = "updateThreadRatchetStates" /\ sv.who = p
    BY StatementsType DEF updateThreadRatchetStates
  <2>2. Executed(d, su).contacts[p] = [row EXCEPT !.c1 = r]
    BY <1>1, <1>2, NullAssumption DEF Executed, Matches, updateThreadRatchetStates, SetOne
  <2>3. Executed(d, sv).contacts[p] = [row EXCEPT !.c2 = r]
    BY <1>1, <1>2 DEF Executed, Matches, updateThreadRatchetStates, SetOne
  <2> HIDE DEF su, sv
  <2>4. /\ Executed(d, su) \in Databases
        /\ Executed(d, su).convos = d.convos
        /\ \A q \in Clients \ {p} : Executed(d, su).contacts[q] = d.contacts[q]
        /\ Executed(d, sv) \in Databases
        /\ Executed(d, sv).convos = d.convos
        /\ \A q \in Clients \ {p} : Executed(d, sv).contacts[q] = d.contacts[q]
    BY <1>3, <2>1
  <2> QED
    BY <2>2, <2>3, <2>4 DEF su, sv
<1> HIDE DEF r1, r2
<1>5. Moved(d, Executed(d, updateThreadRatchetStates(p, r1, Null)),
            p, InitiatorThread(row.c1))
  BY <1>1, <1>4 DEF Moved, r1
<1>6. Moved(d, Executed(d, updateThreadRatchetStates(p, Null, r2)),
            p, ResponderThread(row.c2))
  BY <1>1, <1>4 DEF Moved, r2
<1> QED
  BY <1>5, <1>6 DEF r1, r2

\* A new thread at the sender: the contact moves on, the conversation is
\* created, and its state is replaced before the title goes out.
LEMMA PlanNewThread ==
    ASSUME NEW c \in Clients, NEW n \in Nat, NEW d \in Databases,
           NEW K \in SUBSET SessionKeys, Clean(c, n, d, K), NEW p \in Clients,
           threadRatchetStatesReady(d, p), NEW x \in Draws, d.convos[x] = Null,
           NEW t \in Texts, NEW t1, t1 = d.contacts[p].c1,
           NEW s1, s1 = InitiatorThread(t1), NEW s2, s2 = ResponderThread(t1)
    PROVE  /\ Planned(c, n + 1, d, K,
                      <<updateThreadRatchetStates(p, Ratchet(t1), Null),
                        createConvo(x, p, t, s1, s2),
                        updateSessionKeys(x, p, AfterAEAD(s1), Null)>>, {s1})
           /\ Watched(s1) => s1 \notin K
<1> DEFINE m == n + 1
           st1 == updateThreadRatchetStates(p, Ratchet(t1), Null)
           st2 == createConvo(x, p, t, s1, s2)
           st3 == updateSessionKeys(x, p, AfterAEAD(s1), Null)
           e == Executed(d, st1)
           f == Executed(e, st2)
           g == Executed(f, st3)
<1>0. t1 \in ThreadStates /\ s1 \in SessionKeys /\ s2 \in SessionKeys
  BY ReadyHasStates, KeysType
<1>1. m \in Nat /\ Clean(c, m, d, K)
  BY CleanView
<1>2. Moved(d, e, p, s1) /\ e \in Databases /\ e.convos = d.convos
  BY ExecutedRatchet DEF Moved
<1> HIDE DEF e, m
<1>3. /\ Clean(c, m, e, K)
      /\ KeyClean(c, m, e, s1)
      /\ Unused(d, K, s1) /\ Unused(e, K, s1)
  BY <1>0, <1>1, <1>2, CleanRatchet
<1>4. /\ f \in Databases /\ f.contacts = e.contacts
      /\ \A y \in Draws \ {x} : f.convos[y] = e.convos[y]
      /\ f.convos[x] \in ConvoRows /\ f.convos[x] # Null
      /\ f.convos[x].peer = p /\ f.convos[x].c1 = s1
  BY <1>0, <1>2, ExecutedCreate
<1> HIDE DEF f
<1>5. Clean(c, m, f, K)
  BY <1>1, <1>2, <1>3, <1>4, CleanConvo
<1>6. Watched(s1) => s1 \notin K
  BY <1>3 DEF Unused, SameChain
<1>7. /\ Clean(c, m, g, K) /\ Clean(c, m, g, K \cup {s1})
  <2>1. AfterAEAD(s1) \in SessionKeys
    BY <1>0, KeysType
  <2>2. /\ g \in Databases /\ g.contacts = f.contacts
        /\ \A y \in Draws \ {x} : g.convos[y] = f.convos[y]
        /\ g.convos[x] # Null /\ g.convos[x].c1 = AfterAEAD(s1)
    BY <1>4, <2>1, ExecutedKeys
  <2> HIDE DEF g
  <2> QED
    BY <1>1, <1>4, <1>5, <2>2, CleanUse
<1>8. ~Violates(d, st1) /\ ~Violates(d, st2) /\ ~Violates(d, st3)
  BY DEF Violates, updateThreadRatchetStates, createConvo, updateSessionKeys
<1> HIDE DEF g, st1, st2, st3
<1>9. /\ After1(d, <<st1, st2, st3>>) = e /\ After2(d, <<st1, st2, st3>>) = f
      /\ After3(d, <<st1, st2, st3>>) = g /\ After4(d, <<st1, st2, st3>>) = g
  BY AfterThree DEF e, f, g
<1>10. /\ Len(<<st1, st2, st3>>) = 3
       /\ \A i \in DOMAIN <<st1, st2, st3>> : <<st1, st2, st3>>[i] \in {st1, st2, st3}
  OBVIOUS
<1>11. Planned(c, m, d, K, <<st1, st2, st3>>, {s1})
  BY <1>1, <1>3, <1>5, <1>7, <1>8, <1>9, <1>10 DEF Planned
<1> QED
  BY <1>6, <1>11 DEF m, st1, st2, st3

\* A new thread at the receiver, who sends with the responder's state.  Between
\* the first two statements that state may be given again, but is not watched
\* if the client may be killed there.
LEMMA CleanReceive ==
    ASSUME NEW c \in Clients, NEW n \in Nat, NEW d \in Databases,
           NEW K \in SUBSET SessionKeys, Clean(c, n, d, K), NEW p \in Clients,
           threadRatchetStatesReady(d, p), NEW x \in Draws, d.convos[x] = Null,
           NEW t2, t2 = d.contacts[p].c2,
           NEW s1, s1 = InitiatorThread(t2), NEW s2, s2 = ResponderThread(t2),
           NEW e, e = Executed(d, createConvo(x, p, Null, s2, s1)),
           NEW f, f = Executed(e, updateThreadRatchetStates(p, Null, Ratchet(t2)))
    PROVE  /\ e \in Databases /\ f \in Databases
           /\ "crash" \in Faults => Clean(c, n, e, K)
           /\ Clean(c, n, f, K)
<1> DEFINE g == Executed(d, updateThreadRatchetStates(p, Null, Ratchet(t2)))
<1>0. t2 \in ThreadStates /\ s1 \in SessionKeys /\ s2 \in SessionKeys
  BY ReadyHasStates, KeysType
<1>1. Moved(d, g, p, s2)
  BY ExecutedRatchet
<1>2. /\ e \in Databases /\ e.contacts = d.contacts
      /\ \A y \in Draws \ {x} : e.convos[y] = d.convos[y]
      /\ e.convos[x] # Null /\ e.convos[x].c1 = s2
  <2>1. Null \in Texts \cup {Null}
    OBVIOUS
  <2> QED
    BY <1>0, <2>1, ExecutedCreate
<1>3. Moved(e, f, p, s2)
  <2>1. threadRatchetStatesReady(e, p) /\ e.contacts[p].c2 = t2
    BY <1>2 DEF threadRatchetStatesReady
  <2> QED
    BY <1>2, <2>1, ExecutedRatchet
<1> HIDE DEF g
<1>4. Clean(c, n, g, K) /\ KeyClean(c, n, g, s2) /\ Unused(g, K, s2)
  BY <1>0, <1>1, CleanRatchet
<1>5. /\ f \in Databases /\ g \in Databases
      /\ f.convos = e.convos /\ g.convos = d.convos
      /\ f.contacts = g.contacts
  <2>1. s2 # InitiatorThread(d.contacts[p].c1)
    BY DEF InitiatorThread, ResponderThread
  <2>2. /\ f.contacts[p] = [d.contacts[p] EXCEPT !.c2 = Ratchet(t2)]
        /\ g.contacts[p] = [d.contacts[p] EXCEPT !.c2 = Ratchet(t2)]
    BY <1>1, <1>2, <1>3, <2>1 DEF Moved
  <2>3. ASSUME NEW q \in Clients PROVE f.contacts[q] = g.contacts[q]
    <3>1. q # p => f.contacts[q] = e.contacts[q] /\ g.contacts[q] = d.contacts[q]
      BY <1>1, <1>3 DEF Moved
    <3> QED
      BY <1>2, <2>2, <3>1
  <2>4. f \in Databases /\ g \in Databases
    BY <1>1, <1>3 DEF Moved
  <2>5. f.contacts = g.contacts
    BY <2>3, <2>4 DEF Databases
  <2> QED
    BY <1>1, <1>3, <2>4, <2>5 DEF Moved
<1>6. Clean(c, n, f, K)
  BY <1>2, <1>4, <1>5, CleanConvo
<1>7. ASSUME "crash" \in Faults PROVE Clean(c, n, e, K)
  <2>1. ~Watched(s2)
    BY <1>7 DEF Watched, ResponderThread
  <2>2. KeyClean(c, n, d, s2) /\ Unused(d, K, s2)
    BY <2>1 DEF KeyClean, Unused
  <2> QED
    BY <1>2, <2>2, CleanConvo
<1> QED
  BY <1>2, <1>5, <1>6, <1>7

LEMMA PlanReceive ==
    ASSUME "roles" \in Mended, NEW c \in Clients, NEW n \in Nat, NEW d \in Databases,
           NEW K \in SUBSET SessionKeys, Clean(c, n, d, K), NEW m \in Msgs,
           threadRatchetStatesReady(d, m.from), d.convos[m.convo] = Null,
           newThread(d, c, m) \in Seq(Statements)
    PROVE  Planned(c, n, d, K, newThread(d, c, m), {})
<1> DEFINE p == m.from
           x == m.convo
           ws == newThread(d, c, m)
           t2 == d.contacts[p].c2
           s1 == InitiatorThread(t2)
           s2 == ResponderThread(t2)
           st1 == createConvo(x, p, Null, s2, s1)
           st2 == updateThreadRatchetStates(p, Null, Ratchet(t2))
           st3 == updateSessionKeys(x, p, Null, AfterAEAD(s1))
           st4 == updateTitle(x, p, m.content.text)
           e == Executed(d, st1)
           f == Executed(e, st2)
<1>0. p \in Clients /\ x \in Draws
  BY DEF Msgs, H!Messages
<1>1. /\ e \in Databases /\ f \in Databases
      /\ "crash" \in Faults => Clean(c, n, e, K)
      /\ Clean(c, n, f, K)
  BY <1>0, CleanReceive
<1>2. \/ ws = <<st1, st2>>
      \/ ws = <<st1, st2, st4>>
      \/ ws = <<st1, st2, st3, st4>>
  BY NewThreadForms
<1>3. /\ \A g : ~Violates(g, st1) /\ ~Violates(g, st2) /\ ~Violates(g, st3)
                /\ ~Violates(g, st4)
      /\ st3.do = "updateSessionKeys" /\ st3.c1 = Null
      /\ st4.do = "updateTitle"
  BY DEF Violates, createConvo, updateThreadRatchetStates, updateSessionKeys, updateTitle
<1> HIDE DEF e, f, st1, st2, st3, st4, ws
<1>4. ASSUME NEW g \in Databases, Clean(c, n, g, K), NEW st \in Statements,
             st \in {st3, st4}
      PROVE  Executed(g, st) \in Databases /\ Clean(c, n, Executed(g, st), K)
  BY <1>3, <1>4, QuietStatements, ExecutedType
<1>5. K \cup {} = K
  OBVIOUS
<1>6. CASE ws = <<st1, st2>>
  <2>1. /\ After1(d, ws) = e /\ After2(d, ws) = f
        /\ After3(d, ws) = f /\ After4(d, ws) = f
    BY <1>6, AfterTwo DEF e, f
  <2>2. Len(ws) = 2 /\ \A i \in DOMAIN ws : ws[i] \in {st1, st2}
    BY <1>6
  <2> QED
    BY <1>1, <1>3, <1>5, <2>1, <2>2 DEF Planned, ws
<1>7. CASE ws = <<st1, st2, st4>>
  <2> DEFINE g == Executed(f, st4)
  <2>1. /\ After1(d, ws) = e /\ After2(d, ws) = f
        /\ After3(d, ws) = g /\ After4(d, ws) = g
    BY <1>7, AfterThree DEF e, f
  <2>2. Len(ws) = 3 /\ \A i \in DOMAIN ws : ws[i] \in {st1, st2, st4}
    BY <1>7
  <2>3. st4 \in Statements
    <3>1. ws[3] = st4 /\ 3 \in DOMAIN ws
      BY <1>7
    <3>2. ws \in Seq(Statements)
      BY DEF ws
    <3> QED
      BY <3>1, <3>2
  <2>4. Clean(c, n, g, K)
    BY <1>1, <1>4, <2>3
  <2> HIDE DEF g
  <2> QED
    BY <1>1, <1>3, <1>5, <2>1, <2>2, <2>4 DEF Planned, ws
<1>8. CASE ws = <<st1, st2, st3, st4>>
  <2> DEFINE g == Executed(f, st3)
             h == Executed(g, st4)
  <2>1. /\ After1(d, ws) = e /\ After2(d, ws) = f
        /\ After3(d, ws) = g /\ After4(d, ws) = h
    BY <1>8, AfterFour DEF e, f
  <2>2. Len(ws) = 4 /\ \A i \in DOMAIN ws : ws[i] \in {st1, st2, st3, st4}
    BY <1>8
  <2>3. st3 \in Statements /\ st4 \in Statements
    <3>1. ws[3] = st3 /\ 3 \in DOMAIN ws /\ ws[4] = st4 /\ 4 \in DOMAIN ws
      BY <1>8
    <3>2. ws \in Seq(Statements)
      BY DEF ws
    <3> QED
      BY <3>1, <3>2
  <2>4. Clean(c, n, g, K) /\ Clean(c, n, h, K)
    BY <1>1, <1>4, <2>3
  <2> HIDE DEF g, h
  <2> QED
    BY <1>1, <1>3, <1>5, <2>1, <2>2, <2>4 DEF Planned, ws
<1> QED
  BY <1>2, <1>6, <1>7, <1>8 DEF ws

\* Whatever message arrives, the statements it causes keep the database clean.
LEMMA PlanDispatch ==
    ASSUME "roles" \in Mended, NEW c \in Clients, NEW n \in Nat, NEW d \in Databases,
           NEW K \in SUBSET SessionKeys, Clean(c, n, d, K), NEW m \in Msgs
    PROVE  Planned(c, n, d, K, Dispatch(d, c, m), {})
<1> DEFINE p == m.from
           x == m.convo
<1>0. p \in Clients /\ x \in Draws /\ m.content \in Contents
  BY DEF Msgs, H!Messages
<1>1. Planned(c, n, d, K, <<>>, {})
  <2>1. K \cup {} = K
    OBVIOUS
  <2> QED
    BY <2>1, PlannedNone
<1>2. CASE getStateContact(d, p) = "noContact"
  <2>1. d.contacts[p] = Null
    BY <1>2 DEF getStateContact
  <2>2. \A ct \in Contents : Planned(c, n, d, K, <<addContactFromReq(p, ct)>>, {})
    BY <1>0, <2>1, PlanForget
  <2> QED
    BY <1>0, <1>2, <2>2 DEF Dispatch
<1>3. CASE getStateContact(d, p) = "waitingForAccept"
  <2> DEFINE e == d.contacts[p].blob
             f == m.content.resp
  <2>1. /\ d.contacts[p] # Null /\ d.contacts[p].tag = 0 /\ e \in Draws
    BY <1>0, <1>3, WaitingBlobs DEF getStateContact
  <2>2. CASE finishAddContact(e, m.content)
    <3>1. f \in Draws
      BY <1>0, <2>2, ContentsKinds DEF finishAddContact
    <3>2. Planned(c, n, d, K,
                  <<finalizeContact(p, ThreadState(e, f, "initiator"),
                                       ThreadState(e, f, "responder"))>>, {})
      BY <1>0, <2>1, <3>1, PlanFinish
    <3> QED
      BY <1>3, <2>2, <3>2 DEF Dispatch, aliceAckAcceptContact
  <2>3. CASE ~finishAddContact(e, m.content)
    BY <1>1, <1>3, <2>3 DEF Dispatch, aliceAckAcceptContact
  <2> QED
    BY <2>2, <2>3
<1>4. CASE getStateContact(d, p) = "contactAdded"
  <2>0. Dispatch(d, c, m) = handleNewMessage(d, c, m)
    BY <1>4 DEF Dispatch
  <2>1. Dispatch(d, c, m) \in Seq(Statements)
    BY DispatchType
  <2>2. CASE ~ConvoExist(d, x) /\ threadRatchetStatesReady(d, p)
    <3>1. Dispatch(d, c, m) = newThread(d, c, m)
      BY <2>0, <2>2 DEF handleNewMessage
    <3> QED
      BY <2>1, <2>2, <3>1, PlanReceive DEF ConvoExist
  <2>3. CASE /\ ConvoExist(d, x) /\ sessionKeysFound(d, x, p)
             /\ decryptMessage(d.convos[x].c2, c, m)
    <3> DEFINE st1 == updateSessionKeys(x, p, Null, AfterAEAD(d.convos[x].c2))
               st2 == storeMessage(x, FALSE, m.content.text)
               ws == Dispatch(d, c, m)
               e == Executed(d, st1)
               f == Executed(e, st2)
    <3>1. ws = <<st1, st2>>
      BY <2>0, <2>3 DEF handleNewMessage
    <3>2. /\ st1.do = "updateSessionKeys" /\ st1.c1 = Null /\ st2.do = "storeMessage"
          /\ ~Violates(d, st1) /\ ~Violates(d, st2)
      BY DEF updateSessionKeys, storeMessage, Violates
    <3> HIDE DEF st1, st2, ws
    <3>3. ws \in Seq(Statements)
      BY <2>1 DEF ws
    <3>4. st1 \in Statements /\ st2 \in Statements
      <4>1. ws[1] = st1 /\ ws[2] = st2 /\ 1 \in DOMAIN ws /\ 2 \in DOMAIN ws
        BY <3>1
      <4> QED
        BY <3>3, <4>1
    <3>5. e \in Databases /\ Clean(c, n, e, K)
      BY <3>2, <3>4, QuietStatements, ExecutedType
    <3> HIDE DEF e
    <3>6. Clean(c, n, f, K)
      BY <3>2, <3>4, <3>5, QuietStatements
    <3> HIDE DEF f
    <3>7. /\ After1(d, ws) = e /\ After2(d, ws) = f
          /\ After3(d, ws) = f /\ After4(d, ws) = f
      BY <3>1, AfterTwo DEF e, f
    <3>8. Len(ws) = 2 /\ \A i \in DOMAIN ws : ws[i] \in {st1, st2}
      BY <3>1
    <3>9. K \cup {} = K
      OBVIOUS
    <3>10. Planned(c, n, d, K, ws, {})
      BY <3>2, <3>5, <3>6, <3>7, <3>8, <3>9 DEF Planned
    <3> QED
      BY <3>10 DEF ws
  <2>4. CASE Dispatch(d, c, m) = <<>>
    BY <1>1, <2>4
  <2> QED
    BY <2>0, <2>2, <2>3, <2>4 DEF handleNewMessage
<1>5. CASE getStateContact(d, p) \notin {"noContact", "waitingForAccept", "contactAdded"}
  BY <1>1, <1>5 DEF Dispatch
<1> QED
  BY <1>2, <1>3, <1>4, <1>5

\* storeMessage, when the hub has the message.
LEMMA PlanStore ==
    ASSUME NEW c \in Clients, NEW n \in Nat, NEW d \in Databases,
           NEW K \in SUBSET SessionKeys, Clean(c, n, d, K),
           NEW ws \in Seq(Statements), Stores(ws)
    PROVE  Planned(c, n, d, K, ws, {})
<1>1. CASE ws = <<>>
  <2>1. K \cup {} = K
    OBVIOUS
  <2> QED
    BY <1>1, <2>1, PlannedNone
<1>2. CASE ws # <<>>
  <2>1. Len(ws) = 1
    <3>1. Len(ws) \in Nat /\ Len(ws) # 0 /\ DOMAIN ws = 1 .. Len(ws)
      BY <1>2
    <3>2. Len(ws) \in DOMAIN ws
      BY <3>1
    <3> QED
      BY <3>2 DEF Stores
  <2>2. ws[1] \in Statements /\ ws[1].do = "storeMessage" /\ DOMAIN ws = {1}
    BY <2>1 DEF Stores
  <2>3. ~Violates(d, ws[1])
    BY <2>2 DEF Violates
  <2> DEFINE e == Executed(d, ws[1])
  <2>4. Clean(c, n, e, K)
    BY <2>2, QuietStatements
  <2> HIDE DEF e
  <2>5. /\ After1(d, ws) = e /\ After2(d, ws) = e
        /\ After3(d, ws) = e /\ After4(d, ws) = e
    BY <2>1 DEF After1, After2, After3, After4, Done, e
  <2>6. K \cup {} = K
    OBVIOUS
  <2> QED
    BY <2>1, <2>2, <2>3, <2>4, <2>5, <2>6 DEF Planned
<1> QED
  BY <1>1, <1>2

-----------------------------------------------------------------------------
(* The inductive invariant *)

\* The states that a sequence of ciphertexts was made with.
Used(cts) == {cts[i].key : i \in DOMAIN cts}

\* The state that the ciphertext in a request was made with.
KeysOf(req) ==
    {s \in SessionKeys : /\ req # Null /\ req.type = "SendMessage"
                         /\ req.content.kind = "aead" /\ req.content.key = s}

\* Whenever no call runs the database is clean; a call that runs leaves it so.
CallsClean(c, n, d, K, calls) ==
    /\ (\A w \in Workers : calls[w] = Idle) => Clean(c, n, d, K)
    /\ \A w \in Workers : calls[w] # Idle =>
          Planned(c, n, d, K, calls[w].writes, KeysOf(calls[w].ask))

\* The connection of c takes a request.
CanAsk(c) == hubConn[c] = Null \/ (conn[hubConn[c]].up /\ ~Exchanging(c))

\* The state of a request that may still go out was not used.
AskedOnce(c) ==
    \A w \in Workers : \A s \in KeysOf(op[c][w].ask) :
        CanAsk(c) /\ Watched(s) => s \notin Used(sent[c])

\* No state that is accounted for made two ciphertexts.
SentOnce(c) ==
    \A i, j \in DOMAIN sent[c] :
        Watched(sent[c][i].key) /\ sent[c][i].key = sent[c][j].key => i = j

ClientKeys(c) ==
    /\ CallsClean(c, draws[c], db[c], Used(sent[c]), op[c])
    /\ AskedOnce(c)
    /\ SentOnce(c)

\* hub.conn is a connection that the client opened.
ConnsOwned == \A c \in Clients : hubConn[c] # Null => conn[hubConn[c]].owner = c

Keys == ConnsOwned /\ \A c \in Clients : ClientKeys(c)

\* The states of the requests that the calls make.
LEMMA KeysOfRequests ==
    /\ KeysOf(Null) = {}
    /\ KeysOf(H!GetNextMessage) = {}
    /\ \A to, x, ct, fits : ct.kind # "aead" => KeysOf(H!SendMessage(to, x, ct, fits)) = {}
    /\ \A s \in SessionKeys : \A x, y, me, p, t :
          \/ KeysOf(ToHub(x, encryptMessage(s, y, me, p, t))) = {}
          \/ KeysOf(ToHub(x, encryptMessage(s, y, me, p, t))) = {s}
<1>1. KeysOf(Null) = {}
  BY DEF KeysOf
<1>2. KeysOf(H!GetNextMessage) = {}
  BY DEF KeysOf, H!GetNextMessage
<1>3. \A to, x, ct, fits : ct.kind # "aead" => KeysOf(H!SendMessage(to, x, ct, fits)) = {}
  BY DEF KeysOf, H!SendMessage
<1>4. ASSUME NEW s \in SessionKeys, NEW x, NEW y, NEW me, NEW p, NEW t
      PROVE  \/ KeysOf(ToHub(x, encryptMessage(s, y, me, p, t))) = {}
             \/ KeysOf(ToHub(x, encryptMessage(s, y, me, p, t))) = {s}
  <2> DEFINE ct == encryptMessage(s, y, me, p, t)
             req == ToHub(x, ct)
  <2>1. ct.kind = "aead" /\ ct.key = s
    BY DEF encryptMessage
  <2> HIDE DEF ct
  <2>2. req = Null \/ req = H!SendMessage(ct.to, x, ct, ct.text.size = "fits")
    BY DEF ToHub
  <2> HIDE DEF req
  <2>3. CASE req = Null
    BY <1>1, <2>3 DEF req, ct
  <2>4. CASE req # Null
    <3>1. req.type = "SendMessage" /\ req.content = ct
      BY <2>2, <2>4 DEF H!SendMessage
    <3>2. KeysOf(req) = {s}
      BY <2>1, <2>4, <3>1 DEF KeysOf
    <3> QED
      BY <3>2 DEF req, ct
  <2> QED
    BY <2>3, <2>4
<1> QED
  BY <1>1, <1>2, <1>3, <1>4

\* A call is planned without the state of a request that it does not make.
LEMMA PlannedFewer ==
    ASSUME NEW c, NEW n, NEW d, NEW K, NEW ws, NEW ks, Planned(c, n, d, K, ws, ks),
           NEW ls \in SUBSET ks
    PROVE  Planned(c, n, d, K, ws, ls)
BY DEF Planned, Clean

\* A client whose part of the state does not change.
LEMMA OthersKeys ==
    ASSUME NEW q \in Clients, ClientKeys(q), db'[q] = db[q], op'[q] = op[q],
           draws'[q] = draws[q], sent'[q] = sent[q], CanAsk(q)' => CanAsk(q)
    PROVE  ClientKeys(q)'
BY DEF ClientKeys, AskedOnce, SentOnce

\* A call is replaced by another one, or ends.
LEMMA CallReplaced ==
    ASSUME NEW c, NEW n, NEW d, NEW K, NEW calls, NEW w \in Workers,
           \A v \in Workers \ {w} : calls[v] = Idle,
           Planned(c, n, d, K, calls[w].writes, KeysOf(calls[w].ask)),
           calls[w].writes = <<>> => Clean(c, n, d, K)
    PROVE  CallsClean(c, n, d, K, calls)
<1>1. Idle.writes = <<>>
  BY DEF Idle, Call
<1> QED
  BY <1>1 DEF CallsClean

\* A call without statements is planned from a clean database.
LEMMA PlannedClean ==
    ASSUME NEW c, NEW n, NEW d, NEW K, NEW ks, Planned(c, n, d, K, <<>>, ks)
    PROVE  Clean(c, n, d, K)
BY PlannedNone, CleanFewer

LEMMA UsedType ==
    ASSUME IInv, NEW c \in Clients
    PROVE  /\ db[c] \in Databases /\ draws[c] \in Nat
           /\ Used(sent[c]) \in SUBSET SessionKeys
           /\ op \in [Clients -> [Workers -> Calls]]
           /\ conn \in [Conns -> Wires]
           /\ hubConn \in [Clients -> Conns \cup {Null}]
<1>1. /\ db[c] \in Databases /\ draws[c] \in Nat /\ sent[c] \in Seq(Ciphertexts)
      /\ op \in [Clients -> [Workers -> Calls]]
      /\ conn \in [Conns -> Wires]
      /\ hubConn \in [Clients -> Conns \cup {Null}]
  BY MaxDrawsAssumption DEF IInv, TypeOK
<1>2. \A i \in DOMAIN sent[c] : sent[c][i].key \in SessionKeys
  <2>1. \A i \in DOMAIN sent[c] : sent[c][i] \in Ciphertexts
    BY <1>1
  <2> QED
    BY <2>1 DEF Ciphertexts
<1> QED
  BY <1>1, <1>2 DEF Used

\* A call that starts keeps the invariant if it is planned.
LEMMA BeginKeys ==
    ASSUME IInv, Keys, NEW c \in Clients, NEW w \in Workers, NEW call,
           Begin(c, w, call),
           \A q \in Clients \ {c} : draws'[q] = draws[q],
           Planned(c, draws'[c], db[c], Used(sent[c]), call.writes, KeysOf(call.ask)),
           call.writes = <<>> => draws'[c] = draws[c],
           \A s \in KeysOf(call.ask) : Watched(s) => s \notin Used(sent[c])
    PROVE  Keys'
<1>1. /\ op \in [Clients -> [Workers -> Calls]]
      /\ op' = [op EXCEPT ![c][w] = call]
      /\ UNCHANGED <<db, hubConn, conn, sent>>
      /\ \A v \in Workers : op[c][v] = Idle
  BY UsedType DEF Begin, MutexFree
<1>2. /\ \A q \in Clients \ {c} : op'[q] = op[q]
      /\ \A v \in Workers \ {w} : op'[c][v] = Idle
      /\ op'[c][w] = call
  BY <1>1
<1>3. \A q \in Clients : CanAsk(q)' <=> CanAsk(q)
  BY <1>1 DEF CanAsk, Exchanging
<1>4. \A q \in Clients \ {c} : ClientKeys(q)'
  BY <1>1, <1>2, <1>3, OthersKeys DEF Keys
<1>5. ClientKeys(c)'
  <2>1. Clean(c, draws[c], db[c], Used(sent[c]))
    BY <1>1 DEF Keys, ClientKeys, CallsClean
  <2>2. CallsClean(c, draws'[c], db[c], Used(sent[c]), op'[c])
    BY <1>2, <2>1, CallReplaced
  <2>3. KeysOf(Idle.ask) = {}
    BY KeysOfRequests DEF Idle, Call
  <2>4. \A v \in Workers : \A s \in KeysOf(op'[c][v].ask) :
           Watched(s) => s \notin Used(sent[c])
    BY <1>2, <2>3
  <2>5. SentOnce(c)
    BY DEF Keys, ClientKeys
  <2> QED
    BY <1>1, <2>2, <2>4, <2>5 DEF ClientKeys, AskedOnce, SentOnce
<1>6. ConnsOwned'
  BY <1>1 DEF Keys, ConnsOwned
<1> QED
  BY <1>4, <1>5, <1>6 DEF Keys

\* A user's call.
LEMMA CallsKeys ==
    ASSUME IInv, IInv', Secrets, Keys, NEW c \in Clients, NEW w \in Workers,
           NEW p \in Clients,
           \/ aliceAddContact(c, w, p)
           \/ bobAcceptContact(c, w, p)
           \/ doDeleteContact(c, w, p)
           \/ \E size \in Sizes :
                 \/ sendNewThread(c, w, p, size)
                 \/ \E id \in Draws : sendInConvo(c, w, id, p, size)
           \/ getNextMessage(c, w)
    PROVE  Keys'
<1> DEFINE d == db[c]
           n == draws[c]
           K == Used(sent[c])
<1>0. d \in Databases /\ n \in Nat /\ K \in SUBSET SessionKeys
  BY UsedType
<1>01. ASSUME Draw(c)
       PROVE  /\ draws'[c] = n + 1
              /\ \A q \in Clients \ {c} : draws'[q] = draws[q]
              /\ Fresh(c) \in Draws /\ Fresh(c).who = c /\ Fresh(c).no = n + 1
              /\ d.convos[Fresh(c)] = Null
              /\ \A size \in Sizes : Typed(c, size) \in Texts
  <2>1. draws' = [draws EXCEPT ![c] = n + 1] /\ draws \in [Clients -> 0 .. MaxDraws]
    BY <1>01 DEF Draw, IInv, TypeOK
  <2>2. Fresh(c) \in Draws /\ \A size \in Sizes : Typed(c, size) \in Texts
    BY <1>01, DrawType DEF IInv
  <2>3. Fresh(c).who = c /\ Fresh(c).no = n + 1
    BY DEF Fresh
  <2>4. ~Drawn(draws, Fresh(c))
    BY <1>0, <2>3 DEF Drawn
  <2>5. d.convos[Fresh(c)] = Null
    BY <2>2, <2>4 DEF Secrets, DrawnOnly, RowsDrawn, DrawnRows
  <2> QED
    BY <2>1, <2>2, <2>3, <2>5
<1>02. ASSUME MutexFree(c) PROVE Clean(c, n, d, K)
  BY <1>02 DEF MutexFree, Keys, ClientKeys, CallsClean
<1>03. ASSUME NEW m, NEW writes, NEW ask, NEW after, NEW ks,
              Begin(c, w, Call(writes, ask, after)),
              \A q \in Clients \ {c} : draws'[q] = draws[q], draws'[c] = m,
              Planned(c, m, d, K, writes, ks),
              KeysOf(ask) \in SUBSET ks,
              writes = <<>> => m = n,
              \A s \in ks : Watched(s) => s \notin K
       PROVE  Keys'
  <2> DEFINE call == Call(writes, ask, after)
  <2>1. call.writes = writes /\ call.ask = ask
    BY DEF Call
  <2>2. Planned(c, m, d, K, writes, KeysOf(ask))
    BY <1>03, PlannedFewer
  <2>3. \A s \in KeysOf(ask) : Watched(s) => s \notin K
    BY <1>03
  <2> HIDE DEF call, d, n, K
  <2>4. Begin(c, w, call) /\ Planned(c, draws'[c], d, K, call.writes, KeysOf(call.ask))
    BY <1>03, <2>1, <2>2 DEF call
  <2>5. /\ call.writes = <<>> => draws'[c] = n
        /\ \A s \in KeysOf(call.ask) : Watched(s) => s \notin K
    BY <1>03, <2>1, <2>3
  <2> QED
    BY <1>03, <2>4, <2>5, BeginKeys DEF d, n, K
<1> HIDE DEF K
<1>1. CASE aliceAddContact(c, w, p)
  <2> DEFINE ct == FirstHandshakeMessage(Fresh(c))
             ask == H!SendMessage(p, Fresh(c), ct, "hex" \in Mended)
             writes == <<addContact(p, Fresh(c))>>
  <2>1. Draw(c) /\ Begin(c, w, Call(writes, ask, <<>>)) /\ MutexFree(c)
    BY <1>1 DEF aliceAddContact, Begin
  <2>2. d.contacts[p] = Null
    BY <1>1 DEF aliceAddContact, getStateContact
  <2>3. Planned(c, n + 1, d, K, writes, {})
    BY <1>0, <1>01, <1>02, <2>1, <2>2, PlanAdd
  <2>4. KeysOf(ask) = {}
    BY KeysOfRequests DEF FirstHandshakeMessage
  <2>5. writes # <<>>
    OBVIOUS
  <2> HIDE DEF ask, writes
  <2> QED
    BY <1>01, <1>03, <2>1, <2>3, <2>4, <2>5
<1>2. CASE bobAcceptContact(c, w, p)
  <2> DEFINE blob == d.contacts[p].blob
             writes == <<finalizeContact(p, ThreadState(blob.init, Fresh(c), "responder"),
                                            ThreadState(blob.init, Fresh(c), "initiator"))>>
             ct == SecondHandshakeMessage(blob, Fresh(c))
             ask == IF "forward" \in Mended
                    THEN H!SendMessage(p, Fresh(c), ct, TRUE) ELSE Null
  <2>1. Draw(c) /\ Begin(c, w, Call(writes, ask, <<>>)) /\ MutexFree(c)
    BY <1>2 DEF bobAcceptContact, Begin
  <2>2. d.contacts[p] # Null /\ blob.init \in Draws
    <3>1. getStateContact(d, p) = "waitingToAccept" /\ acceptContact(blob)
      BY <1>2 DEF bobAcceptContact
    <3>2. blob \in Contents
      BY <1>0, <3>1, WaitingBlobs
    <3> QED
      BY <3>1, <3>2, ContentsKinds DEF acceptContact, getStateContact
  <2>3. Planned(c, n + 1, d, K, writes, {})
    BY <1>0, <1>01, <1>02, <2>1, <2>2, PlanAccept
  <2>4. KeysOf(ask) = {}
    BY KeysOfRequests DEF SecondHandshakeMessage
  <2>5. writes # <<>>
    OBVIOUS
  <2> HIDE DEF ask, writes
  <2> QED
    BY <1>01, <1>03, <2>1, <2>3, <2>4, <2>5
<1>3. CASE doDeleteContact(c, w, p)
  <2> DEFINE writes == <<deleteContact(p)>>
  <2>1. Begin(c, w, Call(writes, Null, <<>>)) /\ MutexFree(c) /\ UNCHANGED draws
    BY <1>3 DEF doDeleteContact, Begin
  <2>2. Planned(c, n, d, K, writes, {})
    BY <1>0, <1>02, <2>1, PlanForget
  <2>3. KeysOf(Null) = {}
    BY KeysOfRequests
  <2> HIDE DEF writes
  <2> QED
    BY <1>03, <2>1, <2>2, <2>3
<1>4. ASSUME NEW size \in Sizes, sendNewThread(c, w, p, size) PROVE Keys'
  <2> DEFINE id == Fresh(c)
             t1 == d.contacts[p].c1
             s1 == InitiatorThread(t1)
             s2 == ResponderThread(t1)
             text == Typed(c, size)
             writes == <<updateThreadRatchetStates(p, Ratchet(t1), Null),
                         createConvo(id, p, text, s1, s2),
                         updateSessionKeys(id, p, AfterAEAD(s1), Null)>>
             ask == ToHub(id, encryptMessage(s1, id, c, p, text))
  <2>1. /\ Draw(c) /\ Begin(c, w, Call(writes, ask, <<>>)) /\ MutexFree(c)
        /\ threadRatchetStatesReady(d, p)
    BY <1>4 DEF sendNewThread, Begin
  <2>2. s1 \in SessionKeys
    BY <1>0, <2>1, ReadyHasStates, KeysType
  <2>3. /\ id \in Draws /\ d.convos[id] = Null /\ text \in Texts
        /\ Clean(c, n, d, K)
        /\ t1 = d.contacts[p].c1 /\ s1 = InitiatorThread(t1) /\ s2 = ResponderThread(t1)
    BY <1>01, <1>02, <2>1
  <2> HIDE DEF d, n, id, text, t1, s1, s2
  <2>4. /\ Planned(c, n + 1, d, K, writes, {s1})
        /\ Watched(s1) => s1 \notin K
    BY <1>0, <2>1, <2>3, PlanNewThread
  <2>5. KeysOf(ask) \in SUBSET {s1}
    BY <2>2, KeysOfRequests
  <2>6. writes # <<>>
    OBVIOUS
  <2> HIDE DEF ask, writes
  <2> QED
    BY <1>01, <1>03, <2>1, <2>4, <2>5, <2>6 DEF d, n
<1>5. ASSUME NEW size \in Sizes, NEW id \in Draws, sendInConvo(c, w, id, p, size)
      PROVE  Keys'
  <2> DEFINE s1 == d.convos[id].c1
             writes == <<updateSessionKeys(id, p, AfterAEAD(s1), Null)>>
             ask == ToHub(id, encryptMessage(s1, id, c, p, Typed(c, size)))
             after == IF "todo" \in Mended
                      THEN <<storeMessage(id, TRUE, Typed(c, size))>> ELSE <<>>
  <2>1. /\ Draw(c) /\ Begin(c, w, Call(writes, ask, after)) /\ MutexFree(c)
        /\ d.convos[id] # Null /\ d.convos[id].peer = p
    BY <1>5 DEF sendInConvo, Begin, sessionKeysFound
  <2>2. s1 \in SessionKeys
    BY <1>0, <2>1, FoundHasKeys
  <2>3. s1 = d.convos[id].c1 /\ Clean(c, n, d, K)
    BY <1>02, <2>1
  <2> HIDE DEF d, n, s1
  <2>4. /\ Planned(c, n + 1, d, K, writes, {s1})
        /\ Watched(s1) => s1 \notin K
    BY <1>0, <2>1, <2>3, PlanInConvo
  <2>5. KeysOf(ask) \in SUBSET {s1}
    BY <2>2, KeysOfRequests
  <2>6. writes # <<>>
    OBVIOUS
  <2> HIDE DEF ask, writes, after
  <2> QED
    BY <1>01, <1>03, <2>1, <2>4, <2>5, <2>6 DEF d, n
<1>6. CASE getNextMessage(c, w)
  <2>1. /\ Begin(c, w, Call(<<>>, H!GetNextMessage, <<>>)) /\ MutexFree(c)
        /\ UNCHANGED draws
    BY <1>6 DEF getNextMessage, Begin
  <2>2. Planned(c, n, d, K, <<>>, {})
    <3>1. K \cup {} = K
      OBVIOUS
    <3> QED
      BY <1>02, <2>1, <3>1, PlannedNone
  <2>3. KeysOf(H!GetNextMessage) = {}
    BY KeysOfRequests
  <2> QED
    BY <1>03, <2>1, <2>2, <2>3
<1> QED
  BY <1>1, <1>2, <1>3, <1>4, <1>5, <1>6

\* A statement is executed.
LEMMA WriteKeys ==
    ASSUME IInv, IInv', Secrets, Keys, NEW c \in Clients, NEW w \in Workers, Write(c, w)
    PROVE  Keys'
<1> DEFINE d == db[c]
           call == op[c][w]
           new == op'[c][w]
           ws == call.writes
           K == Used(sent[c])
           e == Executed(d, Head(ws))
<1>0. /\ d \in Databases /\ db \in [Clients -> Databases]
      /\ op \in [Clients -> [Workers -> Calls]]
      /\ call \in Calls /\ ws \in Seq(Statements) /\ ws # <<>>
      /\ UNCHANGED <<draws, hubConn, conn, sent>>
  BY DEF IInv, TypeOK, Calls, Write
<1>1. /\ call # Idle
      /\ \A v \in Workers \ {w} : op[c][v] = Idle
  BY <1>0 DEF Secrets, OneCall, Idle, Call
<1>2. Planned(c, draws[c], d, K, ws, KeysOf(call.ask)) /\ SafeWrites(d, ws)
  BY <1>1 DEF Keys, ClientKeys, CallsClean, Secrets, WritesSafe
<1>3. ~Violates(d, Head(ws))
  <2>1. 1 \in DOMAIN ws /\ Head(ws) = ws[1]
    BY <1>0
  <2> QED
    BY <1>2, <2>1 DEF Planned
<1>4. /\ \A q \in Clients \ {c} : db'[q] = db[q] /\ op'[q] = op[q]
      /\ db'[c] = e
      /\ \A v \in Workers \ {w} : op'[c][v] = Idle
      /\ new.writes = Tail(ws) /\ new.ask = call.ask
  <2>1. /\ op' = [op EXCEPT ![c][w].writes = Tail(ws)]
        /\ db' = [db EXCEPT ![c] = e]
    BY <1>3 DEF Write
  <2>2. /\ \A q \in Clients \ {c} : db'[q] = db[q] /\ op'[q] = op[q]
        /\ db'[c] = e
        /\ \A v \in Workers \ {w} : op'[c][v] = op[c][v]
        /\ new = [call EXCEPT !.writes = Tail(ws)]
    BY <1>0, <2>1
  <2>3. new.writes = Tail(ws) /\ new.ask = call.ask
    BY <1>0, <2>2 DEF Calls
  <2> QED
    BY <1>1, <2>2, <2>3
<1>5. Planned(c, draws[c], e, K, Tail(ws), KeysOf(call.ask))
  BY <1>0, <1>2, PlannedTail
<1> HIDE DEF e, K, new
<1>6. Tail(ws) = <<>> => Clean(c, draws[c], e, K)
  BY <1>5, PlannedClean
<1>7. CallsClean(c, draws[c], e, K, op'[c])
  BY <1>4, <1>5, <1>6, CallReplaced DEF new
<1>8. \A q \in Clients : CanAsk(q)' <=> CanAsk(q)
  BY <1>0 DEF CanAsk, Exchanging
<1>9. ClientKeys(c)'
  <2>1. AskedOnce(c) /\ SentOnce(c)
    BY DEF Keys, ClientKeys
  <2>2. KeysOf(Idle.ask) = {}
    BY KeysOfRequests DEF Idle, Call
  <2>3. AskedOnce(c)'
    BY <1>0, <1>4, <1>8, <2>1, <2>2 DEF AskedOnce, new
  <2> QED
    BY <1>0, <1>4, <1>7, <2>1, <2>3 DEF ClientKeys, SentOnce, K
<1>10. \A q \in Clients \ {c} : ClientKeys(q)'
  BY <1>0, <1>4, <1>8, OthersKeys DEF Keys
<1>11. ConnsOwned'
  BY <1>0 DEF Keys, ConnsOwned
<1> QED
  BY <1>9, <1>10, <1>11 DEF Keys

\* A step that leaves a connection to its owner cannot open another client's.
LEMMA OthersAsk ==
    ASSUME ConnsOwned, NEW c \in Clients, NEW q \in Clients \ {c}, NEW k \in Conns,
           hubConn'[q] = hubConn[q],
           \A l \in Conns \ {k} : conn'[l] = conn[l],
           conn[k].owner \in {c, Null}, hubConn[q] \in Conns \cup {Null}
    PROVE  /\ CanAsk(q)' <=> CanAsk(q)
           /\ hubConn'[q] # Null => conn'[hubConn'[q]].owner = q
<1>1. hubConn[q] # Null => hubConn[q] # k /\ hubConn[q] \in Conns
  BY WireAssumption DEF ConnsOwned
<1>2. hubConn[q] # Null => conn'[hubConn[q]] = conn[hubConn[q]]
  BY <1>1
<1> QED
  BY <1>2 DEF CanAsk, Exchanging, ConnsOwned

\* The request goes out.
LEMMA AskKeys ==
    ASSUME IInv, IInv', Secrets, Keys, NEW c \in Clients, NEW w \in Workers, Ask(c, w)
    PROVE  Keys'
<1> DEFINE ask == op[c][w].ask
           K == Used(sent[c])
           ks == KeysOf(ask)
<1>0. /\ op \in [Clients -> [Workers -> Calls]] /\ conn \in [Conns -> Wires]
      /\ hubConn \in [Clients -> Conns \cup {Null}]
      /\ sent \in [Clients -> Seq(Ciphertexts)]
      /\ op[c][w].writes = <<>> /\ ask \in Reqs /\ ask # Null
      /\ UNCHANGED <<db, op, draws>>
  BY DEF IInv, TypeOK, Calls, Ask, AtHub
<1>1. /\ op[c][w] # Idle
      /\ \A v \in Workers \ {w} : op[c][v] = Idle
  BY <1>0 DEF Secrets, OneCall, Idle, Call
<1>2. PICK k \in Conns :
         /\ IF hubConn[c] = Null THEN conn[k].owner = Null
            ELSE k = hubConn[c] /\ conn[k].up
         /\ hubConn' = [hubConn EXCEPT ![c] = k]
         /\ conn' = [conn EXCEPT ![k] = [owner |-> c, up |-> TRUE, req |-> ask, res |-> Null]]
  BY DEF Ask
<1>3. /\ conn[k].owner \in {c, Null}
      /\ \A q \in Clients \ {c} : hubConn'[q] = hubConn[q]
      /\ \A l \in Conns \ {k} : conn'[l] = conn[l]
      /\ hubConn'[c] = k /\ conn'[k].owner = c /\ conn'[k].req = ask
  BY <1>0, <1>2 DEF Keys, ConnsOwned
<1>4. CanAsk(c) /\ ~CanAsk(c)'
  <2>1. CanAsk(c)
    BY <1>2 DEF CanAsk, Ask
  <2>2. k # Null
    BY WireAssumption
  <2> QED
    BY <1>0, <1>3, <2>1, <2>2 DEF CanAsk, Exchanging
<1>5. \A q \in Clients \ {c} :
         /\ CanAsk(q)' <=> CanAsk(q)
         /\ hubConn'[q] # Null => conn'[hubConn'[q]].owner = q
  <2>1. ConnsOwned
    BY DEF Keys
  <2>2. \A q \in Clients : hubConn[q] \in Conns \cup {Null}
    BY <1>0
  <2> QED
    BY <1>3, <2>1, <2>2, OthersAsk
<1>6. /\ \A q \in Clients \ {c} : sent'[q] = sent[q]
      /\ \/ ks = {} /\ sent'[c] = sent[c]
         \/ ks = {ask.content.key} /\ sent'[c] = Append(sent[c], ask.content)
  <2>1. CASE ask.type = "SendMessage" /\ ask.content.kind = "aead"
    <3>1. sent' = [sent EXCEPT ![c] = Append(sent[c], ask.content)]
      BY <2>1 DEF Ask
    <3>2. ask.content \in Contents
      BY <1>0, <2>1 DEF Reqs, H!Requests
    <3>3. ask.content \in Ciphertexts
      BY <2>1, <3>2, ContentsKinds
    <3>4. ask.content.key \in SessionKeys
      BY <3>3 DEF Ciphertexts
    <3> QED
      BY <1>0, <2>1, <3>1, <3>4 DEF KeysOf
  <2>2. CASE ~(ask.type = "SendMessage" /\ ask.content.kind = "aead")
    BY <2>2 DEF Ask, KeysOf
  <2> QED
    BY <2>1, <2>2
<1>7. Used(sent'[c]) = K \cup ks
  <2>1. CASE sent'[c] = Append(sent[c], ask.content) /\ ks = {ask.content.key}
    <3> DEFINE s == sent[c]
               t == sent'[c]
    <3>1. /\ s \in Seq(Ciphertexts)
          /\ DOMAIN t = DOMAIN s \cup {Len(s) + 1} /\ t[Len(s) + 1] = ask.content
          /\ \A i \in DOMAIN s : t[i] = s[i]
      BY <1>0, <2>1
    <3> HIDE DEF s, t
    <3> QED
      BY <2>1, <3>1 DEF Used, s, t
  <2> QED
    BY <1>6, <2>1
<1>8. CallsClean(c, draws[c], db[c], K \cup ks, op[c])
  <2>1. Planned(c, draws[c], db[c], K, <<>>, ks)
    BY <1>0, <1>1 DEF Keys, ClientKeys, CallsClean
  <2>2. Clean(c, draws[c], db[c], K \cup ks)
    BY <2>1, PlannedNone
  <2>3. Planned(c, draws[c], db[c], K \cup ks, <<>>, ks)
    <3>1. (K \cup ks) \cup ks = K \cup ks
      OBVIOUS
    <3> HIDE DEF K, ks
    <3> QED
      BY <2>2, <3>1, PlannedNone
  <2> HIDE DEF K
  <2> QED
    BY <1>0, <1>1, <2>2, <2>3, CallReplaced
<1>9. SentOnce(c)'
  <2>1. SentOnce(c) /\ AskedOnce(c)
    BY DEF Keys, ClientKeys
  <2>2. CASE sent'[c] = sent[c]
    BY <2>1, <2>2 DEF SentOnce
  <2>3. CASE sent'[c] = Append(sent[c], ask.content) /\ ks = {ask.content.key}
    <3>1. Watched(ask.content.key) =>
             \A i \in DOMAIN sent[c] : sent[c][i].key # ask.content.key
      BY <1>4, <2>1, <2>3 DEF AskedOnce, Used
    <3>2. /\ DOMAIN sent'[c] = DOMAIN sent[c] \cup {Len(sent[c]) + 1}
          /\ sent'[c][Len(sent[c]) + 1] = ask.content
          /\ \A i \in DOMAIN sent[c] : sent'[c][i] = sent[c][i]
      BY <1>0, <2>3
    <3> QED
      BY <2>1, <3>1, <3>2 DEF SentOnce
  <2> QED
    BY <1>6, <2>2, <2>3
<1>10. ClientKeys(c)'
  <2>1. AskedOnce(c)'
    BY <1>4 DEF AskedOnce
  <2> QED
    BY <1>0, <1>7, <1>8, <1>9, <2>1 DEF ClientKeys
<1>11. \A q \in Clients \ {c} : ClientKeys(q)'
  BY <1>0, <1>5, <1>6, OthersKeys DEF Keys
<1>12. ConnsOwned'
  BY <1>3, <1>5 DEF ConnsOwned
<1> QED
  BY <1>10, <1>11, <1>12 DEF Keys

\* A call ends or goes on without a request; its client takes a connection or
\* gives it up.
LEMMA MovesOn ==
    ASSUME IInv, Secrets, Keys, NEW c \in Clients, UNCHANGED <<db, draws, sent>>,
           \A q \in Clients \ {c} :
              /\ op'[q] = op[q] /\ (CanAsk(q)' <=> CanAsk(q))
              /\ hubConn'[q] # Null => conn'[hubConn'[q]].owner = q,
           hubConn'[c] # Null => conn'[hubConn'[c]].owner = c,
           \A w \in Workers : op'[c][w].ask = Null,
           CallsClean(c, draws[c], db[c], Used(sent[c]), op'[c])
    PROVE  Keys'
<1>1. AskedOnce(c)'
  BY KeysOfRequests DEF AskedOnce
<1>2. SentOnce(c)'
  BY DEF SentOnce, Keys, ClientKeys
<1>3. ClientKeys(c)'
  BY <1>1, <1>2 DEF ClientKeys
<1>4. ASSUME NEW q \in Clients \ {c}
      PROVE  ClientKeys(q)'
  <2>1. /\ ClientKeys(q) /\ op'[q] = op[q] /\ db'[q] = db[q]
        /\ draws'[q] = draws[q] /\ sent'[q] = sent[q]
    BY <1>4 DEF Keys
  <2>2. CanAsk(q)' => CanAsk(q)
    BY <1>4
  <2> QED
    BY <1>4, <2>1, <2>2, OthersKeys
<1> QED
  BY <1>3, <1>4 DEF Keys, ConnsOwned

\* The answer comes in, or the exchange fails, or the client is killed.
LEMMA EndKeys ==
    ASSUME "roles" \in Mended, IInv, IInv', Secrets, Keys, NEW c \in Clients,
           \/ \E w \in Workers : Receive(c, w) \/ ConnError(c, w) \/ ConnReset(c, w)
           \/ Crash(c)
    PROVE  Keys'
<1> DEFINE K == Used(sent[c])
           d == db[c]
           n == draws[c]
<1>0. /\ op \in [Clients -> [Workers -> Calls]] /\ conn \in [Conns -> Wires]
      /\ hubConn \in [Clients -> Conns \cup {Null}]
      /\ d \in Databases /\ n \in Nat /\ K \in SUBSET SessionKeys
  BY UsedType
<1>1. Idle.ask = Null /\ Idle.writes = <<>>
  BY DEF Idle, Call
<1>2. ASSUME NEW w \in Workers, AtHub(c, w)
      PROVE  /\ Clean(c, n, d, K)
             /\ \A v \in Workers \ {w} : op[c][v] = Idle
  <2>1. op[c][w] # Idle /\ op[c][w].writes = <<>>
    BY <1>1, <1>2 DEF AtHub
  <2>2. Planned(c, n, d, K, <<>>, KeysOf(op[c][w].ask))
    BY <2>1 DEF Keys, ClientKeys, CallsClean
  <2> HIDE DEF K, d, n
  <2>3. Clean(c, n, d, K)
    BY <2>2, PlannedClean
  <2> QED
    BY <2>1, <2>3 DEF Secrets, OneCall
<1>3. ASSUME UNCHANGED conn, UNCHANGED <<db, draws, sent>>,
             hubConn' = [hubConn EXCEPT ![c] = Null],
             \A q \in Clients \ {c} : op'[q] = op[q],
             \A w \in Workers : op'[c][w] = Idle,
             Clean(c, n, d, K)
      PROVE  Keys'
  <2>1. CallsClean(c, n, d, K, op'[c])
    BY <1>3 DEF CallsClean
  <2>2. \A q \in Clients \ {c} : hubConn'[q] = hubConn[q]
    BY <1>0, <1>3
  <2>3. \A q \in Clients \ {c} :
           /\ CanAsk(q)' <=> CanAsk(q)
           /\ hubConn'[q] # Null => conn'[hubConn'[q]].owner = q
    BY <1>3, <2>2 DEF CanAsk, Exchanging, Keys, ConnsOwned
  <2>4. hubConn'[c] = Null
    BY <1>0, <1>3
  <2> QED
    BY <1>1, <1>3, <2>1, <2>3, <2>4, MovesOn
<1>4. ASSUME NEW w \in Workers, ConnError(c, w) \/ ConnReset(c, w) PROVE Keys'
  <2>1. /\ AtHub(c, w) /\ op' = [op EXCEPT ![c][w] = Idle]
        /\ hubConn' = [hubConn EXCEPT ![c] = Null]
        /\ UNCHANGED <<db, draws, conn, sent>>
    BY <1>4 DEF ConnError, ConnReset, GiveUp
  <2>2. /\ \A q \in Clients \ {c} : op'[q] = op[q]
        /\ \A v \in Workers : op'[c][v] = Idle
    BY <1>0, <1>2, <2>1
  <2>3. Clean(c, n, d, K)
    BY <1>2, <2>1
  <2> HIDE DEF K, d, n
  <2> QED
    BY <1>3, <2>1, <2>2, <2>3
<1>5. CASE Crash(c)
  <2>1. /\ op' = [op EXCEPT ![c] = [w \in Workers |-> Idle]]
        /\ hubConn' = [hubConn EXCEPT ![c] = Null]
        /\ UNCHANGED <<db, draws, conn, sent>>
        /\ "crash" \in Faults
    BY <1>5 DEF Crash, Fault
  <2>2. /\ \A q \in Clients \ {c} : op'[q] = op[q]
        /\ \A v \in Workers : op'[c][v] = Idle
    BY <1>0, <2>1
  <2>3. Clean(c, n, d, K)
    <3>1. CASE \A w \in Workers : op[c][w] = Idle
      BY <3>1 DEF Keys, ClientKeys, CallsClean
    <3>2. ASSUME NEW w \in Workers, op[c][w] # Idle PROVE Clean(c, n, d, K)
      BY <2>1, <3>2 DEF Keys, ClientKeys, CallsClean, Planned
    <3> QED
      BY <3>1, <3>2
  <2> HIDE DEF K, d, n
  <2> QED
    BY <1>3, <2>1, <2>2, <2>3
<1>6. ASSUME NEW w \in Workers, Receive(c, w) PROVE Keys'
  <2> DEFINE k == hubConn[c]
             res == conn[k].res
             after == op[c][w].after
             ws == Dispatch(d, c, res.msg)
             new == op'[c][w]
  <2>1. /\ AtHub(c, w) /\ k # Null /\ k \in Conns /\ res # Null /\ res \in Resps
        /\ conn' = [conn EXCEPT ![k] = [conn[k] EXCEPT !.res = Null]]
        /\ UNCHANGED <<db, draws, hubConn, sent>>
    BY <1>0, <1>6 DEF Receive, Exchanging, Wires
  <2>2. /\ Clean(c, n, d, K)
        /\ \A v \in Workers \ {w} : op[c][v] = Idle
    BY <1>2, <2>1
  <2>3. op' = [op EXCEPT ![c][w] =
                  IF res.type = "success"
                  THEN IF res.ok THEN Call(after, Null, <<>>) ELSE Idle
                  ELSE IF res.msg = Null THEN Idle
                  ELSE Call(ws, Null, <<>>)]
    BY <1>6 DEF Receive
  <2>4. /\ \A q \in Clients \ {c} : op'[q] = op[q]
        /\ \A v \in Workers \ {w} : op'[c][v] = Idle
        /\ new = IF res.type = "success"
                 THEN IF res.ok THEN Call(after, Null, <<>>) ELSE Idle
                 ELSE IF res.msg = Null THEN Idle
                 ELSE Call(ws, Null, <<>>)
    BY <1>0, <2>2, <2>3
  <2>5. /\ Call(after, Null, <<>>).writes = after /\ Call(after, Null, <<>>).ask = Null
        /\ Call(ws, Null, <<>>).writes = ws /\ Call(ws, Null, <<>>).ask = Null
    BY DEF Call
  <2>6. Planned(c, n, d, K, after, {})
    <3>1. after \in Seq(Statements) /\ Stores(after)
      BY <1>0 DEF Calls, Secrets, AfterStores
    <3> HIDE DEF K, d, n, after
    <3> QED
      BY <1>0, <2>2, <3>1, PlanStore
  <2>7. ASSUME res.type # "success", res.msg # Null PROVE Planned(c, n, d, K, ws, {})
    <3>1. res.msg \in Msgs
      BY <2>1, <2>7 DEF Resps, H!Responses, Msgs
    <3> HIDE DEF K, d, n
    <3> QED
      BY <1>0, <2>2, <3>1, PlanDispatch
  <2>8. Planned(c, n, d, K, <<>>, {})
    <3>1. K \cup {} = K
      OBVIOUS
    <3> HIDE DEF K, d, n
    <3> QED
      BY <2>2, <3>1, PlannedNone
  <2> HIDE DEF ws, after
  <2>9. new.ask = Null /\ Planned(c, n, d, K, new.writes, {})
    BY <1>1, <2>4, <2>5, <2>6, <2>7, <2>8
  <2>10. CallsClean(c, n, d, K, op'[c])
    <3>1. KeysOf(new.ask) = {}
      BY <2>9, KeysOfRequests
    <3> HIDE DEF K, d, n
    <3> QED
      BY <2>2, <2>4, <2>9, <3>1, CallReplaced
  <2>11. /\ conn[k].owner = c /\ \A l \in Conns \ {k} : conn'[l] = conn[l]
         /\ conn'[k].owner = c
    <3>1. conn[k].owner = c /\ conn[k] \in Wires
      BY <1>0, <2>1 DEF Keys, ConnsOwned
    <3>2. [conn[k] EXCEPT !.res = Null].owner = conn[k].owner
      BY <3>1 DEF Wires
    <3> QED
      BY <1>0, <2>1, <3>1, <3>2
  <2>12. \A q \in Clients \ {c} :
           /\ CanAsk(q)' <=> CanAsk(q)
           /\ hubConn'[q] # Null => conn'[hubConn'[q]].owner = q
    <3>1. ConnsOwned
      BY DEF Keys
    <3>2. \A q \in Clients : hubConn[q] \in Conns \cup {Null} /\ hubConn'[q] = hubConn[q]
      BY <1>0, <2>1
    <3> HIDE DEF k
    <3> QED
      BY <2>1, <2>11, <3>1, <3>2, OthersAsk
  <2>13. \A v \in Workers : op'[c][v].ask = Null
    BY <1>1, <2>4, <2>9
  <2>14. hubConn'[c] # Null => conn'[hubConn'[c]].owner = c
    BY <2>1, <2>11
  <2> QED
    BY <2>1, <2>4, <2>10, <2>12, <2>13, <2>14, MovesOn
<1> QED
  BY <1>4, <1>5, <1>6

\* A step of the hub: a client whose request is answered still waits, one whose
\* connection is reset cannot ask with it.
LEMMA HubKeys ==
    ASSUME IInv, Keys,
           \/ \E k \in Conns : handleClient(k) \/ hangUp(k)
           \/ hubRestart
    PROVE  Keys'
<1>0. /\ conn \in [Conns -> Wires] /\ hubConn \in [Clients -> Conns \cup {Null}]
      /\ UNCHANGED <<db, op, draws, hubConn, sent>>
  BY DEF IInv, TypeOK, handleClient, hangUp, hubRestart
<1>1. ASSUME \A c \in Clients : hubConn[c] # Null =>
                LET k == hubConn[c] IN
                /\ conn'[k].owner = conn[k].owner
                /\ \/ conn'[k] = conn[k]
                   \/ ~conn'[k].up
                   \/ conn'[k].res # Null
      PROVE  Keys'
  <2>1. ConnsOwned'
    BY <1>0, <1>1 DEF Keys, ConnsOwned
  <2>2. \A c \in Clients : CanAsk(c)' => CanAsk(c)
    BY <1>0, <1>1 DEF CanAsk, Exchanging
  <2>3. \A c \in Clients : ClientKeys(c)'
    BY <1>0, <2>2, OthersKeys DEF Keys
  <2> QED
    BY <2>1, <2>3 DEF Keys
<1>2. ASSUME NEW k \in Conns, handleClient(k) PROVE Keys'
  <2> DEFINE res == H!Answer(pending, conn[k].owner, conn[k].req)
             new == [conn[k] EXCEPT !.req = Null, !.res = res]
  <2>1. conn' = [conn EXCEPT ![k] = new]
    BY <1>2 DEF handleClient
  <2>2. conn'[k] = new /\ \A l \in Conns \ {k} : conn'[l] = conn[l]
    BY <1>0, <2>1
  <2>3. res \in Resps /\ res # Null
    <3>1. conn[k].owner \in Clients /\ conn[k].req \in Reqs
      BY <1>0, <1>2 DEF handleClient, IInv, RequestsOwned, Wires
    <3> QED
      BY <3>1, AnswerType, WireAssumption
  <2>4. new.owner = conn[k].owner /\ new.res = res
    BY <1>0 DEF Wires
  <2> HIDE DEF new, res
  <2> QED
    BY <1>0, <1>1, <2>2, <2>3, <2>4
<1>3. ASSUME NEW k \in Conns, hangUp(k) PROVE Keys'
  <2>1. /\ conn' = [conn EXCEPT ![k] = NoConn]
        /\ conn[k].owner # Null /\ hubConn[conn[k].owner] # k
    BY <1>3 DEF hangUp
  <2>2. \A c \in Clients : hubConn[c] # Null => hubConn[c] # k /\ hubConn[c] \in Conns
    BY <1>0, <2>1 DEF Keys, ConnsOwned
  <2> QED
    BY <1>0, <1>1, <2>1, <2>2
<1>4. CASE hubRestart
  <2>1. conn' = [k \in Conns |-> [conn[k] EXCEPT !.up = FALSE, !.req = Null]]
    BY <1>4 DEF hubRestart
  <2>2. \A k \in Conns : conn'[k].owner = conn[k].owner /\ ~conn'[k].up
    BY <1>0, <2>1 DEF Wires
  <2> QED
    BY <1>0, <1>1, <2>2
<1> QED
  BY <1>2, <1>3, <1>4
-----------------------------------------------------------------------------
(* The theorems *)

\* At the start nothing was used.
LEMMA InitKeys ==
    ASSUME Init PROVE Keys
<1>1. \A c \in Clients : Clean(c, 0, EmptyDatabase, {})
  BY DEF Clean, ContactsClean, ConvosClean, HasHalf, EmptyDatabase
<1>2. KeysOf(Idle.ask) = {}
  BY KeysOfRequests DEF Idle, Call
<1>3. ASSUME NEW c \in Clients
      PROVE  ClientKeys(c)
  <2>1. /\ db[c] = EmptyDatabase /\ draws[c] = 0 /\ sent[c] = <<>>
        /\ \A w \in Workers : op[c][w] = Idle
    BY DEF Init
  <2>2. Used(sent[c]) = {}
    BY <2>1 DEF Used
  <2>3. CallsClean(c, draws[c], db[c], Used(sent[c]), op[c])
    BY <1>1, <2>1, <2>2 DEF CallsClean
  <2>4. AskedOnce(c) /\ SentOnce(c)
    BY <1>2, <2>1 DEF AskedOnce, SentOnce
  <2> QED
    BY <2>3, <2>4 DEF ClientKeys
<1>4. ConnsOwned
  BY DEF Init, ConnsOwned
<1> QED
  BY <1>3, <1>4 DEF Keys

\* The invariant.
LEMMA KeysInvariant ==
    ASSUME "roles" \in Mended
    PROVE  Spec => []Keys
<1>1. Init => Keys
  BY InitKeys
<1>2. IInv /\ IInv' /\ Secrets /\ Keys /\ [Next]_vars => Keys'
  <2> SUFFICES ASSUME IInv, IInv', Secrets, Keys, [Next]_vars PROVE Keys'
    OBVIOUS
  <2>1. CASE Next
    BY <2>1, CallsKeys, WriteKeys, AskKeys, EndKeys, HubKeys DEF Next
  <2>2. CASE UNCHANGED vars
    BY <2>2 DEF vars, Keys, ConnsOwned, ClientKeys, AskedOnce, SentOnce, CanAsk, Exchanging
  <2> QED
    BY <2>1, <2>2
<1> QED
  BY <1>1, <1>2, TypeInvariant, SecretsInvariant, PTL DEF Spec

\* What a client encrypted with an initiator's state derives from its own draw.
LEMMA UsedByOne ==
    ASSUME IInv, Keys, NEW c \in Clients, NEW s \in Used(sent[c]), Watched(s)
    PROVE  Half(s).who = c
<1>1. KeyClean(c, draws[c], db[c], s) \/
      \E w \in Workers : \E e : KeyClean(c, draws[c], e, s)
  <2>1. CASE \A w \in Workers : op[c][w] = Idle
    BY <2>1 DEF Keys, ClientKeys, CallsClean, Clean
  <2>2. ASSUME NEW w \in Workers, op[c][w] # Idle
        PROVE  \E e : KeyClean(c, draws[c], e, s)
    BY <2>2 DEF Keys, ClientKeys, CallsClean, Planned, Clean
  <2> QED
    BY <2>1, <2>2
<1> QED
  BY <1>1 DEF KeyClean, DrawnBy

\* What the initiator sends is never made twice under one state, whatever fails
\* and whoever deletes contacts, and not even if a client is killed between two
\* statements.  "roles" is the one place that has to be mended.
THEOREM InitiatorKeysOnce ==
    ASSUME "roles" \in Mended
    PROVE  Spec => []NoInitiatorKeyReuse
<1>1. Keys => NoInitiatorKeyReuse
  BY DEF Keys, ClientKeys, SentOnce, Watched, NoInitiatorKeyReuse
<1> QED
  BY <1>1, KeysInvariant, PTL

\* No two ciphertexts that ever left any client were made under one strobe
\* state, as long as no client is killed in the middle of a call.
THEOREM KeysOnce ==
    ASSUME "roles" \in Mended, "crash" \notin Faults
    PROVE  Spec => []NoKeyReuse
<1>1. IInv /\ Keys => NoKeyReuse
  <2> SUFFICES ASSUME IInv, Keys, NEW c \in Clients, NEW d \in Clients,
                      NEW i \in DOMAIN sent[c], NEW j \in DOMAIN sent[d],
                      sent[c][i].key = sent[d][j].key
               PROVE  c = d /\ i = j
    BY DEF NoKeyReuse
  <2>1. Watched(sent[c][i].key)
    BY DEF Watched
  <2>2. sent[c][i].key \in Used(sent[c]) /\ sent[c][i].key \in Used(sent[d])
    BY DEF Used
  <2>3. c = d
    BY <2>1, <2>2, UsedByOne
  <2> QED
    BY <2>1, <2>3 DEF Keys, ClientKeys, SentOnce
<1> QED
  BY <1>1, KeysInvariant, TypeInvariant, PTL
=============================================================================
