------------------------------ MODULE Sasayaki ------------------------------
(***************************************************************************)
(* The core of the client (sasayaki.go) with its hub proxy (hub.go), for   *)
(* every client, against one hub (server/client.go, server/memory.go).     *)
(*                                                                         *)
(* A call of the web server runs in a goroutine (a worker).  It takes the  *)
(* client's mutex, reads the database, and then executes statements that   *)
(* commit one by one, sends one request to the hub and waits for the       *)
(* answer.  op[c][w] is what is left of the call: the statements before    *)
(* the request, the request, and the statements that follow a success.     *)
(***************************************************************************)
EXTENDS Storage

CONSTANTS
    Limit,      \* bound: client -> how much of MaxDraws it uses
    Workers,    \* the goroutines of one client that serve the web UI
    Conns,      \* bound: connections the hub can hold at a time
    Faults,     \* subset of {"conn", "crash", "hub"}: what may go wrong
    MaxFaults   \* bound: how often

ASSUME LimitAssumption == Limit \in [Clients -> 0 .. MaxDraws]
ASSUME FaultsAssumption ==
    /\ Faults \subseteq {"conn", "crash", "hub"}
    /\ MaxFaults \in Nat

VARIABLES
    db,         \* client -> its database, the only state that survives a crash
    op,         \* client -> worker -> what is left of the call
    draws,      \* client -> how many random values it drew, texts it typed
    hubConn,    \* client -> hub.conn
    conn,       \* connection -> its two ends and what is on the wire
    pending,    \* the hub's mm.pendingMessages
    sent,       \* history: client -> the ciphertexts it put on the wire
    faults      \* how many of MaxFaults happened

vars == <<db, op, draws, hubConn, conn, pending, sent, faults>>

H == INSTANCE Hub

Reqs  == H!Requests(Clients, Draws, Contents)
Msgs  == H!Messages(Clients, Draws, Contents)
Resps == H!Responses(Clients, Draws, Contents)

Calls == [writes : Seq(Statements), ask : Reqs \cup {Null},
          after : Seq(Statements)]
Wires == [owner : Clients \cup {Null}, up : BOOLEAN,
          req : Reqs \cup {Null}, res : Resps \cup {Null}]

\* nil is told from a client's key, from a connection, and from what is sent.
ASSUME WireAssumption ==
    /\ Null \notin Clients \cup Conns
    /\ Null \notin Resps
    /\ Null \notin Reqs \cup Msgs

Call(writes, ask, after) ==
    [writes |-> writes, ask |-> ask, after |-> after]
Idle   == Call(<<>>, Null, <<>>)
NoConn == [owner |-> Null, up |-> FALSE, req |-> Null, res |-> Null]

Init ==
    /\ db = [c \in Clients |-> EmptyDatabase]
    /\ op = [c \in Clients |-> [w \in Workers |-> Idle]]
    /\ draws = [c \in Clients |-> 0]
    /\ hubConn = [c \in Clients |-> Null]
    /\ conn = [k \in Conns |-> NoConn]
    /\ pending = [c \in Clients |-> <<>>]
    /\ sent = [c \in Clients |-> <<>>]
    /\ faults = 0

-----------------------------------------------------------------------------
(* A call starts: everything up to its first statement or request.  A call  *)
(* that returns early changes nothing and is no step.                        *)

\* queryMutex, held from the first to the last line of every call.
MutexFree(c) == \A w \in Workers : op[c][w] = Idle

\* Mutation: only the calls that ask the hub first take the mutex.
BeginUnlocked(c, w, call) ==
    /\ MutexFree(c) \/ call.writes # <<>>
    /\ op' = [op EXCEPT ![c][w] = call]
    /\ UNCHANGED <<db, hubConn, conn, pending, sent, faults>>

Begin(c, w, call) ==
    /\ MutexFree(c)
    /\ op' = [op EXCEPT ![c][w] = call]
    /\ UNCHANGED <<db, hubConn, conn, pending, sent, faults>>

\* rand.Read; a typed text is numbered with the same counter.
Fresh(c) == [who |-> c, no |-> draws[c] + 1]
Typed(c, size) == [by |-> c, no |-> draws[c] + 1, size |-> size]
Draw(c) ==
    /\ draws[c] < Limit[c]
    /\ draws' = [draws EXCEPT ![c] = @ + 1]

\* The ephemeral key and the conversation id are drawn apart in the code; no
\* one reads this conversation id, so one draw stands for both.  The committed
\* code sends the handshake message in hexadecimal: of that request of 300 bytes
\* the hub reads 44 (Framing), and nothing would decode it at the other end.
aliceAddContact(c, w, bob) ==
    /\ getStateContact(db[c], bob) = "noContact"
    /\ Draw(c)
    /\ Begin(c, w, Call(<<addContact(bob, Fresh(c))>>,
                        H!SendMessage(bob, Fresh(c),
                                      FirstHandshakeMessage(Fresh(c)),
                                      "hex" \in Mended),
                        <<>>))

bobAcceptContact(c, w, alice) ==
    LET blob == db[c].contacts[alice].blob IN
    /\ getStateContact(db[c], alice) = "waitingToAccept"
    /\ acceptContact(blob)
    /\ Draw(c)
    /\ Begin(c, w,
          Call(<<finalizeContact(alice,
                    ThreadState(blob.init, Fresh(c), "responder"),
                    ThreadState(blob.init, Fresh(c), "initiator"))>>,
               IF "forward" \in Mended
               THEN H!SendMessage(alice, Fresh(c),
                       SecondHandshakeMessage(blob, Fresh(c)), TRUE)
               ELSE Null,
               <<>>))

doDeleteContact(c, w, bob) ==
    /\ "delete" \in Mended
    /\ db[c].contacts[bob] # Null
    /\ Begin(c, w, Call(<<deleteContact(bob)>>, Null, <<>>))
    /\ UNCHANGED draws

\* The request of sendMessage, which the committed code never reaches.
ToHub(convo, ct) ==
    IF "todo" \in Mended
    THEN H!SendMessage(ct.to, convo, ct, ct.text.size = "fits")
    ELSE Null

\* Mutations: the new state is stored when the hub has the message.
sendNewThreadLate(c, w, bob, size) ==
    LET id == Fresh(c)
        t1 == db[c].contacts[bob].c1
        s1 == InitiatorThread(t1)
    IN  /\ threadRatchetStatesReady(db[c], bob)
        /\ Draw(c)
        /\ Begin(c, w,
              Call(<<createConvo(id, bob, Typed(c, size), AfterAEAD(s1),
                                 ResponderThread(t1))>>,
                   ToHub(id, encryptMessage(s1, id, c, bob, Typed(c, size))),
                   <<updateThreadRatchetStates(bob, Ratchet(t1), Null)>>))
sendInConvoLate(c, w, id, bob, size) ==
    LET s1 == db[c].convos[id].c1
        ct == encryptMessage(s1, id, c, bob, Typed(c, size))
    IN  /\ sessionKeysFound(db[c], id, bob)
        /\ Draw(c)
        /\ Begin(c, w,
              Call(<<>>, ToHub(id, ct),
                   <<updateSessionKeys(id, bob, AfterAEAD(s1), Null),
                     storeMessage(id, TRUE, Typed(c, size))>>))

\* sendMessage without a conversation id: a new thread, the text is its title.
sendNewThread(c, w, bob, size) ==
    LET id == Fresh(c)
        t1 == db[c].contacts[bob].c1
        s1 == InitiatorThread(t1)
        s2 == ResponderThread(t1)
    IN  /\ threadRatchetStatesReady(db[c], bob)
        /\ Draw(c)
        /\ Begin(c, w,
              Call(<<updateThreadRatchetStates(bob, Ratchet(t1), Null),
                     createConvo(id, bob, Typed(c, size), s1, s2),
                     updateSessionKeys(id, bob, AfterAEAD(s1), Null)>>,
                   ToHub(id, encryptMessage(s1, id, c, bob, Typed(c, size))),
                   <<>>))

\* sendMessage with a conversation id: it is stored once the hub has it.
sendInConvo(c, w, id, bob, size) ==
    LET s1 == db[c].convos[id].c1
        ct == encryptMessage(s1, id, c, bob, Typed(c, size))
    IN  /\ sessionKeysFound(db[c], id, bob)
        /\ Draw(c)
        /\ Begin(c, w,
              Call(<<updateSessionKeys(id, bob, AfterAEAD(s1), Null)>>,
                   ToHub(id, ct),
                   IF "todo" \in Mended
                   THEN <<storeMessage(id, TRUE, Typed(c, size))>> ELSE <<>>))

getNextMessage(c, w) ==
    /\ Begin(c, w, Call(<<>>, H!GetNextMessage, <<>>))
    /\ UNCHANGED draws

-----------------------------------------------------------------------------
(* What getNextMessage does with a message: the statements that are left *)

\* Mutation: the state after the title is dropped, as in the committed code.
newThreadStaleTitle(d, me, m) ==
    LET t2 == d.contacts[m.from].c2
        s1 == InitiatorThread(t2)
    IN  <<createConvo(m.convo, m.from, Null, ResponderThread(t2), s1),
          updateThreadRatchetStates(m.from, Null, Ratchet(t2))>>
        \o IF decryptMessage(s1, me, m)
           THEN <<updateTitle(m.convo, m.from, m.content.text)>> ELSE <<>>

\* The first message of an unknown conversation is its title.  c1 sends and c2
\* receives (storage.go); the code stores them in the sender's order and drops
\* the state that comes out of decrypting the title.
newThread(d, me, m) ==
    LET t2 == d.contacts[m.from].c2
        s1 == InitiatorThread(t2)
        s2 == ResponderThread(t2)
    IN  <<IF "roles" \in Mended THEN createConvo(m.convo, m.from, Null, s2, s1)
                                ELSE createConvo(m.convo, m.from, Null, s1, s2),
          updateThreadRatchetStates(m.from, Null, Ratchet(t2))>>
        \o IF ~decryptMessage(s1, me, m) THEN <<>>
           ELSE IF "title" \in Mended
           THEN <<updateSessionKeys(m.convo, m.from, Null, AfterAEAD(s1)),
                  updateTitle(m.convo, m.from, m.content.text)>>
           ELSE <<updateTitle(m.convo, m.from, m.content.text)>>

handleNewMessage(d, me, m) ==
    IF ~ConvoExist(d, m.convo)
    THEN IF threadRatchetStatesReady(d, m.from) THEN newThread(d, me, m) ELSE <<>>
    ELSE IF /\ sessionKeysFound(d, m.convo, m.from)
            /\ decryptMessage(d.convos[m.convo].c2, me, m)
         THEN <<updateSessionKeys(m.convo, m.from, Null,
                                  AfterAEAD(d.convos[m.convo].c2)),
                storeMessage(m.convo, FALSE, m.content.text)>>
         ELSE <<>>

\* Mutation: the two halves of the split are taken in the responder's order.
aliceAckReversed(d, m) ==
    LET e == d.contacts[m.from].blob IN
    IF finishAddContact(e, m.content)
    THEN <<finalizeContact(m.from,
              ThreadState(e, m.content.resp, "responder"),
              ThreadState(e, m.content.resp, "initiator"))>>
    ELSE <<>>

\* finalizeContact(encryptedMsg): aliceAckAcceptContact under the held mutex.
aliceAckAcceptContact(d, m) ==
    LET e == d.contacts[m.from].blob IN
    IF finishAddContact(e, m.content)
    THEN <<finalizeContact(m.from,
              ThreadState(e, m.content.resp, "initiator"),
              ThreadState(e, m.content.resp, "responder"))>>
    ELSE <<>>

\* The switch of getNextMessage.  In the two other states (and in a panic,
\* which the web server survives) the message is dropped.
Dispatch(d, me, m) ==
    CASE getStateContact(d, m.from) = "noContact" ->
            <<addContactFromReq(m.from, m.content)>>
      [] getStateContact(d, m.from) = "waitingForAccept" ->
            aliceAckAcceptContact(d, m)
      [] getStateContact(d, m.from) = "contactAdded" ->
            handleNewMessage(d, me, m)
      [] OTHER -> <<>>

-----------------------------------------------------------------------------
(* A call runs *)

\* The next statement.  A violated constraint panics, which ends the call.
Write(c, w) ==
    LET st == Head(op[c][w].writes) IN
    /\ op[c][w].writes # <<>>
    /\ IF Violates(db[c], st)
       THEN /\ op' = [op EXCEPT ![c][w] = Idle]
            /\ UNCHANGED db
       ELSE /\ op' = [op EXCEPT ![c][w].writes = Tail(@)]
            /\ db' = [db EXCEPT ![c] = Executed(@, st)]
    /\ UNCHANGED <<draws, hubConn, conn, pending, sent, faults>>

\* The call has come to its request.
AtHub(c, w) ==
    /\ op[c][w].writes = <<>>
    /\ op[c][w].ask # Null

\* The client's connection carries a request or an answer.
Exchanging(c) ==
    /\ hubConn[c] # Null
    /\ conn[hubConn[c]].req # Null \/ conn[hubConn[c]].res # Null

\* isHubReady and conn.Write.
Ask(c, w) ==
    /\ AtHub(c, w)
    /\ ~Exchanging(c)
    /\ \E k \in Conns :
          /\ IF hubConn[c] = Null THEN conn[k].owner = Null
             ELSE k = hubConn[c] /\ conn[k].up
          /\ hubConn' = [hubConn EXCEPT ![c] = k]
          /\ conn' = [conn EXCEPT ![k] = [owner |-> c, up |-> TRUE,
                                          req |-> op[c][w].ask, res |-> Null]]
    /\ sent' = IF /\ op[c][w].ask.type = "SendMessage"
                  /\ op[c][w].ask.content.kind = "aead"
               THEN [sent EXCEPT ![c] = Append(@, op[c][w].ask.content)]
               ELSE sent
    /\ UNCHANGED <<db, op, draws, pending, faults>>

\* conn.Read returned the answer.
Receive(c, w) ==
    /\ AtHub(c, w)
    /\ Exchanging(c)
    /\ LET res == conn[hubConn[c]].res IN
       /\ res # Null
       /\ op' = [op EXCEPT ![c][w] =
             IF res.type = "success"
             THEN IF res.ok THEN Call(op[c][w].after, Null, <<>>) ELSE Idle
             ELSE IF res.msg = Null THEN Idle
             ELSE Call(Dispatch(db[c], c, res.msg), Null, <<>>)]
    /\ conn' = [conn EXCEPT ![hubConn[c]].res = Null]
    /\ UNCHANGED <<db, draws, hubConn, pending, sent, faults>>

\* Something goes wrong.
Fault(kind) ==
    /\ kind \in Faults
    /\ faults < MaxFaults
    /\ faults' = faults + 1

\* An error of Dial, Write or Read: hub.conn = nil and the call returns it.
GiveUp(c, w) ==
    /\ AtHub(c, w)
    /\ op' = [op EXCEPT ![c][w] = Idle]
    /\ hubConn' = [hubConn EXCEPT ![c] = Null]
    /\ UNCHANGED <<db, draws, conn, pending, sent>>

ConnError(c, w) ==
    /\ Fault("conn")
    /\ GiveUp(c, w)

\* Mutation: no one notices.
DeafToReset(c, w) == FALSE

\* The hub that held the connection is gone.
ConnReset(c, w) ==
    /\ hubConn[c] # Null
    /\ ~conn[hubConn[c]].up
    /\ conn[hubConn[c]].res = Null
    /\ GiveUp(c, w)
    /\ UNCHANGED faults

\* The program is killed and started again: only the database is left.
Crash(c) ==
    /\ Fault("crash")
    /\ op' = [op EXCEPT ![c] = [w \in Workers |-> Idle]]
    /\ hubConn' = [hubConn EXCEPT ![c] = Null]
    /\ UNCHANGED <<db, draws, conn, pending, sent>>

-----------------------------------------------------------------------------
(* The hub: one goroutine (handleClient) per connection *)

\* One turn of the loop.  The client may have given the connection up.
handleClient(k) ==
    /\ conn[k].up
    /\ conn[k].req # Null
    /\ pending' = H!Served(pending, conn[k].owner, conn[k].req)
    /\ conn' = [conn EXCEPT ![k].req = Null,
                            ![k].res = H!Answer(pending, conn[k].owner, conn[k].req)]
    /\ UNCHANGED <<db, op, draws, hubConn, sent, faults>>

\* The goroutine sees that the client gave the connection up, and closes it.
hangUp(k) ==
    /\ conn[k].owner # Null
    /\ hubConn[conn[k].owner] # k
    /\ conn' = [conn EXCEPT ![k] = NoConn]
    /\ UNCHANGED <<db, op, draws, hubConn, pending, sent, faults>>

\* The hub's memory is volatile; answers already sent still arrive.
hubRestart ==
    /\ Fault("hub")
    /\ pending' = [c \in Clients |-> <<>>]
    /\ conn' = [k \in Conns |-> [conn[k] EXCEPT !.up = FALSE, !.req = Null]]
    /\ UNCHANGED <<db, op, draws, hubConn, sent>>

-----------------------------------------------------------------------------
Next ==
    \/ \E c \in Clients, w \in Workers :
          \/ \E p \in Clients \ {c} :
                \/ aliceAddContact(c, w, p)
                \/ bobAcceptContact(c, w, p)
                \/ doDeleteContact(c, w, p)
                \/ \E size \in Sizes :
                      \/ sendNewThread(c, w, p, size)
                      \/ \E id \in Draws : sendInConvo(c, w, id, p, size)
          \/ getNextMessage(c, w)
          \/ Write(c, w)
          \/ Ask(c, w)
          \/ Receive(c, w)
          \/ ConnError(c, w)
          \/ ConnReset(c, w)
    \/ \E c \in Clients : Crash(c)
    \/ \E k \in Conns : handleClient(k) \/ hangUp(k)
    \/ hubRestart

Spec == Init /\ [][Next]_vars

\* A goroutine that can go on does, the hub serves what it read and closes what
\* was given up.  A user asks for the next message again and again ("you need
\* to call it several time", webserver.go); nothing else is ever forced on
\* users, and nothing has to go wrong.
Fairness ==
    /\ \A c \in Clients, w \in Workers :
          /\ WF_vars(Write(c, w))
          /\ WF_vars(Ask(c, w))
          /\ WF_vars(Receive(c, w))
          /\ WF_vars(ConnReset(c, w))
    /\ \A c \in Clients : WF_vars(\E w \in Workers : getNextMessage(c, w))
    /\ \A k \in Conns : WF_vars(handleClient(k)) /\ WF_vars(hangUp(k))

FairSpec == Spec /\ Fairness

-----------------------------------------------------------------------------
(* Properties *)

\* Every variable, and with it every row, statement and message, has its type.
TypeOK ==
    /\ db \in [Clients -> Databases]
    /\ op \in [Clients -> [Workers -> Calls]]
    /\ draws \in [Clients -> 0 .. MaxDraws]
    /\ hubConn \in [Clients -> Conns \cup {Null}]
    /\ conn \in [Conns -> Wires]
    /\ pending \in [Clients -> Seq(Msgs)]
    /\ sent \in [Clients -> Seq(Ciphertexts)]
    /\ faults \in 0 .. MaxFaults

\* No two ciphertexts that ever left a client were made under the same strobe
\* state: each state is replaced in the database (updateSessionKeys,
\* updateThreadRatchetStates) before what it made can be sent.
NoKeyReuse ==
    \A c, d \in Clients : \A i \in DOMAIN sent[c], j \in DOMAIN sent[d] :
        sent[c][i].key = sent[d][j].key => c = d /\ i = j

ContactAdded(c, p) ==
    db[c].contacts[p] # Null /\ db[c].contacts[p].tag = 2

\* Once both sides finished (finalizeContact), the state with which one creates
\* threads comes from the same handshake and direction as the state with which
\* the other expects them, and the receiver's was never ratcheted more often.
PeersAgree ==
    \A c, p \in Clients :
        ContactAdded(c, p) /\ ContactAdded(p, c) =>
            LET mine   == db[c].contacts[p].c1
                theirs == db[p].contacts[c].c2
            IN  /\ [mine EXCEPT !.turn = 0] = [theirs EXCEPT !.turn = 0]
                /\ theirs.turn <= mine.turn

\* Whoever has a conversation (createConvo on either side), what one side
\* sends with is what the other receives with, or the receiver has yet to
\* catch up.
ConvosAgree ==
    \A c, p \in Clients : \A x \in Draws :
        LET row(q) == db[q].convos[x] IN
        (/\ c # p
         /\ row(c) # Null /\ row(p) # Null
         /\ op[c] = [w \in Workers |-> Idle]
         /\ op[p] = [w \in Workers |-> Idle]) =>
            /\ [row(c).c1 EXCEPT !.turn = 0] = [row(p).c2 EXCEPT !.turn = 0]
            /\ row(p).c2.turn <= row(c).c1.turn

\* A client that is not in the middle of a call can use the ciphertext that the
\* hub will hand to it next: the contact is finished and the state it keeps for
\* that conversation, or for new threads, is the one that made it.
NextDecrypts ==
    \A c \in Clients :
        LET m == Head(pending[c]) IN
        (MutexFree(c) /\ pending[c] # <<>> /\ m.content.kind = "aead") =>
            /\ ContactAdded(c, m.from)
            /\ decryptMessage(IF ConvoExist(db[c], m.convo)
                              THEN db[c].convos[m.convo].c2
                              ELSE InitiatorThread(db[c].contacts[m.from].c2),
                              c, m)

\* No step, a crash included, puts an older secret back: for as long as a
\* contact or a conversation exists its strobe states only move on, and a
\* finished contact stays finished.
SecretsOnlyAdvance ==
    [][\A c, p \in Clients : \A x \in Draws :
          LET row  == db[c].contacts[p]    row1 == db'[c].contacts[p]
              cv   == db[c].convos[x]      cv1  == db'[c].convos[x]
          IN  /\ ContactAdded(c, p) /\ row1 # Null =>
                    /\ row1.tag = 2
                    /\ row.c1.turn <= row1.c1.turn
                    /\ row.c2.turn <= row1.c2.turn
              /\ cv # Null =>
                    /\ cv1 # Null
                    /\ cv.c1.turn <= cv1.c1.turn
                    /\ cv.c2.turn <= cv1.c2.turn]_vars

\* What the initiator sends, titles included, is never made twice under one
\* state, not even if clients are killed between two statements.
NoInitiatorKeyReuse ==
    \A c \in Clients : \A i, j \in DOMAIN sent[c] :
        (/\ sent[c][i].key = sent[c][j].key
         /\ sent[c][i].key.label = "initiatorThread") => i = j

\* Every thread comes from a thread state of its own (docs/specification.md:
\* "everytime I create a new thread, I take my direction's ssr and I hkdf it to
\* create the next one").
ThreadsAreFresh ==
    \A c \in Clients : \A x, y \in Draws :
        LET row(z) == db[c].convos[z] IN
        (x # y /\ row(x) # Null /\ row(y) # Null) =>
            row(x).c1.thread # row(y).c1.thread

\* The hub hands out what one client sent in the order in which it was sent.
MailboxInOrder ==
    \A c \in Clients : \A i, j \in DOMAIN pending[c] :
        LET x == pending[c][i].content    y == pending[c][j].content IN
        (/\ i < j
         /\ x.kind = "aead" /\ y.kind = "aead"
         /\ x.from = y.from) => x.text.no < y.text.no

\* Every call of the web server comes to its end, even if its connection is
\* reset, the hub restarts or the client is killed meanwhile.  A hub that keeps a
\* connection open and never answers is left out by the fairness of handleClient
\* and ConnReset: hub.go sets no deadline, and such a call would never return.
CallsReturn ==
    \A c \in Clients, w \in Workers :
        op[c][w] # Idle ~> op[c][w] = Idle

\* An accepted contact request reaches the initiator, unless something failed.
AcceptanceArrives ==
    \A c, p \in Clients :
        c # p => (ContactAdded(c, p) ~> (ContactAdded(p, c) \/ faults > 0))

-----------------------------------------------------------------------------
(* Sasayaki implements Conversations *)

Links == {l \in [convo : Draws, from : Clients, to : Clients] : l.from # l.to}

\* The texts of the elements of s that I selects, in their order.
TextsAt(s, I) ==
    LET upTo[n \in 0 .. Len(s)] ==
            IF n = 0 THEN <<>>
            ELSE IF n \in I THEN Append(upTo[n - 1], s[n].text) ELSE upTo[n - 1]
    IN  upTo[Len(s)]

\* The texts of the ciphertexts that went out on the link.
typedOn(l) ==
    LET cts == sent[l.from] IN
    TextsAt(cts, {i \in DOMAIN cts : cts[i].convo = l.convo /\ cts[i].to = l.to})

\* The title of the conversation and its messages, in the receiver's database.
shownOn(l) ==
    LET row  == db[l.to].convos[l.convo]
        rows == db[l.to].messages
    IN  IF row = Null \/ row.peer # l.from THEN <<>>
        ELSE (IF row.title # Null /\ row.title.by = l.from THEN <<row.title>> ELSE <<>>)
             \o TextsAt(rows, {i \in DOMAIN rows :
                                 rows[i].convo = l.convo /\ ~rows[i].mine})

typedOnLinks == [l \in Links |-> typedOn(l)]
shownOnLinks == [l \in Links |-> shownOn(l)]

Lossless == INSTANCE Conversations WITH
    Lossy <- FALSE, typed <- typedOnLinks, shown <- shownOnLinks
Lossy == INSTANCE Conversations WITH
    Lossy <- TRUE, typed <- typedOnLinks, shown <- shownOnLinks

\* Whatever gets lost on the way, as long as no client is killed every reader is
\* shown a prefix of what was sent to it, conversation by conversation: a text
\* behind a lost one does not decrypt (decryptMessage of crypto.go).
DeliversAll == Lossless!Spec

\* Whatever fails, nothing is shown twice, out of order, in another
\* conversation, or without having been sent.
DeliversInOrder == Lossy!Spec

\* Every text that went out is shown to its reader, the n-th of a conversation
\* too, unless something failed.  A sender's first draw is for the contact.
EventuallyShown ==
    \A l \in Links : \A n \in 1 .. MaxDraws - 1 :
        Len(typedOn(l)) >= n ~> (Len(shownOn(l)) >= n \/ faults > 0)
=============================================================================
