----------------------------- MODULE HubServer -----------------------------
(***************************************************************************)
(* The hub's RPC service (server/client.go): one goroutine per connection, *)
(* which shares the map of pending messages (server/memory.go) with the    *)
(* others under one mutex.  An access to the map is two steps, one that    *)
(* reads the recipient's slice and one that writes it.                     *)
(***************************************************************************)
EXTENDS Hub, Naturals

CONSTANTS
    Conns,      \* connections
    Addresses,  \* public keys of the clients
    Convos,     \* conversation ids
    Contents,   \* contents of messages
    MaxReqs     \* bound: requests written in all

Reqs  == Requests(Addresses, Convos, Contents)
Msgs  == Messages(Addresses, Convos, Contents)
Resps == Responses(Addresses, Convos, Contents)

ASSUME MaxReqsAssumption == MaxReqs \in Nat
\* nil is none of the things that it may stand for the absence of.
ASSUME NullAssumption ==
    /\ Null \notin Conns
    /\ Null \notin Addresses
    /\ Null \notin Reqs

VARIABLES
    pendingMessages,    \* mm.pendingMessages
    queryMutex,         \* the connection that holds mm.queryMutex, or Null
    publicKey,          \* connection -> cc.publicKey, Null when there is none
    inbox,              \* connection -> requests written by the client, unread
    outbox,             \* connection -> responses written by the hub
    pc,                 \* connection -> where its goroutine is
    request,            \* connection -> the request it handles
    messages,           \* connection -> the slice it read from the map
    response,           \* connection -> the response it is about to write
    written             \* how many of MaxReqs were written

vars == <<pendingMessages, queryMutex, publicKey, inbox, outbox, pc, request,
          messages, response, written>>

Places == {"closed", "reading", "checking", "locking", "locked", "loaded",
           "stored", "responding"}

Init ==
    /\ pendingMessages = [x \in Addresses |-> <<>>]
    /\ queryMutex = Null
    /\ publicKey = [k \in Conns |-> Null]
    /\ inbox = [k \in Conns |-> <<>>]
    /\ outbox = [k \in Conns |-> <<>>]
    /\ pc = [k \in Conns |-> "closed"]
    /\ request = [k \in Conns |-> Null]
    /\ messages = [k \in Conns |-> <<>>]
    /\ response = [k \in Conns |-> Null]
    /\ written = 0

Goto(k, from, to) == pc[k] = from /\ pc' = [pc EXCEPT ![k] = to]

\* The mailbox that the request of a goroutine is about.
Mailbox(k) ==
    IF request[k].type = "SendMessage" THEN request[k].to ELSE publicKey[k]

-----------------------------------------------------------------------------
(* The client's end *)

\* sasayakiServer accepts and authenticates it, and starts its goroutine.
sasayakiServer(k, who) ==
    /\ Goto(k, "closed", "reading")
    /\ publicKey' = [publicKey EXCEPT ![k] = who]
    /\ UNCHANGED <<pendingMessages, queryMutex, inbox, outbox, request,
                   messages, response, written>>

\* The client writes a request, or bytes that are none (Null).
WriteRequest(k, req) ==
    /\ pc[k] # "closed"
    /\ written < MaxReqs
    /\ written' = written + 1
    /\ inbox' = [inbox EXCEPT ![k] = Append(@, req)]
    /\ UNCHANGED <<pendingMessages, queryMutex, publicKey, outbox, pc, request,
                   messages, response>>

-----------------------------------------------------------------------------
(* handleClient *)

\* conn.Read, proto.Unmarshal and the switch on the type of the request.
readRequest(k) ==
    /\ inbox[k] # <<>>
    /\ Head(inbox[k]) # Null
    /\ Goto(k, "reading", "checking")
    /\ request' = [request EXCEPT ![k] = Head(inbox[k])]
    /\ inbox' = [inbox EXCEPT ![k] = Tail(@)]
    /\ UNCHANGED <<pendingMessages, queryMutex, publicKey, outbox, messages,
                   response, written>>

\* The checks on the fields of a SendMessage; a GetNextMessage has none.
Malformed(req) == req.type = "SendMessage" /\ ~req.fits

\* Mutation: no failure message is made, and the last response is sent.
rejectNoFailure(k) ==
    /\ Goto(k, "checking", "responding")
    /\ Malformed(request[k])
    /\ UNCHANGED <<pendingMessages, queryMutex, publicKey, inbox, outbox,
                   request, messages, response, written>>

rejectFields(k) ==
    /\ Goto(k, "checking", "responding")
    /\ Malformed(request[k])
    /\ response' = [response EXCEPT ![k] = [type |-> "success", ok |-> FALSE]]
    /\ UNCHANGED <<pendingMessages, queryMutex, publicKey, inbox, outbox,
                   request, messages, written>>

passFields(k) ==
    /\ Goto(k, "checking", "locking")
    /\ ~Malformed(request[k])
    /\ UNCHANGED <<pendingMessages, queryMutex, publicKey, inbox, outbox,
                   request, messages, response, written>>

\* Mutation: the mutex excludes no one.
lockNothing(k) ==
    /\ Goto(k, "locking", "locked")
    /\ UNCHANGED <<pendingMessages, queryMutex, publicKey, inbox, outbox,
                   request, messages, response, written>>

\* mm.queryMutex.Lock()
lock(k) ==
    /\ queryMutex = Null
    /\ Goto(k, "locking", "locked")
    /\ queryMutex' = k
    /\ UNCHANGED <<pendingMessages, publicKey, inbox, outbox, request,
                   messages, response, written>>

\* The right-hand sides: mm.pendingMessages[...] is read.
load(k) ==
    /\ Goto(k, "locked", "loaded")
    /\ messages' = [messages EXCEPT ![k] = pendingMessages[Mailbox(k)]]
    /\ UNCHANGED <<pendingMessages, queryMutex, publicKey, inbox, outbox,
                   request, response, written>>

\* Mutation: the message is handed out but stays in the mailbox.
storeNoPop(k) ==
    LET req == request[k] IN
    /\ Goto(k, "loaded", "stored")
    /\ IF req.type = "SendMessage"
       THEN /\ pendingMessages' = [pendingMessages EXCEPT ![req.to] =
                  Append(messages[k], [from |-> publicKey[k], convo |-> req.convo,
                                       content |-> req.content])]
            /\ response' = [response EXCEPT ![k] = [type |-> "success", ok |-> TRUE]]
       ELSE /\ UNCHANGED pendingMessages
            /\ response' = [response EXCEPT ![k] = [type |-> "message",
                  msg |-> IF messages[k] = <<>> THEN Null ELSE Head(messages[k])]]
    /\ UNCHANGED <<queryMutex, publicKey, inbox, outbox, request, messages, written>>

\* The assignments: append(...) or messages[1:] goes back into the map, and the
\* response is made.
store(k) ==
    LET req == request[k] IN
    /\ Goto(k, "loaded", "stored")
    /\ IF req.type = "SendMessage"
       THEN /\ pendingMessages' = [pendingMessages EXCEPT ![req.to] =
                  Append(messages[k], [from |-> publicKey[k], convo |-> req.convo,
                                       content |-> req.content])]
            /\ response' = [response EXCEPT ![k] = [type |-> "success", ok |-> TRUE]]
       ELSE IF messages[k] = <<>>
       THEN /\ UNCHANGED pendingMessages
            /\ response' = [response EXCEPT ![k] = [type |-> "message", msg |-> Null]]
       ELSE /\ pendingMessages' =
                  [pendingMessages EXCEPT ![publicKey[k]] = Tail(messages[k])]
            /\ response' = [response EXCEPT ![k] =
                  [type |-> "message", msg |-> Head(messages[k])]]
    /\ UNCHANGED <<queryMutex, publicKey, inbox, outbox, request, messages, written>>

\* Mutation: the mutex is kept.
unlockNothing(k) ==
    /\ Goto(k, "stored", "responding")
    /\ UNCHANGED <<pendingMessages, queryMutex, publicKey, inbox, outbox,
                   request, messages, response, written>>

\* mm.queryMutex.Unlock()
unlock(k) ==
    /\ Goto(k, "stored", "responding")
    /\ queryMutex' = Null
    /\ UNCHANGED <<pendingMessages, publicKey, inbox, outbox, request,
                   messages, response, written>>

\* conn.Write
writeResponse(k) ==
    /\ Goto(k, "responding", "reading")
    /\ outbox' = [outbox EXCEPT ![k] = Append(@, response[k])]
    /\ UNCHANGED <<pendingMessages, queryMutex, publicKey, inbox, request,
                   messages, response, written>>

\* break session: Read or Write fails, or what was read is no request.
breakSession(k) ==
    /\ pc[k] \in {"reading", "responding"}
    /\ pc' = [pc EXCEPT ![k] = "closed"]
    /\ publicKey' = [publicKey EXCEPT ![k] = Null]
    /\ inbox' = [inbox EXCEPT ![k] = <<>>]
    /\ outbox' = [outbox EXCEPT ![k] = <<>>]
    /\ UNCHANGED <<pendingMessages, queryMutex, request, messages, response, written>>

handleClient(k) ==
    \/ readRequest(k)
    \/ rejectFields(k)
    \/ passFields(k)
    \/ lock(k)
    \/ load(k)
    \/ store(k)
    \/ unlock(k)
    \/ writeResponse(k)

Next ==
    \E k \in Conns :
        \/ \E who \in Addresses : sasayakiServer(k, who)
        \/ \E req \in Reqs \cup {Null} : WriteRequest(k, req)
        \/ handleClient(k)
        \/ breakSession(k)

Spec == Init /\ [][Next]_vars

\* A goroutine that can go on does.  sync.Mutex hands itself to a goroutine that
\* has waited long enough, so each one that waits gets it.  A session that read
\* no request is closed.
Fairness ==
    \A k \in Conns :
        /\ WF_vars(handleClient(k))
        /\ SF_vars(lock(k))
        /\ WF_vars(inbox[k] # <<>> /\ Head(inbox[k]) = Null /\ breakSession(k))

FairSpec == Spec /\ Fairness

-----------------------------------------------------------------------------
(* Properties *)

\* Every variable has its type, and at each place of the goroutine what it works
\* on is there: a peer while the connection is open, a request while one is
\* handled, a response before one is written.
TypeOK ==
    /\ pendingMessages \in [Addresses -> Seq(Msgs)]
    /\ queryMutex \in Conns \cup {Null}
    /\ publicKey \in [Conns -> Addresses \cup {Null}]
    /\ inbox \in [Conns -> Seq(Reqs \cup {Null})]
    /\ outbox \in [Conns -> Seq(Resps)]
    /\ pc \in [Conns -> Places]
    /\ request \in [Conns -> Reqs \cup {Null}]
    /\ messages \in [Conns -> Seq(Msgs)]
    /\ response \in [Conns -> Resps \cup {Null}]
    /\ written \in 0 .. MaxReqs
    /\ \A k \in Conns :
          /\ pc[k] = "closed" <=> publicKey[k] = Null
          /\ pc[k] = "closed" => inbox[k] = <<>> /\ outbox[k] = <<>>
          /\ pc[k] \notin {"closed", "reading"} => request[k] \in Reqs
          /\ pc[k] \in {"stored", "responding"} => response[k] \in Resps

\* Whoever is between Lock and Unlock holds the mutex.
LockHeld ==
    \A k \in Conns : pc[k] \in {"locked", "loaded", "stored"} => queryMutex = k

\* The slice that a goroutine is about to put back into the map, longer or
\* shorter by a message, is the one that is in the map: no other goroutine
\* changed it since it was read.
LoadedIsCurrent ==
    \A k \in Conns :
        pc[k] = "loaded" => messages[k] = pendingMessages[Mailbox(k)]

\* Only a request whose fields are good gets to the map.
CheckedFits ==
    \A k \in Conns :
        (/\ pc[k] \in {"locking", "locked", "loaded"}
         /\ request[k].type = "SendMessage") => request[k].fits

\* A request counts as not served until its effect is in the map, or until it
\* was rejected; from then on its response counts as given.
askedOf(k) ==
    IF pc[k] \in {"checking", "locking", "locked", "loaded"}
    THEN <<request[k]>> \o inbox[k] ELSE inbox[k]
answersOf(k) ==
    IF pc[k] \in {"stored", "responding"}
    THEN Append(outbox[k], response[k]) ELSE outbox[k]

MQ == INSTANCE MessageQueues WITH
    pending <- pendingMessages,
    owner   <- publicKey,
    asked   <- [k \in Conns |-> askedOf(k)],
    answers <- [k \in Conns |-> answersOf(k)]

\* The goroutines together behave as if each request were served at once: none
\* is served twice or skipped, no message is handed out twice or lost by two
\* connections that use one mailbox at the same time.
ServesAtomically == MQ!Spec

\* What a client wrote is read and answered, or the session ends.
RequestsServed ==
    \A k \in Conns : inbox[k] # <<>> ~> inbox[k] = <<>> /\ pc[k] \in {"closed", "reading"}
=============================================================================
