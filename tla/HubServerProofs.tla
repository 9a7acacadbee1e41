-------------------------- MODULE HubServerProofs --------------------------
(***************************************************************************)
(* Proofs about HubServer for any number of connections, clients and       *)
(* requests: its mutex works, and with it the goroutines implement the hub *)
(* of MessageQueues, which is the hub that module Sasayaki talks to.       *)
(***************************************************************************)
EXTENDS HubServer, SequenceTheorems, TLAPS

\* The kinds of requests, and what the response to each looks like.
LEMMA ReqsKinds ==
    /\ \A r \in Reqs :
          \/ r = GetNextMessage
          \/ /\ r.type = "SendMessage"
             /\ r.to \in Addresses /\ r.convo \in Convos
             /\ r.content \in Contents /\ r.fits \in BOOLEAN
    /\ \A ok \in BOOLEAN : [type |-> "success", ok |-> ok] \in Resps
    /\ \A m \in Msgs \cup {Null} : [type |-> "message", msg |-> m] \in Resps
    /\ \A w \in Addresses, x \in Convos, m \in Contents :
          [from |-> w, convo |-> x, content |-> m] \in Msgs
BY DEF Reqs, Requests, Resps, Responses, Msgs, Messages, GetNextMessage

\* A goroutine that passed the checks has a mailbox to work on.
LEMMA MailboxType ==
    ASSUME TypeOK, NEW k \in Conns, pc[k] \in {"locked", "loaded"}
    PROVE  Mailbox(k) \in Addresses
<1>1. request[k] \in Reqs /\ publicKey[k] \in Addresses
  BY DEF TypeOK
<1>2. CASE request[k] = GetNextMessage
  BY <1>1, <1>2 DEF Mailbox, GetNextMessage
<1>3. CASE request[k].type = "SendMessage" /\ request[k].to \in Addresses
  BY <1>3 DEF Mailbox
<1> QED
  BY <1>1, <1>2, <1>3, ReqsKinds

\* Nothing that a goroutine works on ever has another type than it should, and
\* a goroutine never works on a request, a peer or a response that is not there.
THEOREM TypeCorrect == Spec => []TypeOK
<1>1. Init => TypeOK
  BY NullAssumption, MaxReqsAssumption DEF Init, TypeOK, Places
<1>2. TypeOK /\ [Next]_vars => TypeOK'
  <2> SUFFICES ASSUME TypeOK, [Next]_vars PROVE TypeOK'
    OBVIOUS
  <2> USE NullAssumption, MaxReqsAssumption
  <2>1. ASSUME NEW k \in Conns, NEW who \in Addresses, sasayakiServer(k, who)
        PROVE TypeOK'
    BY <2>1 DEF TypeOK, sasayakiServer, Goto, Places
  <2>2. ASSUME NEW k \in Conns, NEW req \in Reqs \cup {Null}, WriteRequest(k, req)
        PROVE TypeOK'
    BY <2>2 DEF TypeOK, WriteRequest, Places
  <2>3. ASSUME NEW k \in Conns, readRequest(k) PROVE TypeOK'
    BY <2>3 DEF TypeOK, readRequest, Goto, Places
  <2>4. ASSUME NEW k \in Conns, rejectFields(k) PROVE TypeOK'
    BY <2>4, ReqsKinds DEF TypeOK, rejectFields, Goto, Places
  <2>5. ASSUME NEW k \in Conns, passFields(k) PROVE TypeOK'
    BY <2>5 DEF TypeOK, passFields, Goto, Places
  <2>6. ASSUME NEW k \in Conns, lock(k) PROVE TypeOK'
    BY <2>6 DEF TypeOK, lock, Goto, Places
  <2>7. ASSUME NEW k \in Conns, load(k) PROVE TypeOK'
    <3>1. Mailbox(k) \in Addresses
      BY <2>7, MailboxType DEF load, Goto
    <3> QED
      BY <2>7, <3>1 DEF TypeOK, load, Goto, Places
  <2>8. ASSUME NEW k \in Conns, store(k) PROVE TypeOK'
    <3>1. /\ pc[k] = "loaded" /\ pc' = [pc EXCEPT ![k] = "stored"]
          /\ UNCHANGED <<queryMutex, publicKey, inbox, outbox, request,
                         messages, written>>
      BY <2>8 DEF store, Goto
    <3>2. request[k] \in Reqs /\ publicKey[k] \in Addresses
          /\ messages[k] \in Seq(Msgs)
      BY <3>1 DEF TypeOK
    <3>3. /\ pendingMessages' \in [Addresses -> Seq(Msgs)]
          /\ \E res \in Resps : response' = [response EXCEPT ![k] = res]
      <4>1. CASE request[k].type = "SendMessage"
        <5> DEFINE m == [from |-> publicKey[k], convo |-> request[k].convo,
                         content |-> request[k].content]
                   res == [type |-> "success", ok |-> TRUE]
        <5>1. /\ pendingMessages' = [pendingMessages EXCEPT ![request[k].to] =
                                       Append(messages[k], m)]
              /\ response' = [response EXCEPT ![k] = res]
          BY <2>8, <4>1 DEF store
        <5>2. request[k] # GetNextMessage
          BY <4>1 DEF GetNextMessage
        <5>3. /\ request[k].to \in Addresses /\ request[k].convo \in Convos
              /\ request[k].content \in Contents
          BY <3>2, <5>2, ReqsKinds
        <5>4. m \in Msgs /\ res \in Resps
          BY <3>2, <5>3, ReqsKinds
        <5> HIDE DEF m, res
        <5>5. Append(messages[k], m) \in Seq(Msgs)
          BY <3>2, <5>4, AppendProperties
        <5> QED
          BY <5>1, <5>3, <5>4, <5>5 DEF TypeOK
      <4>2. CASE request[k].type # "SendMessage" /\ messages[k] = <<>>
        <5> DEFINE res == [type |-> "message", msg |-> Null]
        <5>1. /\ UNCHANGED pendingMessages
              /\ response' = [response EXCEPT ![k] = res]
          BY <2>8, <4>2 DEF store
        <5> QED
          BY <5>1, ReqsKinds DEF TypeOK
      <4>3. CASE request[k].type # "SendMessage" /\ messages[k] # <<>>
        <5> DEFINE res == [type |-> "message", msg |-> Head(messages[k])]
        <5>1. /\ pendingMessages' = [pendingMessages EXCEPT ![publicKey[k]] =
                                       Tail(messages[k])]
              /\ response' = [response EXCEPT ![k] = res]
          BY <2>8, <4>3 DEF store
        <5>2. /\ Head(messages[k]) \in Msgs
              /\ Tail(messages[k]) \in Seq(Msgs)
          BY <3>2, <4>3, HeadTailProperties
        <5>3. res \in Resps
          BY <5>2, ReqsKinds
        <5> HIDE DEF res
        <5> QED
          BY <3>2, <5>1, <5>2, <5>3 DEF TypeOK
      <4> QED BY <4>1, <4>2, <4>3
    <3> QED
      BY <3>1, <3>3 DEF TypeOK, Places
  <2>9. ASSUME NEW k \in Conns, unlock(k) PROVE TypeOK'
    BY <2>9 DEF TypeOK, unlock, Goto, Places
  <2>10. ASSUME NEW k \in Conns, writeResponse(k) PROVE TypeOK'
    BY <2>10 DEF TypeOK, writeResponse, Goto, Places
  <2>11. ASSUME NEW k \in Conns, breakSession(k) PROVE TypeOK'
    BY <2>11 DEF TypeOK, breakSession, Places
  <2>12. CASE UNCHANGED vars
    BY <2>12 DEF TypeOK, vars
  <2> QED
    BY <2>1, <2>2, <2>3, <2>4, <2>5, <2>6, <2>7, <2>8, <2>9, <2>10, <2>11, <2>12
       DEF Next, handleClient
<1> QED
  BY <1>1, <1>2, PTL DEF Spec

-----------------------------------------------------------------------------
(* The mutex *)

IInv == TypeOK /\ LockHeld /\ LoadedIsCurrent /\ CheckedFits

\* The places between Lock and Unlock.
Holding == {"locked", "loaded", "stored"}

\* Two goroutines are never between Lock and Unlock at the same time.
LEMMA Exclusive ==
    ASSUME LockHeld, NEW j \in Conns, NEW k \in Conns,
           pc[j] \in Holding, pc[k] \in Holding
    PROVE  j = k
BY DEF LockHeld, Holding

\* A step that moves one goroutine among places where it needs no mutex.
LEMMA OutsideStep ==
    ASSUME IInv, TypeOK',
           NEW k \in Conns, NEW to \in Places \ (Holding \cup {"locking"}),
           pc' = [pc EXCEPT ![k] = to],
           \A j \in Conns \ {k} : request'[j] = request[j] /\ publicKey'[j] = publicKey[j],
           pc[k] \notin Holding,
           UNCHANGED <<pendingMessages, queryMutex, messages>>
    PROVE  IInv'
<1>1. \A j \in Conns : pc'[j] = IF j = k THEN to ELSE pc[j]
  BY DEF IInv, TypeOK
<1>2. LockHeld'
  BY <1>1 DEF IInv, LockHeld, Holding
<1>3. LoadedIsCurrent'
  BY <1>1 DEF IInv, LoadedIsCurrent, Mailbox, Holding
<1>4. CheckedFits'
  BY <1>1 DEF IInv, CheckedFits, Holding
<1> QED
  BY <1>2, <1>3, <1>4 DEF IInv

\* The mutex is held by whoever is between Lock and Unlock, what such a
\* goroutine read from the map is still there when it writes it back, and it
\* works only on a message whose fields were checked.
THEOREM MutexCorrect == Spec => [](LockHeld /\ LoadedIsCurrent /\ CheckedFits)
<1>1. Init => IInv
  BY NullAssumption, MaxReqsAssumption
     DEF Init, IInv, TypeOK, Places, LockHeld, LoadedIsCurrent, CheckedFits
<1>2. IInv /\ TypeOK' /\ [Next]_vars => IInv'
  <2> SUFFICES ASSUME IInv, TypeOK', [Next]_vars PROVE IInv'
    OBVIOUS
  <2>0. TypeOK /\ LockHeld /\ LoadedIsCurrent /\ CheckedFits
    BY DEF IInv
  <2>1. ASSUME NEW k \in Conns, NEW who \in Addresses, sasayakiServer(k, who)
        PROVE IInv'
    <3>1. /\ pc' = [pc EXCEPT ![k] = "reading"] /\ pc[k] = "closed"
          /\ publicKey' = [publicKey EXCEPT ![k] = who]
          /\ UNCHANGED <<pendingMessages, queryMutex, messages, request>>
      BY <2>1 DEF sasayakiServer, Goto
    <3> QED
      BY <3>1, <2>0, OutsideStep DEF Places, Holding, TypeOK
  <2>2. ASSUME NEW k \in Conns, NEW req \in Reqs \cup {Null}, WriteRequest(k, req)
        PROVE IInv'
    BY <2>0, <2>2 DEF IInv, WriteRequest, LockHeld, LoadedIsCurrent, CheckedFits, Mailbox
  <2>3. ASSUME NEW k \in Conns, readRequest(k) PROVE IInv'
    <3>1. /\ pc' = [pc EXCEPT ![k] = "checking"] /\ pc[k] = "reading"
          /\ request' = [request EXCEPT ![k] = Head(inbox[k])]
          /\ UNCHANGED <<pendingMessages, queryMutex, messages, publicKey>>
      BY <2>3 DEF readRequest, Goto
    <3> QED
      BY <3>1, <2>0, OutsideStep DEF Places, Holding, TypeOK
  <2>4. ASSUME NEW k \in Conns, rejectFields(k) PROVE IInv'
    <3>1. /\ pc' = [pc EXCEPT ![k] = "responding"] /\ pc[k] = "checking"
          /\ UNCHANGED <<pendingMessages, queryMutex, messages, publicKey, request>>
      BY <2>4 DEF rejectFields, Goto
    <3> QED
      BY <3>1, <2>0, OutsideStep DEF Places, Holding, TypeOK
  <2>5. ASSUME NEW k \in Conns, passFields(k) PROVE IInv'
    BY <2>0, <2>5 DEF IInv, passFields, Goto, LockHeld, LoadedIsCurrent,
                      CheckedFits, Mailbox, Malformed, TypeOK
  <2>6. ASSUME NEW k \in Conns, lock(k) PROVE IInv'
    BY <2>0, <2>6, NullAssumption
       DEF IInv, lock, Goto, LockHeld, LoadedIsCurrent, CheckedFits, Mailbox, TypeOK
  <2>7. ASSUME NEW k \in Conns, load(k) PROVE IInv'
    BY <2>0, <2>7
       DEF IInv, load, Goto, LockHeld, LoadedIsCurrent, CheckedFits, Mailbox, TypeOK
  <2>8. ASSUME NEW k \in Conns, store(k) PROVE IInv'
    <3>1. /\ pc' = [pc EXCEPT ![k] = "stored"] /\ pc[k] = "loaded"
          /\ UNCHANGED <<queryMutex, publicKey, request, messages>>
      BY <2>8 DEF store, Goto
    <3>2. \A j \in Conns : pc'[j] # "loaded"
      BY <3>1, <2>0, Exclusive DEF TypeOK, Holding
    <3> QED
      BY <3>1, <3>2, <2>0 DEF IInv, LockHeld, LoadedIsCurrent, CheckedFits, TypeOK
  <2>9. ASSUME NEW k \in Conns, unlock(k) PROVE IInv'
    <3>1. /\ pc' = [pc EXCEPT ![k] = "responding"] /\ pc[k] = "stored"
          /\ UNCHANGED <<pendingMessages, publicKey, request, messages>>
      BY <2>9 DEF unlock, Goto
    <3>2. \A j \in Conns : pc'[j] \notin Holding
      BY <3>1, <2>0, Exclusive DEF TypeOK, Holding
    <3> QED
      BY <3>1, <3>2, <2>0
         DEF IInv, LockHeld, LoadedIsCurrent, CheckedFits, TypeOK, Holding
  <2>10. ASSUME NEW k \in Conns, writeResponse(k) PROVE IInv'
    <3>1. /\ pc' = [pc EXCEPT ![k] = "reading"] /\ pc[k] = "responding"
          /\ UNCHANGED <<pendingMessages, queryMutex, messages, publicKey, request>>
      BY <2>10 DEF writeResponse, Goto
    <3> QED
      BY <3>1, <2>0, OutsideStep DEF Places, Holding, TypeOK
  <2>11. ASSUME NEW k \in Conns, breakSession(k) PROVE IInv'
    <3>1. /\ pc' = [pc EXCEPT ![k] = "closed"] /\ pc[k] \in {"reading", "responding"}
          /\ publicKey' = [publicKey EXCEPT ![k] = Null]
          /\ UNCHANGED <<pendingMessages, queryMutex, messages, request>>
      BY <2>11 DEF breakSession
    <3> QED
      BY <3>1, <2>0, OutsideStep DEF Places, Holding, TypeOK
  <2>12. CASE UNCHANGED vars
    BY <2>0, <2>12 DEF vars, IInv, LockHeld, LoadedIsCurrent, CheckedFits, Mailbox
  <2> QED
    BY <2>1, <2>2, <2>3, <2>4, <2>5, <2>6, <2>7, <2>8, <2>9, <2>10, <2>11, <2>12
       DEF Next, handleClient
<1>3. IInv => LockHeld /\ LoadedIsCurrent /\ CheckedFits
  BY DEF IInv
<1> QED
  BY <1>1, <1>2, <1>3, TypeCorrect, PTL DEF Spec

-----------------------------------------------------------------------------
(* Refinement *)

\* A step that serves nothing and writes nothing is invisible.
LEMMA InvisibleStep ==
    ASSUME \A j \in Conns : askedOf(j)' = askedOf(j) /\ answersOf(j)' = answersOf(j),
           UNCHANGED <<pendingMessages, publicKey>>
    PROVE  UNCHANGED MQ!vars
BY DEF MQ!vars

\* A step that answers the request of k is the one that serves it.
LEMMA ServingStep ==
    ASSUME IInv, NEW k \in Conns, NEW res,
           request[k] \in Reqs,
           askedOf(k) = <<request[k]>> \o inbox[k],
           askedOf(k)' = inbox[k],
           answersOf(k)' = Append(answersOf(k), res),
           \A j \in Conns \ {k} : askedOf(j)' = askedOf(j) /\ answersOf(j)' = answersOf(j),
           UNCHANGED publicKey,
           res = Answer(pendingMessages, publicKey[k], request[k]),
           pendingMessages' = Served(pendingMessages, publicKey[k], request[k])
    PROVE  MQ!Serve(k)
<1> DEFINE asked == [j \in Conns |-> askedOf(j)]
           answers == [j \in Conns |-> answersOf(j)]
<1>1. inbox[k] \in Seq(Reqs \cup {Null}) /\ request[k] \in Reqs \cup {Null}
  BY DEF IInv, TypeOK
<1>2. /\ asked[k] # <<>> /\ Head(asked[k]) = request[k] /\ Tail(asked[k]) = inbox[k]
  BY <1>1
<1>3. request[k] # Null
  BY NullAssumption
<1>4. asked' = [asked EXCEPT ![k] = Tail(@)]
  BY <1>2
<1>5. answers' = [answers EXCEPT ![k] = Append(@, res)]
  OBVIOUS
<1> QED
  BY <1>2, <1>3, <1>4, <1>5
     DEF MQ!Serve, MQ!Served, MQ!Answer, MQ!handleSendMessage, MQ!handleGetNextMessage,
         Served, Answer, handleSendMessage, handleGetNextMessage

\* The goroutines, their mutex and the two-step accesses to the map implement a
\* hub that serves every request in one step.
THEOREM AtomicHub == Spec => ServesAtomically
<1>1. Init => MQ!Init
  BY DEF Init, MQ!Init, askedOf, answersOf
<1>2. IInv /\ TypeOK' /\ [Next]_vars => [MQ!Next]_(MQ!vars)
  <2> SUFFICES ASSUME IInv, TypeOK', [Next]_vars PROVE [MQ!Next]_(MQ!vars)
    OBVIOUS
  <2>0. TypeOK /\ LockHeld /\ LoadedIsCurrent /\ CheckedFits
    BY DEF IInv
  <2>1. ASSUME NEW k \in Conns, NEW who \in Addresses, sasayakiServer(k, who)
        PROVE MQ!Connect(k, who)
    <3>1. pc' = [pc EXCEPT ![k] = "reading"] /\ pc[k] = "closed" /\ publicKey[k] = Null
      BY <2>0, <2>1 DEF sasayakiServer, Goto, TypeOK
    <3>2. \A j \in Conns : askedOf(j)' = askedOf(j) /\ answersOf(j)' = answersOf(j)
      BY <2>0, <2>1, <3>1 DEF sasayakiServer, askedOf, answersOf, TypeOK
    <3> QED
      BY <2>1, <3>1, <3>2 DEF MQ!Connect, sasayakiServer
  <2>2. ASSUME NEW k \in Conns, NEW req \in Reqs \cup {Null}, WriteRequest(k, req)
        PROVE MQ!Submit(k, req)
    <3>1. /\ \A j \in Conns : answersOf(j)' = answersOf(j)
          /\ \A j \in Conns \ {k} : askedOf(j)' = askedOf(j)
      BY <2>0, <2>2 DEF WriteRequest, askedOf, answersOf, TypeOK
    <3>2. askedOf(k)' = Append(askedOf(k), req)
      <4>1. inbox'[k] = Append(inbox[k], req)
        BY <2>0, <2>2 DEF WriteRequest, TypeOK
      <4>2. /\ inbox[k] \in Seq(Reqs \cup {Null})
            /\ request[k] \in Reqs \cup {Null}
        BY <2>0 DEF TypeOK
      <4>3. <<request[k]>> \o Append(inbox[k], req) = Append(<<request[k]>> \o inbox[k], req)
        BY <4>2
      <4> QED
        BY <2>2, <4>1, <4>3 DEF WriteRequest, askedOf
    <3>3. publicKey[k] # Null
      BY <2>0, <2>2 DEF WriteRequest, TypeOK
    <3> QED
      BY <2>2, <3>1, <3>2, <3>3 DEF MQ!Submit, WriteRequest
  <2>3. ASSUME NEW k \in Conns, readRequest(k) PROVE UNCHANGED MQ!vars
    <3>1. /\ pc' = [pc EXCEPT ![k] = "checking"] /\ pc[k] = "reading"
          /\ request' = [request EXCEPT ![k] = Head(inbox[k])]
          /\ inbox' = [inbox EXCEPT ![k] = Tail(@)] /\ inbox[k] # <<>>
          /\ UNCHANGED <<pendingMessages, publicKey, outbox, response>>
      BY <2>3 DEF readRequest, Goto
    <3>2. <<Head(inbox[k])>> \o Tail(inbox[k]) = inbox[k]
      BY <2>0, <3>1 DEF TypeOK
    <3>3. \A j \in Conns : answersOf(j)' = answersOf(j)
      BY <2>0, <3>1 DEF answersOf, TypeOK
    <3>4. \A j \in Conns : askedOf(j)' = askedOf(j)
      BY <2>0, <3>1, <3>2 DEF askedOf, TypeOK
    <3> QED
      BY <3>1, <3>3, <3>4, InvisibleStep
  <2>4. ASSUME NEW k \in Conns, rejectFields(k) PROVE MQ!Serve(k)
    <3>1. /\ pc' = [pc EXCEPT ![k] = "responding"] /\ pc[k] = "checking"
          /\ request[k].type = "SendMessage" /\ ~request[k].fits
          /\ response' = [response EXCEPT ![k] = [type |-> "success", ok |-> FALSE]]
          /\ UNCHANGED <<pendingMessages, publicKey, inbox, outbox, request>>
      BY <2>4 DEF rejectFields, Goto, Malformed
    <3>2. request[k] \in Reqs /\ request[k] # GetNextMessage
      BY <2>0, <3>1 DEF TypeOK, GetNextMessage
    <3>3. request[k].fits = FALSE
      BY <3>1, <3>2, ReqsKinds
    <3>4. /\ Served(pendingMessages, publicKey[k], request[k]) = pendingMessages
          /\ Answer(pendingMessages, publicKey[k], request[k])
                = [type |-> "success", ok |-> FALSE]
      BY <3>1, <3>3 DEF Served, Answer, handleSendMessage
    <3>5. /\ \A j \in Conns \ {k} : askedOf(j)' = askedOf(j) /\ answersOf(j)' = answersOf(j)
          /\ askedOf(k) = <<request[k]>> \o inbox[k] /\ askedOf(k)' = inbox[k]
          /\ answersOf(k)' = Append(answersOf(k), [type |-> "success", ok |-> FALSE])
      BY <2>0, <3>1 DEF askedOf, answersOf, TypeOK
    <3> QED
      BY <3>1, <3>2, <3>4, <3>5, ServingStep
  <2>5. ASSUME NEW k \in Conns, passFields(k) PROVE UNCHANGED MQ!vars
    <3>1. \A j \in Conns : askedOf(j)' = askedOf(j) /\ answersOf(j)' = answersOf(j)
      BY <2>0, <2>5 DEF passFields, Goto, askedOf, answersOf, TypeOK
    <3> QED
      BY <2>5, <3>1, InvisibleStep DEF passFields
  <2>6. ASSUME NEW k \in Conns, lock(k) PROVE UNCHANGED MQ!vars
    <3>1. \A j \in Conns : askedOf(j)' = askedOf(j) /\ answersOf(j)' = answersOf(j)
      BY <2>0, <2>6 DEF lock, Goto, askedOf, answersOf, TypeOK
    <3> QED
      BY <2>6, <3>1, InvisibleStep DEF lock
  <2>7. ASSUME NEW k \in Conns, load(k) PROVE UNCHANGED MQ!vars
    <3>1. \A j \in Conns : askedOf(j)' = askedOf(j) /\ answersOf(j)' = answersOf(j)
      BY <2>0, <2>7 DEF load, Goto, askedOf, answersOf, TypeOK
    <3> QED
      BY <2>7, <3>1, InvisibleStep DEF load
  <2>8. ASSUME NEW k \in Conns, store(k) PROVE MQ!Serve(k)
    <3> DEFINE res == Answer(pendingMessages, publicKey[k], request[k])
    <3>1. /\ pc' = [pc EXCEPT ![k] = "stored"] /\ pc[k] = "loaded"
          /\ UNCHANGED <<publicKey, inbox, outbox, request>>
      BY <2>8 DEF store, Goto
    <3>2. request[k] \in Reqs /\ messages[k] = pendingMessages[Mailbox(k)]
      BY <2>0, <3>1 DEF TypeOK, LoadedIsCurrent
    <3>3. /\ response' = [response EXCEPT ![k] = res]
          /\ pendingMessages' = Served(pendingMessages, publicKey[k], request[k])
      <4>1. CASE request[k].type = "SendMessage"
        <5>1. request[k].fits
          BY <2>0, <3>1, <4>1 DEF CheckedFits
        <5>2. request[k].fits = TRUE
          BY <3>2, <4>1, <5>1, ReqsKinds DEF GetNextMessage
        <5> QED
          BY <2>8, <3>2, <4>1, <5>2
             DEF store, Mailbox, Served, Answer, handleSendMessage
      <4>2. CASE request[k].type # "SendMessage"
        BY <2>8, <3>2, <4>2 DEF store, Mailbox, Served, Answer, handleGetNextMessage
      <4> QED BY <4>1, <4>2
    <3> HIDE DEF res
    <3>4. /\ \A j \in Conns \ {k} : askedOf(j)' = askedOf(j) /\ answersOf(j)' = answersOf(j)
          /\ askedOf(k) = <<request[k]>> \o inbox[k] /\ askedOf(k)' = inbox[k]
          /\ answersOf(k)' = Append(answersOf(k), res)
      BY <2>0, <3>1, <3>3 DEF askedOf, answersOf, TypeOK
    <3> QED
      BY <3>1, <3>2, <3>3, <3>4, ServingStep DEF res
  <2>9. ASSUME NEW k \in Conns, unlock(k) PROVE UNCHANGED MQ!vars
    <3>1. \A j \in Conns : askedOf(j)' = askedOf(j) /\ answersOf(j)' = answersOf(j)
      BY <2>0, <2>9 DEF unlock, Goto, askedOf, answersOf, TypeOK
    <3> QED
      BY <2>9, <3>1, InvisibleStep DEF unlock
  <2>10. ASSUME NEW k \in Conns, writeResponse(k) PROVE UNCHANGED MQ!vars
    <3>1. \A j \in Conns : askedOf(j)' = askedOf(j) /\ answersOf(j)' = answersOf(j)
      BY <2>0, <2>10 DEF writeResponse, Goto, askedOf, answersOf, TypeOK
    <3> QED
      BY <2>10, <3>1, InvisibleStep DEF writeResponse
  <2>11. ASSUME NEW k \in Conns, breakSession(k) PROVE MQ!Disconnect(k)
    <3>1. publicKey[k] # Null
      BY <2>0, <2>11 DEF breakSession, TypeOK
    <3>2. /\ \A j \in Conns \ {k} : askedOf(j)' = askedOf(j) /\ answersOf(j)' = answersOf(j)
          /\ askedOf(k)' = <<>> /\ answersOf(k)' = <<>>
      BY <2>0, <2>11 DEF breakSession, askedOf, answersOf, TypeOK
    <3> QED
      BY <2>11, <3>1, <3>2 DEF MQ!Disconnect, breakSession
  <2>12. CASE UNCHANGED vars
    <3>1. \A j \in Conns : askedOf(j)' = askedOf(j) /\ answersOf(j)' = answersOf(j)
      BY <2>12 DEF vars, askedOf, answersOf
    <3> QED
      BY <2>12, <3>1, InvisibleStep DEF vars
  <2>13. MQ!Reqs = Reqs
    BY DEF MQ!Reqs, Reqs, MQ!Requests, Requests
  <2>14. CASE Next
    <3>1. PICK k \in Conns :
             \/ \E who \in Addresses : sasayakiServer(k, who)
             \/ \E req \in Reqs \cup {Null} : WriteRequest(k, req)
             \/ handleClient(k)
             \/ breakSession(k)
      BY <2>14 DEF Next
    <3>2. CASE handleClient(k)
      BY <3>2, <2>3, <2>4, <2>5, <2>6, <2>7, <2>8, <2>9, <2>10
         DEF handleClient, MQ!Next
    <3>3. CASE ~handleClient(k)
      BY <3>1, <3>3, <2>1, <2>2, <2>11, <2>13 DEF MQ!Next
    <3> QED
      BY <3>2, <3>3
  <2> QED
    BY <2>12, <2>14
<1> QED
  BY <1>1, <1>2, TypeCorrect, MutexCorrect, PTL
     DEF Spec, ServesAtomically, MQ!Spec, IInv
=============================================================================
