----------------------------- MODULE Encryption -----------------------------
(***************************************************************************)
(* The end-to-end encryption service (crypto.go), as operators on symbolic *)
(* values.  A strobe state is named by how it was derived and by how often *)
(* it was used since, so two states are equal exactly when the code would  *)
(* have produced the same bytes; a ciphertext carries the state that made  *)
(* it.  Cryptography itself is taken to be perfect.                        *)
(***************************************************************************)
EXTENDS Naturals

CONSTANTS
    Clients,    \* the client programs; a client stands for its public key
    Sizes,      \* subset of {"fits", "over"}: how large a typed text may be
    MaxDraws,   \* bound: random values one client draws
    Null        \* Go's nil: a missing row, an empty blob, no message

ASSUME SizesAssumption == Sizes \subseteq {"fits", "over"}
ASSUME MaxDrawsAssumption == MaxDraws \in Nat

\* A value read from crypto/rand: a conversation id or an ephemeral key.
Draws == [who : Clients, no : 1 .. MaxDraws]

\* What a user types.  "over" is a text the web server lets through and whose
\* ciphertext exceeds the hub's limit (both limits are 10000, webserver.go:44
\* and server/client.go:18, and the ciphertext is a MAC longer).
Texts == [by : Clients, no : 1 .. MaxDraws, size : Sizes]

\* One of the two strobe states that a Noise IK handshake splits into; "turn"
\* counts the RATCHETs, "from" says whose threads it creates.
ThreadStates == [init : Draws, resp : Draws,
                 from : {"initiator", "responder"}, turn : Nat]

\* A strobe state that encrypts the messages of one direction of a
\* conversation; "turn" counts the AEADs performed.
SessionKeys == [thread : ThreadStates,
                label : {"initiatorThread", "responderThread"}, turn : Nat]

FirstHandshakes  == [kind : {"first"}, init : Draws]
SecondHandshakes == [kind : {"second"}, init : Draws, resp : Draws]
Ciphertexts      == [kind : {"aead"}, key : SessionKeys, convo : Draws,
                     from : Clients, to : Clients, text : Texts]

\* The content field of a message on the wire.
Contents == FirstHandshakes \cup SecondHandshakes \cup Ciphertexts

\* nil is told from the blobs that a column may hold instead of it.
ASSUME NullAssumption ==
    /\ Null \notin Contents
    /\ Null \notin ThreadStates
    /\ Null \notin SessionKeys
    /\ Null \notin Texts

-----------------------------------------------------------------------------
(* Messages *)

\* encryptMessage: Send_AEAD under the given state, which authenticates the
\* conversation, the sender and the recipient.
encryptMessage(s1, convo, me, bob, text) ==
    [kind |-> "aead", key |-> s1, convo |-> convo,
     from |-> me, to |-> bob, text |-> text]

\* The state that Serialize() returns after one Send_AEAD or Recv_AEAD.
AfterAEAD(s) == [s EXCEPT !.turn = @ + 1]

\* Mutations: the state is not looked at beyond its thread; the two ends of the
\* associated data are swapped; the ratchet is forgotten.
decryptsAnyTurn(s2, me, m) ==
    /\ m.content.kind = "aead"
    /\ [m.content.key EXCEPT !.turn = 0] = [s2 EXCEPT !.turn = 0]
decryptsSwapped(s2, me, m) ==
    /\ m.content.kind = "aead"
    /\ m.content.key = s2
    /\ m.content.from = me
StaleRatchet(ts) == ts

\* decryptMessage: Recv_AEAD succeeds on the ciphertext made by the very state
\* the receiver holds, with the associated data the receiver recomputes.
decryptMessage(s2, me, m) ==
    /\ m.content.kind = "aead"
    /\ m.content.key = s2
    /\ m.content.convo = m.convo
    /\ m.content.from = m.from
    /\ m.content.to = me

-----------------------------------------------------------------------------
(* Threads: createNewConvo and createConvoFromMessage run the same lines *)

InitiatorThread(ts) == [thread |-> ts, label |-> "initiatorThread", turn |-> 0]
ResponderThread(ts) == [thread |-> ts, label |-> "responderThread", turn |-> 0]

\* RATCHET(32) on the thread state itself.
Ratchet(ts) == [ts EXCEPT !.turn = @ + 1]

-----------------------------------------------------------------------------
(* Contacts: Noise IK,  -> e, es, s, ss   <- e, ee, se *)

\* addContact: the initiator's message; its serialized state is its ephemeral.
FirstHandshakeMessage(e) == [kind |-> "first", init |-> e]

\* acceptContact parses only a first handshake message ...
acceptContact(blob) == blob.kind = "first"

\* ... and answers with the second one.
SecondHandshakeMessage(blob, f) ==
    [kind |-> "second", init |-> blob.init, resp |-> f]

\* Mutation: it is compared with the responder's half.
finishesWrongHalf(e, content) ==
    /\ content.kind = "second"
    /\ content.resp = e

\* finishAddContact: the message must answer this very handshake state.
finishAddContact(e, content) ==
    /\ content.kind = "second"
    /\ content.init = e

\* The two states Noise splits into; the responder takes them reversed.
ThreadState(e, f, whose) ==
    [init |-> e, resp |-> f, from |-> whose, turn |-> 0]
=============================================================================
