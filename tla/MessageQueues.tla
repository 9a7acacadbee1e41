--------------------------- MODULE MessageQueues ---------------------------
(***************************************************************************)
(* What the hub promises to the programs that talk to it: requests of one  *)
(* connection are served in order, each at once, against one queue of      *)
(* messages per recipient.  This is the hub of module Sasayaki.            *)
(***************************************************************************)
EXTENDS Hub

CONSTANTS
    Conns,      \* connections
    Addresses,  \* public keys of the clients
    Convos,     \* conversation ids
    Contents    \* contents of messages

Reqs == Requests(Addresses, Convos, Contents)

VARIABLES
    pending,    \* recipient -> the messages that wait for it
    owner,      \* connection -> who authenticated on it, Null when closed
    asked,      \* connection -> requests that are not served
    answers     \* connection -> the answers to the requests that are

vars == <<pending, owner, asked, answers>>

Init ==
    /\ pending = [x \in Addresses |-> <<>>]
    /\ owner = [k \in Conns |-> Null]
    /\ asked = [k \in Conns |-> <<>>]
    /\ answers = [k \in Conns |-> <<>>]

Connect(k, who) ==
    /\ owner[k] = Null
    /\ owner' = [owner EXCEPT ![k] = who]
    /\ UNCHANGED <<pending, asked, answers>>

\* req is Null if no request can be read from it.
Submit(k, req) ==
    /\ owner[k] # Null
    /\ asked' = [asked EXCEPT ![k] = Append(@, req)]
    /\ UNCHANGED <<pending, owner, answers>>

Serve(k) ==
    LET req == Head(asked[k]) IN
    /\ asked[k] # <<>>
    /\ req # Null
    /\ pending' = Served(pending, owner[k], req)
    /\ answers' = [answers EXCEPT ![k] = Append(@, Answer(pending, owner[k], req))]
    /\ asked' = [asked EXCEPT ![k] = Tail(@)]
    /\ UNCHANGED owner

Disconnect(k) ==
    /\ owner[k] # Null
    /\ owner' = [owner EXCEPT ![k] = Null]
    /\ asked' = [asked EXCEPT ![k] = <<>>]
    /\ answers' = [answers EXCEPT ![k] = <<>>]
    /\ UNCHANGED pending

Next ==
    \E k \in Conns :
        \/ \E who \in Addresses : Connect(k, who)
        \/ \E req \in Reqs \cup {Null} : Submit(k, req)
        \/ Serve(k)
        \/ Disconnect(k)

Spec == Init /\ [][Next]_vars
=============================================================================
