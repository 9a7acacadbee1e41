-------------------------------- MODULE Hub --------------------------------
(***************************************************************************)
(* What the hub's two request handlers (server/client.go) do to its memory *)
(* (server/memory.go), once they hold its mutex: one queue of pending      *)
(* messages per recipient.                                                 *)
(***************************************************************************)
EXTENDS Sequences

CONSTANT Null

\* Requests (serialization/messages.proto).  "fits" says that the fields pass
\* the checks of handleSendMessage: its callers fail only the length limit.
SendMessage(to, convo, content, fits) ==
    [type |-> "SendMessage", to |-> to, convo |-> convo,
     content |-> content, fits |-> fits]
GetNextMessage == [type |-> "GetNextMessage"]

Requests(Address, Convo, Content) ==
    [type : {"SendMessage"}, to : Address, convo : Convo,
     content : Content, fits : BOOLEAN]
    \cup [type : {"GetNextMessage"}]

Messages(Address, Convo, Content) ==
    [from : Address, convo : Convo, content : Content]

\* ResponseSuccess and ResponseMessage; a ResponseMessage without fields is Null.
Responses(Address, Convo, Content) ==
    [type : {"success"}, ok : BOOLEAN]
    \cup [type : {"message"}, msg : Messages(Address, Convo, Content) \cup {Null}]

\* Mutation: the newest message is put before the others.
handleSendFirst(pending, who, req) ==
    IF req.fits
    THEN [pending EXCEPT ![req.to] =
             <<[from |-> who, convo |-> req.convo, content |-> req.content]>> \o @]
    ELSE pending

\* handleSendMessage: the mailbox of the recipient, if the fields are good.
handleSendMessage(pending, who, req) ==
    IF req.fits
    THEN [pending EXCEPT ![req.to] =
             Append(@, [from |-> who, convo |-> req.convo, content |-> req.content])]
    ELSE pending

\* handleGetNextMessage: the oldest message leaves the mailbox for good.
handleGetNextMessage(pending, who) ==
    IF pending[who] = <<>> THEN pending
    ELSE [pending EXCEPT ![who] = Tail(@)]

\* The dispatch of handleClient: the memory after a request, and the answer.
Served(pending, who, req) ==
    IF req.type = "SendMessage" THEN handleSendMessage(pending, who, req)
    ELSE handleGetNextMessage(pending, who)

Answer(pending, who, req) ==
    IF req.type = "SendMessage" THEN [type |-> "success", ok |-> req.fits]
    ELSE [type |-> "message",
          msg |-> IF pending[who] = <<>> THEN Null ELSE Head(pending[who])]
=============================================================================
