-------------------------------- MODULE Wire --------------------------------
(***************************************************************************)
(* The protobuf messages between a client and the hub                      *)
(* (serialization/messages.proto) as far as their sizes go: how long each  *)
(* is when it is encoded, where it can be cut and still parse, and what a  *)
(* header says of its length.                                              *)
(*                                                                         *)
(* "of" is the number of the call that a message belongs to.  No byte      *)
(* carries it: it tells apart what the properties tell apart.              *)
(***************************************************************************)
EXTENDS Naturals

CONSTANTS
    Null,
    Contents    \* lengths of the contents that clients send, in bytes

messageMaxChars == 10000

ASSUME ContentsAssumption == Contents \subseteq 1 .. messageMaxChars

\* "good": the address and the ids pass the checks of handleSendMessage.
SendMessage(no, content, good) ==
    [type |-> "SendMessage", of |-> no, content |-> content, good |-> good]
GetNextMessage(no) == [type |-> "GetNextMessage", of |-> no]

ResponseSuccess(no, ok) == [type |-> "ResponseSuccess", of |-> no, ok |-> ok]
ResponseMessage(no, content) ==
    [type |-> "ResponseMessage", of |-> no, content |-> content]
\* A ResponseMessage without fields has nothing that belongs to any call.
NoMessage == ResponseMessage(0, 0)

\* The requests that call "no" may make.
RequestsOf(no) ==
    {SendMessage(no, n, good) : n \in Contents, good \in BOOLEAN}
    \cup {GetNextMessage(no)}

Requests ==
    [type : {"SendMessage"}, of : Nat, content : Contents, good : BOOLEAN]
    \cup [type : {"GetNextMessage"}, of : Nat]
Responses ==
    [type : {"ResponseSuccess"}, of : Nat, ok : BOOLEAN]
    \cup [type : {"ResponseMessage"}, of : Nat, content : Contents \cup {0}]

\* The response that the proxy unmarshals after a request.
ResponseType(req) ==
    IF req.type = "SendMessage" THEN "ResponseSuccess" ELSE "ResponseMessage"

-----------------------------------------------------------------------------
(* proto.Marshal: sizes *)

Varint(n) == IF n < 128 THEN 1 ELSE IF n < 16384 THEN 2 ELSE 3
\* A field of n bytes: tag, length and bytes.  An empty one is left out.
Field(n) == IF n = 0 THEN 0 ELSE 1 + Varint(n) + n

\* An address is 64 bytes long, a conversation id 32; the error text of the
\* refused address 37, and it is the longer of the two.
Size(m) ==
    CASE m.type = "GetNextMessage"  -> 2
      [] m.type = "SendMessage"     ->
            2 + Field(Field(64) + Field(32) + Field(m.content))
      [] m.type = "ResponseSuccess" -> IF m.ok THEN 2 ELSE Field(37)
      [] m.type = "ResponseMessage" ->
            IF m.content = 0 THEN 0 ELSE Field(64) + Field(32) + Field(m.content)

\* Where the encoding of a response may end early and still be one: at the end
\* of a field.  What is missing is then empty.
Cut(m, n) ==
    \/ n = 0
    \/ m.type = "ResponseMessage" /\ n \in {Field(64), Field(64) + Field(32)}
WithoutFields(type) ==
    IF type = "ResponseSuccess" THEN ResponseSuccess(0, FALSE) ELSE NoMessage

-----------------------------------------------------------------------------
(* The two bytes in front of a message *)

Byte == 256

\* []byte{byte(len >> 8), byte(len)} on one end and (header[0] << 8) | header[1]
\* on the other: the shift is in a byte, and moves every bit out of it.
LengthRead(size) == (((size \div Byte) * Byte) % Byte) + (size % Byte)
=============================================================================
