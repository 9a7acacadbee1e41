---------------------------- MODULE FramingProofs ----------------------------
(***************************************************************************)
(* Proofs about Framing for any lengths of the contents, any number of     *)
(* calls, connections and faults.                                          *)
(***************************************************************************)
EXTENDS Framing, Integers, SequenceTheorems, TLAPS

-----------------------------------------------------------------------------
(* Sizes *)

LEMMA ByteNat == \A l \in 0 .. Byte - 1 : l \in Nat
  BY DEF Byte

LEMMA FieldSizes ==
    /\ \A n \in Nat : Field(n) \in Nat /\ n <= Field(n)
    /\ Field(64) = 66 /\ Field(32) = 34 /\ Field(37) = 39
<1>1. ASSUME NEW n \in Nat PROVE Varint(n) \in 1 .. 3
  BY DEF Varint
<1>2. ASSUME NEW n \in Nat PROVE Field(n) \in Nat /\ n <= Field(n)
  BY <1>1 DEF Field
<1>3. Varint(64) = 1 /\ Varint(32) = 1 /\ Varint(37) = 1
  BY DEF Varint
<1>4. Field(64) = 66 /\ Field(32) = 34 /\ Field(37) = 39
  BY <1>3 DEF Field
<1> QED
  BY <1>2, <1>4

LEMMA ContentNat ==
    ASSUME NEW c \in Contents PROVE c \in Nat /\ c > 0
<1>1. c \in 1 .. messageMaxChars
  BY ContentsAssumption
<1> QED
  BY <1>1 DEF messageMaxChars

LEMMA RequestSize ==
    ASSUME NEW r \in Requests
    PROVE  Size(r) \in Nat /\ Size(r) >= 2
<1>1. CASE r.type = "GetNextMessage"
  BY <1>1 DEF Size
<1>2. CASE r.type = "SendMessage"
  <2>1. r.content \in Nat
    BY <1>2, ContentNat DEF Requests
  <2>2. Field(r.content) \in Nat
    BY <2>1, FieldSizes
  <2>3. Size(r) = 2 + Field(66 + 34 + Field(r.content))
    BY <1>2, FieldSizes DEF Size
  <2> QED
    BY <2>2, <2>3, FieldSizes
<1> QED
  BY <1>1, <1>2 DEF Requests

LEMMA ResponseSize ==
    ASSUME NEW r \in Responses
    PROVE  Size(r) \in Nat
<1>1. CASE r.type = "ResponseSuccess"
  BY <1>1, FieldSizes DEF Size
<1>2. CASE r.type = "ResponseMessage"
  <2>1. r.content \in Nat
    BY <1>2, ContentNat DEF Responses
  <2> QED
    BY <1>2, <2>1, FieldSizes DEF Size
<1> QED
  BY <1>1, <1>2 DEF Responses

\* A header is right about a message that fits into its second byte, and says
\* less of any other.
LEMMA Header ==
    ASSUME NEW n \in Nat
    PROVE  /\ LengthRead(n) \in 0 .. Byte - 1
           /\ LengthRead(n) = n <=> n < Byte
           /\ LengthRead(n) <= n
<1>1. n \div Byte \in Nat /\ (((n \div Byte) * Byte) % Byte) = 0
  BY DEF Byte
<1>2. LengthRead(n) = n % Byte
  BY <1>1 DEF LengthRead, Byte
<1> QED
  BY <1>2 DEF Byte

\* A message that is too long to come down is too long to go up.
LEMMA LongerUp ==
    ASSUME NEW r \in Requests, r.type = "SendMessage", Size(r) < Byte, NEW no
    PROVE  Size(ResponseMessage(no, r.content)) < Byte
<1>1. r.content \in Nat /\ r.content > 0
  BY ContentNat DEF Requests
<1>2. Field(r.content) \in Nat
  BY <1>1, FieldSizes
<1>3. Size(r) = 2 + Field(66 + 34 + Field(r.content))
  BY FieldSizes DEF Size
<1>4. Size(ResponseMessage(no, r.content)) = 66 + 34 + Field(r.content)
  BY <1>1, FieldSizes DEF Size, ResponseMessage
<1>5. 66 + 34 + Field(r.content) <= Field(66 + 34 + Field(r.content))
  BY <1>2, FieldSizes
<1> QED
  BY <1>2, <1>3, <1>4, <1>5, FieldSizes DEF Byte

-----------------------------------------------------------------------------
(* Streams *)

LEMMA Streaming ==
    ASSUME NEW M, NEW s \in Streams(M)
    PROVE  /\ Empty \in Streams(M)
           /\ \A m \in M : Written(s, m) \in Streams(M)
           /\ \A m \in M : /\ Written(s, m).frames # <<>>
                           /\ Written(s, m).taken = s.taken
           /\ s.frames # <<>> => Head(s.frames) \in M
<1>1. s.frames \in Seq(M) /\ s.taken \in Nat
  BY DEF Streams
<1>2. Empty \in Streams(M)
  BY DEF Empty, Streams
<1>3. ASSUME NEW m \in M
      PROVE  /\ Written(s, m) \in Streams(M)
             /\ Written(s, m).frames # <<>>
             /\ Written(s, m).taken = s.taken
  <2>1. Append(s.frames, m) \in Seq(M) /\ Append(s.frames, m) # <<>>
    BY <1>1, <1>3, AppendProperties
  <2>3. Written(s, m) = [frames |-> Append(s.frames, m), taken |-> s.taken]
    <3>1. PICK f \in Seq(M), t \in Nat : s = [frames |-> f, taken |-> t]
      BY DEF Streams
    <3> QED
      BY <3>1 DEF Written
  <2> QED
    BY <1>1, <2>1, <2>3 DEF Streams
<1> QED
  BY <1>1, <1>2, <1>3

LEMMA Dropping ==
    ASSUME NEW M, \A m \in M : Size(m) \in Nat, NEW s \in Streams(M),
           NEW b \in Nat, NEW end, NEW n \in Returned(s, b, end)
    PROVE  /\ Drop(s, n) \in Streams(M)
           /\ n # 0 => s.frames # <<>>
<1>1. s.frames \in Seq(M) /\ s.taken \in Nat
  BY DEF Streams
<1>2. CASE n = 0
  BY <1>2 DEF Drop
<1>3. CASE n # 0
  <2>1. b # 0 /\ s.frames # <<>>
    BY <1>3 DEF Returned
  <2>2. Rest(s) \in Int
    BY <1>1, <2>1 DEF Rest
  <2>3. n = Rest(s) \/ n \in Nat
    BY <2>1, <2>2, CountsAssumption DEF Returned
  <2>4. CASE n = Rest(s)
    <3>1. Tail(s.frames) \in Seq(M)
      BY <1>1, <2>1
    <3>2. Drop(s, n) = [frames |-> Tail(s.frames), taken |-> 0]
      BY <1>3, <2>4 DEF Drop
    <3> QED
      BY <2>1, <3>1, <3>2 DEF Streams
  <2>5. CASE n # Rest(s)
    <3>1. s.taken + n \in Nat
      BY <1>1, <2>3, <2>5
    <3>2. Drop(s, n) = [s EXCEPT !.taken = @ + n]
      BY <1>3, <2>5 DEF Drop
    <3> QED
      BY <1>1, <2>1, <3>1, <3>2 DEF Streams
  <2> QED
    BY <2>1, <2>4, <2>5
<1> QED
  BY <1>2, <1>3

-----------------------------------------------------------------------------
(* Types, and the frame boundaries that the hub keeps *)

Typed == TypeOK /\ HubAligned

LEMMA NewCalls ==
    ASSUME NEW no \in Nat, NEW req \in RequestsOf(no)
    PROVE  req \in Requests /\ req.of = no
  BY DEF RequestsOf, SendMessage, GetNextMessage, Requests

LEMMA SeqUpdate ==
    ASSUME NEW S, NEW s \in Seq(S), NEW i, NEW x \in S
    PROVE  /\ [s EXCEPT ![i] = x] \in Seq(S)
           /\ Len([s EXCEPT ![i] = x]) = Len(s)
<1>1. CASE i \in 1 .. Len(s)
  BY <1>1, ExceptSeq
<1>2. CASE i \notin 1 .. Len(s)
  <2>1. DOMAIN s = 1 .. Len(s) /\ s \in [1 .. Len(s) -> S]
    BY LenProperties
  <2>2. [s EXCEPT ![i] = x] = s
    BY <1>2, <2>1
  <2> QED
    BY <2>2
<1> QED
  BY <1>1, <1>2

LEMMA LastResult ==
    ASSUME TypeOK, place # "idle", ReturnCall(Failed) \/ ReturnCall(NilError)
                                   \/ \E x \in Responses : ReturnCall(x)
    PROVE  /\ place' = "idle"
           /\ results' \in Seq(Responses \cup {Null, Failed, NilError})
           /\ Len(results') = Len(results)
<1>1. PICK x \in Responses \cup {Failed, NilError} : ReturnCall(x)
  OBVIOUS
<1>2. results \in Seq(Responses \cup {Null, Failed, NilError})
  BY DEF TypeOK
<1>3. place' = "idle" /\ results' = [results EXCEPT ![Len(results)] = x]
  BY <1>1 DEF ReturnCall
<1> QED
  BY <1>2, <1>3, SeqUpdate

LEMMA RequestType ==
    ASSUME TypeOK, place # "idle"
    PROVE  Len(asked) \in Nat \ {0} /\ request \in Requests
<1>1. asked \in Seq(Requests) /\ asked # <<>>
  BY DEF TypeOK
<1>2. Len(asked) \in Nat /\ Len(asked) # 0
  BY <1>1
<1> QED
  BY <1>1, <1>2 DEF request

LEMMA HeaderTypes ==
    ASSUME NEW M, \A m \in M : Size(m) \in Nat, NEW s \in Streams(M),
           NEW end, NEW n \in Returned(s, 2, end), n = 2
    PROVE  HeadersAt(s) \subseteq 0 .. Byte - 1
<1>1. s.frames # <<>>
  BY DEF Returned
<1>2. Size(Head(s.frames)) \in Nat
  BY <1>1, Streaming
<1> QED
  BY <1>2, Header, CountsAssumption DEF HeadersAt

\* What the proxy makes of the data is a response, or an error.
LEMMA UnmarshaledTypes ==
    ASSUME NEW s \in Streams(Responses), NEW n, n # 0 => s.frames # <<>>,
           NEW type \in {"ResponseSuccess", "ResponseMessage"},
           NEW x \in Unmarshaled(s, n, type)
    PROVE  x \in Responses \/ x = Failed
<1>1. /\ WithoutFields(type) \in Responses
      /\ ResponseSuccess(0, TRUE) \in Responses
      /\ \A no \in Nat, c \in Contents \cup {0} : ResponseMessage(no, c) \in Responses
  BY DEF WithoutFields, ResponseSuccess, NoMessage, ResponseMessage, Responses
<1>2. CASE n = 0
  BY <1>1, <1>2 DEF Unmarshaled
<1>3. CASE n # 0
  <2>1. Head(s.frames) \in Responses
    BY <1>3, Streaming
  <2>2. Head(s.frames).of \in Nat
    BY <2>1 DEF Responses
  <2> QED
    BY <1>1, <1>3, <2>1, <2>2 DEF Unmarshaled
<1> QED
  BY <1>2, <1>3

LEMMA TypedClient ==
    ASSUME Typed,
           \/ \E req \in RequestsOf(Len(asked) + 1) : Call(req)
           \/ \E k \in Conns : ask(k)
           \/ readHeader
           \/ readData
           \/ connError
           \/ connClosed
    PROVE  Typed'
<1>1. ASSUME NEW req \in RequestsOf(Len(asked) + 1), Call(req) PROVE Typed'
  <2>1. Len(asked) \in Nat
    BY DEF Typed, TypeOK
  <2>2. req \in Requests
    BY <2>1, NewCalls
  <2>3. /\ asked' \in Seq(Requests) /\ Len(asked') = Len(asked) + 1 /\ asked' # <<>>
        /\ answers' \in Seq(Responses \cup {Null}) /\ Len(answers') = Len(answers) + 1
        /\ results' \in Seq(Responses \cup {Null, Failed, NilError})
        /\ Len(results') = Len(results) + 1
    <3>1. /\ asked \in Seq(Requests) /\ answers \in Seq(Responses \cup {Null})
          /\ results \in Seq(Responses \cup {Null, Failed, NilError})
      BY DEF Typed, TypeOK
    <3>2. /\ asked' = Append(asked, req) /\ answers' = Append(answers, Null)
          /\ results' = Append(results, Null)
      BY <1>1 DEF Call
    <3> QED
      BY <2>2, <3>1, <3>2, AppendProperties
  <2>4. /\ place' = "asking"
        /\ UNCHANGED <<hubConn, length, up, down, at, hubLength, pending, faults>>
    BY <1>1 DEF Call
  <2>5. misled' \subseteq 1 .. Len(asked')
    <3>1. misled' \subseteq misled \cup {Len(asked) + 1} /\ misled \subseteq 1 .. Len(asked)
      BY <1>1 DEF Call, Typed, TypeOK
    <3> QED
      BY <2>1, <2>3, <3>1
  <2>6. TypeOK'
    BY <2>3, <2>4, <2>5 DEF Typed, TypeOK, Places
  <2> QED
    BY <2>4, <2>6 DEF Typed, HubAligned
<1>2. ASSUME NEW k \in Conns, ask(k) PROVE Typed'
  <2>1. request \in Requests
    BY <1>2, RequestType DEF ask, Typed
  <2>4. /\ hubConn' = k /\ hubConn' # Null /\ place' = "header" /\ place # "idle"
        /\ UNCHANGED <<length, hubLength, pending, asked, answers, results, misled, faults>>
    BY <1>2, NullAssumption DEF ask
  <2>2. CASE hubConn = Null
    <3>1. Empty \in Streams(Requests) /\ Empty \in Streams(Responses)
      BY Streaming DEF Typed, TypeOK
    <3>2. /\ Written(Empty, request) \in Streams(Requests)
          /\ Written(Empty, request).taken = 0
      BY <2>1, <3>1, Streaming DEF Empty
    <3>3. /\ at' = [at EXCEPT ![k] = "header"]
          /\ up' = [up EXCEPT ![k] = Written(Empty, request)]
          /\ down' = [down EXCEPT ![k] = Empty]
      BY <1>2, <2>2 DEF ask
    <3>4. TypeOK'
      <4>1. /\ up' \in [Conns -> Streams(Requests)]
            /\ down' \in [Conns -> Streams(Responses)]
            /\ at' \in [Conns -> {"closed", "header", "data"}]
        BY <3>1, <3>2, <3>3 DEF Typed, TypeOK
      <4> QED
        BY <2>4, <4>1 DEF Typed, TypeOK, Places
    <3>5. HubAligned'
      BY <3>2, <3>3 DEF Typed, TypeOK, HubAligned
    <3> QED
      BY <3>4, <3>5 DEF Typed
  <2>3. CASE hubConn # Null
    <3>1. /\ Written(up[k], request) \in Streams(Requests)
          /\ Written(up[k], request).taken = up[k].taken
          /\ Written(up[k], request).frames # <<>>
      BY <2>1, Streaming DEF Typed, TypeOK
    <3>2. /\ up' = [up EXCEPT ![k] = Written(up[k], request)]
          /\ UNCHANGED <<at, down>>
      BY <1>2, <2>3 DEF ask
    <3>3. TypeOK'
      <4>1. up' \in [Conns -> Streams(Requests)]
        BY <3>1, <3>2 DEF Typed, TypeOK
      <4> QED
        BY <2>4, <3>2, <4>1 DEF Typed, TypeOK, Places
    <3>4. HubAligned'
      BY <3>1, <3>2 DEF Typed, TypeOK, HubAligned
    <3> QED
      BY <3>3, <3>4 DEF Typed
  <2> QED
    BY <2>2, <2>3
<1>3. CASE readHeader
  <2>1. PICK n \in Returned(down[hubConn], 2, "client") :
            /\ down' = [down EXCEPT ![hubConn] = Drop(down[hubConn], n)]
            /\ IF n # 2
               THEN /\ hubConn' = Null
                    /\ ReturnCall(NilError)
                    /\ UNCHANGED length
               ELSE /\ length' \in HeadersAt(down[hubConn])
                    /\ place' = "data"
                    /\ UNCHANGED <<hubConn, results>>
    BY <1>3 DEF readHeader
  <2>2. hubConn \in Conns /\ down[hubConn] \in Streams(Responses) /\ place # "idle"
    BY <1>3, NullAssumption DEF readHeader, Typed, TypeOK
  <2>3. Drop(down[hubConn], n) \in Streams(Responses)
    BY <2>2, Dropping, ResponseSize
  <2>4. down' \in [Conns -> Streams(Responses)]
    BY <2>1, <2>2, <2>3 DEF Typed, TypeOK
  <2>5. UNCHANGED <<up, at, hubLength, pending, answers, asked, misled, faults>>
    BY <1>3 DEF readHeader, hubVars
  <2>6. CASE n # 2
    <3>1. /\ place' = "idle" /\ hubConn' = Null /\ length' = length
          /\ results' \in Seq(Responses \cup {Null, Failed, NilError})
          /\ Len(results') = Len(results)
      BY <2>1, <2>2, <2>6, LastResult DEF Typed
    <3>2. TypeOK'
      BY <2>4, <2>5, <3>1 DEF Typed, TypeOK, Places
    <3> QED
      BY <2>5, <3>2 DEF Typed, HubAligned
  <2>7. CASE n = 2
    <3>1. length' \in 0 .. Byte - 1
      BY <2>1, <2>2, <2>7, HeaderTypes, ResponseSize
    <3>2. TypeOK'
      BY <2>1, <2>2, <2>4, <2>5, <2>7, <3>1, NullAssumption DEF Typed, TypeOK, Places
    <3> QED
      BY <2>5, <3>2 DEF Typed, HubAligned
  <2> QED
    BY <2>6, <2>7
<1>4. CASE readData
  <2>1. PICK n \in Returned(down[hubConn], length, "client") :
            /\ \E x \in Unmarshaled(down[hubConn], n, ResponseType(request)) :
                  ReturnCall(x)
            /\ down' = [down EXCEPT ![hubConn] = Drop(down[hubConn], n)]
    BY <1>4 DEF readData
  <2>2. hubConn \in Conns /\ down[hubConn] \in Streams(Responses) /\ place # "idle"
    BY <1>4, NullAssumption DEF readData, Typed, TypeOK
  <2>3. length \in Nat
    BY DEF Typed, TypeOK, Byte
  <2>4. /\ Drop(down[hubConn], n) \in Streams(Responses)
        /\ n # 0 => down[hubConn].frames # <<>>
    BY <2>2, <2>3, Dropping, ResponseSize
  <2>5. down' \in [Conns -> Streams(Responses)]
    BY <2>1, <2>2, <2>4 DEF Typed, TypeOK
  <2>6. ResponseType(request) \in {"ResponseSuccess", "ResponseMessage"}
    BY DEF ResponseType
  <2>7. /\ place' = "idle"
        /\ results' \in Seq(Responses \cup {Null, Failed, NilError})
        /\ Len(results') = Len(results)
    <3>1. PICK x \in Unmarshaled(down[hubConn], n, ResponseType(request)) : ReturnCall(x)
      BY <2>1
    <3>2. x \in Responses \/ x = Failed
      BY <2>2, <2>4, <2>6, UnmarshaledTypes
    <3> QED
      BY <2>2, <3>1, <3>2, LastResult DEF Typed
  <2>8. UNCHANGED <<hubConn, length, up, at, hubLength, pending, answers, asked, faults>>
    BY <1>4 DEF readData, hubVars
  <2>10. misled' \subseteq 1 .. Len(asked')
    <3>1. misled' \subseteq misled \cup {Len(asked)} /\ misled \subseteq 1 .. Len(asked)
      BY <1>4 DEF readData, Typed, TypeOK
    <3>2. Len(asked) \in 1 .. Len(asked)
      BY <2>2, RequestType DEF Typed
    <3> QED
      BY <2>8, <3>1, <3>2
  <2>9. TypeOK'
    BY <2>5, <2>7, <2>8, <2>10 DEF Typed, TypeOK, Places
  <2> QED
    BY <2>8, <2>9 DEF Typed, HubAligned
<1>5. CASE connError \/ connClosed
  <2>1. /\ place # "idle" /\ ReturnCall(Failed) /\ hubConn' = Null
        /\ UNCHANGED <<length, down, up, at, hubLength, pending, answers, asked, misled>>
    BY <1>5 DEF connError, connClosed, giveUp, hubVars
  <2>2. faults' \in 0 .. MaxFaults
    BY <1>5, BoundsAssumption DEF connError, connClosed, Fault, Typed, TypeOK
  <2>3. /\ place' = "idle"
        /\ results' \in Seq(Responses \cup {Null, Failed, NilError})
        /\ Len(results') = Len(results)
    BY <2>1, LastResult DEF Typed
  <2>4. TypeOK'
    BY <2>1, <2>2, <2>3 DEF Typed, TypeOK, Places
  <2> QED
    BY <2>1, <2>4 DEF Typed, HubAligned
<1> QED
  BY <1>1, <1>2, <1>3, <1>4, <1>5

LEMMA Serving ==
    ASSUME TypeOK, NEW req \in Requests
    PROVE  /\ Answer(req) \in Responses
           /\ Served(req) \in Seq(Contents)
<1>1. pending \in Seq(Contents)
  BY DEF TypeOK
<1>2. CASE req.type = "SendMessage"
  <2>1. req.content \in Contents /\ req.good \in BOOLEAN /\ req.of \in Nat
    BY <1>2 DEF Requests
  <2>2. Answer(req) \in Responses
    BY <1>2, <2>1 DEF Answer, ResponseSuccess, Responses
  <2>3. Served(req) \in Seq(Contents)
    BY <1>1, <1>2, <2>1, AppendProperties DEF Served
  <2> QED
    BY <2>2, <2>3
<1>3. CASE req.type # "SendMessage"
  <2>1. req.of \in Nat
    BY <1>3 DEF Requests
  <2>2. CASE pending = <<>>
    BY <1>1, <1>3, <2>2 DEF Answer, Served, NoMessage, ResponseMessage, Responses
  <2>3. CASE pending # <<>>
    <3>1. Head(pending) \in Contents /\ Tail(pending) \in Seq(Contents)
      BY <1>1, <2>3, HeadTailProperties
    <3> QED
      BY <1>3, <2>1, <2>3, <3>1 DEF Answer, Served, ResponseMessage, Responses
  <2> QED
    BY <2>2, <2>3
<1> QED
  BY <1>2, <1>3

LEMMA TypedHub ==
    ASSUME Typed, NEW k \in Conns,
           hubReadHeader(k) \/ hubReadData(k) \/ hubBreak(k) \/ hangUp(k)
    PROVE  Typed'
<1>1. CASE hubReadHeader(k)
  <2>1. PICK n \in Returned(up[k], 2, "hub") :
            /\ up' = [up EXCEPT ![k] = Drop(up[k], n)]
            /\ IF n # 2
               THEN /\ at' = [at EXCEPT ![k] = "closed"]
                    /\ UNCHANGED hubLength
               ELSE /\ at' = [at EXCEPT ![k] = "data"]
                    /\ \E l \in HeadersAt(up[k]) :
                          hubLength' = [hubLength EXCEPT ![k] = l]
    BY <1>1 DEF hubReadHeader
  <2>2. up[k] \in Streams(Requests) /\ up[k].taken = 0
    BY <1>1 DEF hubReadHeader, Typed, TypeOK, HubAligned
  <2>3. Drop(up[k], n) \in Streams(Requests)
    BY <2>2, Dropping, RequestSize
  <2>4. up' \in [Conns -> Streams(Requests)]
    BY <2>1, <2>3 DEF Typed, TypeOK
  <2>5. UNCHANGED <<hubConn, place, length, down, pending, asked, answers, results, misled,
                    faults>>
    BY <1>1 DEF hubReadHeader
  <2>6. CASE n # 2
    <3>1. at' = [at EXCEPT ![k] = "closed"] /\ hubLength' = hubLength
      BY <2>1, <2>6
    <3>2. TypeOK'
      BY <2>4, <2>5, <3>1 DEF Typed, TypeOK
    <3>3. HubAligned'
      BY <2>1, <3>1 DEF Typed, TypeOK, HubAligned
    <3> QED
      BY <3>2, <3>3 DEF Typed
  <2>7. CASE n = 2
    <3>1. /\ at' = [at EXCEPT ![k] = "data"]
          /\ hubLength' \in [Conns -> 0 .. Byte - 1]
      <4>1. PICK l \in HeadersAt(up[k]) : hubLength' = [hubLength EXCEPT ![k] = l]
        BY <2>1, <2>7
      <4>2. l \in 0 .. Byte - 1
        BY <2>2, <2>7, HeaderTypes, RequestSize
      <4> QED
        BY <2>1, <2>7, <4>1, <4>2 DEF Typed, TypeOK
    <3>2. TypeOK'
      BY <2>4, <2>5, <3>1 DEF Typed, TypeOK
    <3>3. up[k].frames # <<>> /\ Rest(up[k]) # 2
      <4>1. up[k].frames # <<>>
        BY <2>7 DEF Returned
      <4>2. Head(up[k].frames) \in Requests
        BY <2>2, <4>1, Streaming
      <4> QED
        BY <2>2, <4>1, <4>2, RequestSize DEF Rest
    <3>4. Drop(up[k], n).frames # <<>> /\ Drop(up[k], n).taken = 2
      BY <2>2, <2>7, <3>3 DEF Drop, Streams
    <3>5. HubAligned'
      BY <2>1, <3>1, <3>4 DEF Typed, TypeOK, HubAligned
    <3> QED
      BY <3>2, <3>5 DEF Typed
  <2> QED
    BY <2>6, <2>7
<1>2. CASE hubReadData(k)
  <2> DEFINE req == Head(up[k].frames)
  <2>1. PICK n \in Returned(up[k], hubLength[k], "hub") :
            /\ up' = [up EXCEPT ![k] = Drop(up[k], n)]
            /\ IF n = Size(req)
               THEN /\ pending' = Served(req)
                    /\ answers' = [answers EXCEPT ![req.of] = Answer(req)]
                    /\ down' = [down EXCEPT ![k] = Written(down[k], Answer(req))]
                    /\ at' = [at EXCEPT ![k] = "header"]
               ELSE /\ at' = [at EXCEPT ![k] = "closed"]
                    /\ UNCHANGED <<down, pending, answers>>
    BY <1>2 DEF hubReadData
  <2>2. /\ up[k] \in Streams(Requests) /\ up[k].frames # <<>> /\ up[k].taken = 2
        /\ hubLength[k] \in Nat
    <3>1. hubLength[k] \in 0 .. Byte - 1 /\ at[k] = "data"
      BY <1>2 DEF hubReadData, Typed, TypeOK
    <3>2. hubLength[k] \in Nat
      BY <3>1 DEF Byte
    <3> QED
      BY <3>1, <3>2 DEF Typed, TypeOK, HubAligned
  <2>3. req \in Requests
    BY <2>2, Streaming
  <2>4. Drop(up[k], n) \in Streams(Requests)
    BY <2>2, Dropping, RequestSize
  <2>5. up' \in [Conns -> Streams(Requests)]
    BY <2>1, <2>4 DEF Typed, TypeOK
  <2>6. UNCHANGED <<hubConn, place, length, hubLength, asked, results, misled, faults>>
    BY <1>2 DEF hubReadData
  <2> HIDE DEF req
  <2>7. CASE n # Size(req)
    <3>1. at' = [at EXCEPT ![k] = "closed"] /\ UNCHANGED <<down, pending, answers>>
      BY <2>1, <2>7
    <3>2. TypeOK'
      BY <2>5, <2>6, <3>1 DEF Typed, TypeOK
    <3>3. HubAligned'
      BY <2>1, <3>1 DEF Typed, TypeOK, HubAligned
    <3> QED
      BY <3>2, <3>3 DEF Typed
  <2>8. CASE n = Size(req)
    <3>1. Answer(req) \in Responses /\ Served(req) \in Seq(Contents)
      BY <2>3, Serving DEF Typed
    <3>2. pending' \in Seq(Contents) /\ at' = [at EXCEPT ![k] = "header"]
      BY <2>1, <2>8, <3>1
    <3>3. answers' \in Seq(Responses \cup {Null}) /\ Len(answers') = Len(answers)
      <4> DEFINE S == Responses \cup {Null}
      <4>1. answers \in Seq(S) /\ Answer(req) \in S
        BY <3>1 DEF Typed, TypeOK
      <4>2. answers' = [answers EXCEPT ![req.of] = Answer(req)]
        BY <2>1, <2>8
      <4>3. answers' \in Seq(S) /\ Len(answers') = Len(answers)
        <5> HIDE DEF S
        <5> QED
          BY <4>1, <4>2, SeqUpdate
      <4> QED
        BY <4>3
    <3>4. down' \in [Conns -> Streams(Responses)]
      <4>1. down[k] \in Streams(Responses)
        BY DEF Typed, TypeOK
      <4>2. Written(down[k], Answer(req)) \in Streams(Responses)
        BY <3>1, <4>1, Streaming
      <4> QED
        BY <2>1, <2>8, <4>2 DEF Typed, TypeOK
    <3>5. TypeOK'
      BY <2>5, <2>6, <3>2, <3>3, <3>4 DEF Typed, TypeOK
    <3>6. Drop(up[k], n).taken = 0
      <4>1. Size(req) \in Nat /\ Size(req) # 0
        BY <2>3, RequestSize
      <4>2. n = Rest(up[k]) /\ n # 0
        BY <2>2, <2>8, <4>1 DEF Rest, req
      <4> QED
        BY <4>2 DEF Drop
    <3>7. HubAligned'
      BY <2>1, <3>2, <3>6 DEF Typed, TypeOK, HubAligned
    <3> QED
      BY <3>5, <3>7 DEF Typed
  <2> QED
    BY <2>7, <2>8
<1>3. CASE hubBreak(k)
  <2>1. at' = [at EXCEPT ![k] = "closed"] /\ faults' \in 0 .. MaxFaults
    BY <1>3, BoundsAssumption DEF hubBreak, Fault, Typed, TypeOK
  <2>2. UNCHANGED <<hubConn, place, length, up, hubLength, pending, asked, answers, results,
                    misled>>
    BY <1>3 DEF hubBreak
  <2>3. down' \in [Conns -> Streams(Responses)]
    <3>1. down[k] \in Streams(Responses) /\ Empty \in Streams(Responses)
      BY Streaming DEF Typed, TypeOK
    <3>2. PICK s \in {down[k], Empty} : down' = [down EXCEPT ![k] = s]
      BY <1>3 DEF hubBreak
    <3> QED
      BY <3>1, <3>2 DEF Typed, TypeOK
  <2>4. TypeOK'
    BY <2>1, <2>2, <2>3 DEF Typed, TypeOK
  <2>5. HubAligned'
    BY <2>1, <2>2 DEF Typed, TypeOK, HubAligned
  <2> QED
    BY <2>4, <2>5 DEF Typed
<1>4. CASE hangUp(k)
  <2>1. at' = [at EXCEPT ![k] = "closed"]
    BY <1>4 DEF hangUp
  <2>2. UNCHANGED <<hubConn, place, length, up, down, hubLength, pending, asked,
                    answers, results, misled, faults>>
    BY <1>4 DEF hangUp
  <2>3. TypeOK'
    BY <2>1, <2>2 DEF Typed, TypeOK
  <2>4. HubAligned'
    BY <2>1, <2>2 DEF Typed, TypeOK, HubAligned
  <2> QED
    BY <2>3, <2>4 DEF Typed
<1> QED
  BY <1>1, <1>2, <1>3, <1>4

LEMMA InitTyped == Init => Typed
<1> SUFFICES ASSUME Init PROVE Typed
  OBVIOUS
<1>1. \A M : Empty \in Streams(M)
  BY DEF Empty, Streams
<1>2. 0 \in 0 .. Byte - 1 /\ 0 \in 0 .. MaxFaults
  BY BoundsAssumption DEF Byte
<1>3. HubAligned
  BY DEF Init, HubAligned
<1>4. TypeOK
  BY <1>1, <1>2 DEF Init, TypeOK, Places
<1> QED
  BY <1>3, <1>4 DEF Typed

LEMMA NextTyped == Typed /\ [Next]_vars => Typed'
<1> SUFFICES ASSUME Typed, [Next]_vars PROVE Typed'
  OBVIOUS
<1>1. CASE UNCHANGED vars
  BY <1>1 DEF vars, Typed, TypeOK, HubAligned
<1> QED
  BY <1>1, TypedClient, TypedHub DEF Next

\* Every variable has its type, and nothing is read that is not there, whatever
\* the lengths and whatever Read returns (hub.go, handleClient).
THEOREM TypeCorrect == Spec => []TypeOK
<1>1. Typed => TypeOK
  BY DEF Typed
<1> QED
  BY <1>1, InitTyped, NextTyped, PTL DEF Spec

\* handleClient reads every header at the start of a frame, whatever Read returns:
\* whatever it cannot read whole ends the session (server/client.go:62).
THEOREM StaysAligned == Spec => []HubAligned
<1>1. Typed => HubAligned
  BY DEF Typed
<1> QED
  BY <1>1, InitTyped, NextTyped, PTL DEF Spec

-----------------------------------------------------------------------------
(* What the two ends agree on *)

\* The request of call i waits on connection k, and may be read.
Carries(k, i) == at[k] # "closed" /\ \E h \in 1 .. Len(up[k].frames) : up[k].frames[h] = asked[i]

Numbered == \A i \in 1 .. Len(asked) : asked[i].of = i

\* One call at a time has not returned.
Results ==
    \A i \in 1 .. Len(asked) : results[i] = Null <=> place # "idle" /\ i = Len(asked)

\* What waits on an open connection are requests without an answer, each once.
OpenUp ==
    \A k \in Conns : at[k] # "closed" =>
        /\ \A h \in 1 .. Len(up[k].frames) : \E i \in 1 .. Len(asked) :
              up[k].frames[h] = asked[i] /\ answers[i] = Null
        /\ \A g, h \in 1 .. Len(up[k].frames) : up[k].frames[g] = up[k].frames[h] => g = h
        /\ at[k] = "data" => hubLength[k] = LengthRead(Size(up[k].frames[1]))

Once == \A j, k \in Conns, i \in 1 .. Len(asked) : Carries(j, i) /\ Carries(k, i) => j = k

\* Only the connection in use has the request of the call in progress.
Older ==
    place # "idle" =>
        \A k \in Conns : Carries(k, Len(asked)) => k = hubConn /\ place # "asking"

Answered ==
    \A i \in 1 .. Len(asked) : answers[i] # Null =>
        answers[i] \in E!AnswersTo(asked[i]) /\ Size(answers[i]) < Byte

\* What waits in the mailbox will fit into a response.
PendingFits ==
    \A i \in 1 .. Len(pending) : Size(ResponseMessage(0, pending[i])) < Byte

\* Where the response is of the call that has reached the connection in use, if
\* the client has not lost its place on it.
Under(k, i) ==
    /\ place \in {"idle", "asking"} =>
          down[k] = Empty /\ (at[k] # "closed" => up[k] = Empty)
    /\ (place = "header" /\ answers[i] = Null) =>
          down[k] = Empty /\ (at[k] # "closed" => up[k].frames = <<asked[i]>>)
    /\ (place = "header" /\ answers[i] # Null) =>
          /\ at[k] # "closed" => up[k] = Empty
          /\ \/ down[k] = [frames |-> <<answers[i]>>, taken |-> 0]
             \/ at[k] = "closed" /\ down[k] = Empty
    /\ place = "data" =>
          /\ answers[i] # Null /\ length = Size(answers[i])
          /\ at[k] # "closed" => up[k] = Empty
          /\ \/ length # 0 /\ down[k] = [frames |-> <<answers[i]>>, taken |-> 2]
             \/ length = 0 /\ down[k] = Empty
             \/ at[k] = "closed" /\ down[k] = Empty

InUse ==
    /\ hubConn # Null /\ Len(asked) \notin misled => Under(hubConn, Len(asked))
    /\ place = "asking" => answers[Len(asked)] = Null

Exact ==
    /\ Numbered
    /\ Results
    /\ OpenUp
    /\ Once
    /\ Older
    /\ Answered
    /\ PendingFits
    /\ ResponsesFit
    /\ InUse

\* The three histories are as long as each other.
LEMMA Histories ==
    ASSUME Typed
    PROVE  /\ Len(asked) \in Nat /\ Len(answers) = Len(asked) /\ Len(results) = Len(asked)
           /\ asked \in Seq(Requests)
           /\ answers \in Seq(Responses \cup {Null})
           /\ results \in Seq(Responses \cup {Null, Failed, NilError})
           /\ place # "idle" => Len(asked) \in 1 .. Len(asked) /\ request = asked[Len(asked)]
           /\ \A i \in 1 .. Len(asked) : /\ asked[i] \in Requests
                                         /\ answers[i] \in Responses \cup {Null}
<1>1. /\ asked \in Seq(Requests) /\ Len(answers) = Len(asked) /\ Len(results) = Len(asked)
      /\ answers \in Seq(Responses \cup {Null})
      /\ results \in Seq(Responses \cup {Null, Failed, NilError})
  BY DEF Typed, TypeOK
<1>2. Len(asked) \in Nat
  BY <1>1, LenProperties
<1>3. \A i \in 1 .. Len(asked) : /\ asked[i] \in Requests
                                 /\ answers[i] \in Responses \cup {Null}
  BY <1>1, ElementOfSeq
<1>4. place # "idle" => Len(asked) \in 1 .. Len(asked) /\ request = asked[Len(asked)]
  BY <1>2, RequestType DEF Typed, request
<1> QED
  BY <1>1, <1>2, <1>3, <1>4

\* A sequence with one more element.
LEMMA Appended ==
    ASSUME NEW S, NEW s \in Seq(S), NEW x \in S
    PROVE  /\ Len(Append(s, x)) = Len(s) + 1
           /\ \A i \in 1 .. Len(s) : Append(s, x)[i] = s[i]
           /\ Append(s, x)[Len(s) + 1] = x
  BY AppendProperties

\* A Read of a frame that is there.
LEMMA SomeRead ==
    ASSUME NEW s, NEW b \in Nat, NEW end, NEW n \in Returned(s, b, end)
    PROVE  /\ b = 0 => n = 0
           /\ b # 0 => s.frames # <<>>
           /\ b # 0 /\ Rest(s) \in Nat => n <= b /\ n <= Rest(s)
  BY CountsAssumption DEF Returned

\* What is left to read was there before.
LEMMA DropFits ==
    ASSUME NEW s \in Streams(Responses), NEW n, n # 0 => s.frames # <<>>,
           \A i \in DOMAIN s.frames : Size(s.frames[i]) < Byte
    PROVE  \A i \in DOMAIN Drop(s, n).frames : Size(Drop(s, n).frames[i]) < Byte
<1>1. s.frames \in Seq(Responses)
  BY DEF Streams
<1>2. CASE Drop(s, n).frames = s.frames
  BY <1>2
<1>3. CASE Drop(s, n).frames # s.frames
  <2>1. n # 0 /\ Drop(s, n).frames = Tail(s.frames)
    BY <1>3 DEF Drop, Streams
  <2>2. /\ Len(Tail(s.frames)) = Len(s.frames) - 1
        /\ \A i \in 1 .. Len(Tail(s.frames)) : Tail(s.frames)[i] = s.frames[i + 1]
        /\ Tail(s.frames) \in Seq(Responses)
    BY <1>1, <2>1, HeadTailProperties
  <2>3. /\ DOMAIN s.frames = 1 .. Len(s.frames)
        /\ DOMAIN Tail(s.frames) = 1 .. Len(Tail(s.frames))
        /\ Len(s.frames) \in Nat
    BY <1>1, <2>2, LenProperties
  <2> QED
    BY <2>1, <2>2, <2>3
<1> QED
  BY <1>2, <1>3

\* A stream with a single frame.
LEMMA OneFrame ==
    ASSUME NEW m
    PROVE  /\ Written(Empty, m) = [frames |-> <<m>>, taken |-> 0]
           /\ Head(<<m>>) = m /\ Tail(<<m>>) = <<>> /\ <<m>> # <<>>
  BY DEF Written, Empty

LEMMA CallExact ==
    ASSUME Typed, Exact, NEW req \in RequestsOf(Len(asked) + 1), Call(req)
    PROVE  Exact'
<1>0. PICK N : N = Len(asked)
  OBVIOUS
<1>1. /\ N \in Nat /\ Len(answers) = N /\ Len(results) = N /\ req \in Requests
      /\ req.of = N + 1 /\ asked \in Seq(Requests)
      /\ answers \in Seq(Responses \cup {Null})
      /\ results \in Seq(Responses \cup {Null, Failed, NilError})
  BY <1>0, Histories, NewCalls
<1>2. /\ asked' = Append(asked, req) /\ answers' = Append(answers, Null)
      /\ results' = Append(results, Null)
      /\ place = "idle" /\ place' = "asking"
      /\ UNCHANGED <<hubConn, length, up, down, at, hubLength, pending, faults>>
  BY DEF Call
<1>3. /\ Len(asked') = N + 1 /\ asked'[N + 1] = req
      /\ answers'[N + 1] = Null /\ results'[N + 1] = Null
      /\ \A i \in 1 .. N : /\ asked'[i] = asked[i] /\ answers'[i] = answers[i]
                           /\ results'[i] = results[i]
  BY <1>0, <1>1, <1>2, Appended
<1>4. Numbered /\ Results /\ OpenUp /\ Once /\ Older /\ Answered /\ PendingFits
      /\ ResponsesFit /\ InUse
  BY DEF Exact
<1>5. \A k \in Conns : ~Carries(k, N + 1)' /\ \A i \in 1 .. N : Carries(k, i)' <=> Carries(k, i)
  <2>1. ASSUME NEW k \in Conns, at[k] # "closed", NEW h \in 1 .. Len(up[k].frames)
        PROVE  up[k].frames[h] # req
    <3>1. PICK i \in 1 .. N : up[k].frames[h] = asked[i]
      BY <1>0, <1>4, <2>1 DEF OpenUp
    <3>2. asked[i].of # req.of
      BY <1>0, <1>1, <1>4 DEF Numbered
    <3> QED
      BY <3>1, <3>2
  <2> QED
    BY <1>2, <1>3, <2>1 DEF Carries
<1>6. Numbered'
  BY <1>0, <1>1, <1>3, <1>4 DEF Numbered
<1>7. Results'
  BY <1>0, <1>1, <1>2, <1>3, <1>4 DEF Results
<1>8. OpenUp'
  <2>1. ASSUME NEW k \in Conns, at[k] # "closed", NEW h \in 1 .. Len(up[k].frames)
        PROVE  \E i \in 1 .. N + 1 : up[k].frames[h] = asked'[i] /\ answers'[i] = Null
    <3>1. PICK i \in 1 .. N : up[k].frames[h] = asked[i] /\ answers[i] = Null
      BY <1>0, <1>4, <2>1 DEF OpenUp
    <3>2. up[k].frames[h] = asked'[i] /\ answers'[i] = Null
      BY <1>3, <3>1
    <3>3. i \in 1 .. N + 1
      BY <1>1
    <3> QED
      BY <3>2, <3>3
  <2>2. ASSUME NEW k \in Conns, at[k] # "closed"
        PROVE  /\ \A g, h \in 1 .. Len(up[k].frames) :
                     up[k].frames[g] = up[k].frames[h] => g = h
               /\ at[k] = "data" => hubLength[k] = LengthRead(Size(up[k].frames[1]))
    BY <1>4, <2>2 DEF OpenUp
  <2>3. at' = at /\ up' = up /\ hubLength' = hubLength /\ Len(asked') = N + 1
    BY <1>2, <1>3
  <2>4. \A k \in Conns : at'[k] # "closed" =>
           /\ \A h \in 1 .. Len(up'[k].frames) : \E i \in 1 .. Len(asked') :
                 up'[k].frames[h] = asked'[i] /\ answers'[i] = Null
           /\ \A g, h \in 1 .. Len(up'[k].frames) :
                 up'[k].frames[g] = up'[k].frames[h] => g = h
           /\ at'[k] = "data" => hubLength'[k] = LengthRead(Size(up'[k].frames[1]))
    BY <2>1, <2>2, <2>3
  <2> QED
    BY <2>4 DEF OpenUp
<1>9. Once' /\ Older'
  <2>1. \A i \in 1 .. N + 1 : i \in 1 .. N \/ i = N + 1
    BY <1>1
  <2>2. Older'
    BY <1>2, <1>3, <1>5 DEF Older
  <2>3. Once'
    <3> SUFFICES ASSUME NEW j \in Conns, NEW k \in Conns, NEW i \in 1 .. N + 1,
                        Carries(j, i)', Carries(k, i)'
                 PROVE  j = k
      BY <1>3 DEF Once
    <3> QED
      BY <1>0, <1>4, <1>5, <2>1 DEF Once
  <2> QED
    BY <2>2, <2>3
<1>10. Answered'
  BY <1>0, <1>1, <1>3, <1>4 DEF Answered
<1>11. PendingFits' /\ ResponsesFit'
  BY <1>2, <1>4 DEF PendingFits, ResponsesFit
<1>12. InUse'
  <2>1. (hubConn # Null /\ N + 1 \notin misled') => N \notin misled
    BY <1>0 DEF Call
  <2> QED
    BY <1>0, <1>2, <1>3, <1>4, <2>1 DEF InUse, Under
<1> QED
  BY <1>6, <1>7, <1>8, <1>9, <1>10, <1>11, <1>12 DEF Exact

LEMMA AskExact ==
    ASSUME Typed, Exact, NEW k \in Conns, ask(k)
    PROVE  Exact'
<1>0. PICK N : N = Len(asked)
  OBVIOUS
<1> DEFINE before == IF hubConn = Null THEN Empty ELSE up[k]
<1>1. /\ N \in 1 .. N /\ request = asked[N] /\ asked[N] \in Requests
      /\ place = "asking" /\ place' = "header" /\ hubConn' = k /\ k # Null
      /\ UNCHANGED <<length, hubLength, pending, asked, answers, results, misled, faults>>
  BY <1>0, Histories, NullAssumption DEF ask
<1>2. Numbered /\ Results /\ OpenUp /\ Once /\ Older /\ Answered /\ PendingFits
      /\ ResponsesFit /\ InUse
  BY DEF Exact
<1>3. /\ up'[k] = Written(before, asked[N])
      /\ hubConn = Null => at'[k] = "header" /\ down'[k] = Empty
      /\ hubConn # Null => k = hubConn /\ at'[k] = at[k] /\ down'[k] = down[k]
      /\ \A j \in Conns \ {k} : at'[j] = at[j] /\ up'[j] = up[j] /\ down'[j] = down[j]
  BY <1>1 DEF ask, Typed, TypeOK
<1>4. \A j \in Conns : ~Carries(j, N)
  BY <1>0, <1>1, <1>2 DEF Older
<1>5. \A j \in Conns \ {k}, i \in 1 .. N : Carries(j, i)' <=> Carries(j, i)
  BY <1>1, <1>3 DEF Carries
<1>6. /\ before \in Streams(Requests)
      /\ Len(before.frames) \in Nat
      /\ up'[k].frames = Append(before.frames, asked[N])
      /\ Len(up'[k].frames) = Len(before.frames) + 1
      /\ up'[k].frames[Len(before.frames) + 1] = asked[N]
      /\ \A h \in 1 .. Len(before.frames) : up'[k].frames[h] = before.frames[h]
  <2>1. before \in Streams(Requests)
    BY Streaming DEF Typed, TypeOK
  <2>2. before.frames \in Seq(Requests)
    BY <2>1 DEF Streams
  <2>3. up'[k].frames = Append(before.frames, asked[N])
    BY <1>3, <2>1 DEF Written, Streams
  <2> HIDE DEF before
  <2> QED
    BY <1>1, <2>1, <2>2, <2>3, Appended, LenProperties
\* What was on the connection before, if it may still be read.
<1>7. ASSUME NEW h \in 1 .. Len(before.frames), at'[k] # "closed"
      PROVE  /\ hubConn = k /\ at[k] # "closed" /\ before.frames[h] = up[k].frames[h]
             /\ before.frames[h] # asked[N] /\ h \in 1 .. Len(up[k].frames)
  <2>1. hubConn # Null /\ before = up[k]
    BY DEF Empty
  <2> QED
    BY <1>1, <1>3, <1>4, <1>7, <2>1 DEF Carries
<1> HIDE DEF before
<1>8. Numbered' /\ Answered' /\ PendingFits' /\ Results'
  BY <1>1, <1>2 DEF Numbered, Answered, PendingFits, Results
<1>9. answers[N] = Null
  BY <1>0, <1>1, <1>2 DEF InUse
<1>10. OpenUp'
  <2> SUFFICES ASSUME NEW j \in Conns, at'[j] # "closed"
               PROVE  /\ \A h \in 1 .. Len(up'[j].frames) : \E i \in 1 .. N :
                            up'[j].frames[h] = asked[i] /\ answers[i] = Null
                      /\ \A g, h \in 1 .. Len(up'[j].frames) :
                            up'[j].frames[g] = up'[j].frames[h] => g = h
                      /\ at'[j] = "data" =>
                            hubLength[j] = LengthRead(Size(up'[j].frames[1]))
    BY <1>0, <1>1 DEF OpenUp
  <2>1. CASE j # k
    <3>1. at'[j] = at[j] /\ up'[j] = up[j] /\ at[j] # "closed"
      BY <1>3, <2>1
    <3>2. /\ \A h \in 1 .. Len(up[j].frames) : \E i \in 1 .. N :
                up[j].frames[h] = asked[i] /\ answers[i] = Null
          /\ \A g, h \in 1 .. Len(up[j].frames) : up[j].frames[g] = up[j].frames[h] => g = h
          /\ at[j] = "data" => hubLength[j] = LengthRead(Size(up[j].frames[1]))
      BY <1>0, <1>2, <3>1 DEF OpenUp
    <3> QED
      BY <3>1, <3>2
  <2>2. CASE j = k
    <3>1. \A h \in 1 .. Len(up'[k].frames) : h \in 1 .. Len(before.frames)
                                            \/ h = Len(before.frames) + 1
      BY <1>6
    <3>2. ASSUME NEW h \in 1 .. Len(up'[k].frames)
          PROVE  \E i \in 1 .. N : up'[k].frames[h] = asked[i] /\ answers[i] = Null
      <4>1. CASE h \in 1 .. Len(before.frames)
        <5>1. /\ at[k] # "closed" /\ up'[k].frames[h] = up[k].frames[h]
              /\ h \in 1 .. Len(up[k].frames)
          BY <1>6, <1>7, <2>2, <4>1
        <5> QED
          BY <1>0, <1>2, <5>1 DEF OpenUp
      <4>2. CASE h = Len(before.frames) + 1
        BY <1>1, <1>6, <1>9, <4>2
      <4> QED
        BY <3>1, <4>1, <4>2
    <3>3. ASSUME NEW g \in 1 .. Len(up'[k].frames), NEW h \in 1 .. Len(up'[k].frames),
                 up'[k].frames[g] = up'[k].frames[h]
          PROVE  g = h
      <4>1. CASE g \in 1 .. Len(before.frames) /\ h \in 1 .. Len(before.frames)
        <5>1. /\ at[k] # "closed" /\ up[k].frames[g] = up[k].frames[h]
              /\ g \in 1 .. Len(up[k].frames) /\ h \in 1 .. Len(up[k].frames)
          BY <1>6, <1>7, <2>2, <3>3, <4>1
        <5> QED
          BY <1>2, <5>1 DEF OpenUp
      <4>2. CASE g = Len(before.frames) + 1 \/ h = Len(before.frames) + 1
        BY <1>6, <1>7, <2>2, <3>1, <3>3, <4>2
      <4> QED
        BY <3>1, <4>1, <4>2
    <3>4. ASSUME at'[k] = "data" PROVE hubLength[k] = LengthRead(Size(up'[k].frames[1]))
      <4>1. hubConn = k /\ at[k] = "data" /\ before = up[k]
        BY <1>1, <1>3, <3>4 DEF before
      <4>2. before.frames \in Seq(Requests) /\ before.frames # <<>>
        BY <1>6, <4>1 DEF Typed, HubAligned, Streams
      <4>3. 1 \in 1 .. Len(before.frames)
        BY <4>2
      <4>4. up'[k].frames[1] = up[k].frames[1]
        BY <1>6, <4>1, <4>3
      <4> QED
        BY <1>2, <4>1, <4>4 DEF OpenUp
    <3> QED
      BY <2>2, <3>2, <3>3, <3>4
  <2> QED
    BY <2>1, <2>2
<1>11. Once'
  <2> SUFFICES ASSUME NEW j \in Conns, j # k, NEW i \in 1 .. N, Carries(j, i)', Carries(k, i)'
               PROVE  FALSE
    BY <1>0, <1>1, <1>2, <1>5 DEF Once
  <2>1. Carries(j, i) /\ i # N /\ asked[i] # asked[N]
    BY <1>0, <1>1, <1>2, <1>4, <1>5 DEF Numbered
  <2>2. PICK h \in 1 .. Len(up'[k].frames) : up'[k].frames[h] = asked[i] /\ at'[k] # "closed"
    BY <1>1 DEF Carries
  <2>3. h \in 1 .. Len(before.frames)
    BY <1>6, <2>1, <2>2
  <2>4. Carries(k, i)
    BY <1>6, <1>7, <2>2, <2>3 DEF Carries
  <2> QED
    BY <1>0, <1>2, <2>1, <2>4 DEF Once
<1>12. Older'
  BY <1>0, <1>1, <1>4, <1>5 DEF Older
<1>13. ResponsesFit'
  <2>1. \A j \in Conns : down'[j] = down[j] \/ down'[j].frames = <<>>
    BY <1>1, <1>3 DEF Empty
  <2> QED
    BY <1>2, <2>1 DEF ResponsesFit
<1>14. InUse'
  <2>1. ASSUME N \notin misled PROVE down'[k] = Empty /\ (at'[k] # "closed" => before = Empty)
    BY <1>0, <1>1, <1>2, <1>3, <2>1 DEF InUse, Under, before
  <2>2. N \notin misled => (at'[k] # "closed" => up'[k].frames = <<asked[N]>>)
    BY <1>3, <2>1, OneFrame
  <2> QED
    BY <1>0, <1>1, <1>9, <2>1, <2>2 DEF InUse, Under
<1> QED
  BY <1>8, <1>10, <1>11, <1>12, <1>13, <1>14 DEF Exact

\* A call ends: nothing else changes but what the proxy has read.
LEMMA ReturnExact ==
    ASSUME Typed, Exact, place # "idle",
           NEW x \in Responses \cup {Failed, NilError}, ReturnCall(x),
           \/ hubConn' = Null
           \/ Len(asked) \in misled'
           \/ /\ hubConn' = hubConn /\ down'[hubConn] = Empty
              /\ at[hubConn] # "closed" => up[hubConn] = Empty,
           ResponsesFit',
           UNCHANGED <<up, at, hubLength, pending, answers, asked>>
    PROVE  Exact'
<1>0. PICK N : N = Len(asked)
  OBVIOUS
<1>1. N \in 1 .. N /\ results \in Seq(Responses \cup {Null, Failed, NilError})
      /\ Len(results) = N
  BY <1>0, Histories
<1>2. Numbered /\ Results /\ OpenUp /\ Once /\ Older /\ Answered /\ PendingFits
      /\ ResponsesFit /\ InUse
  BY DEF Exact
<1>3. place' = "idle" /\ results' = [results EXCEPT ![N] = x]
  BY <1>0, <1>1 DEF ReturnCall
<1>4. Results'
  <2>1. x # Null
    BY NullAssumption
  <2>2. \A i \in 1 .. N : results'[i] = IF i = N THEN x ELSE results[i]
    BY <1>1, <1>3, ExceptSeq
  <2> QED
    BY <1>0, <1>2, <1>3, <2>1, <2>2 DEF Results
<1>5. Numbered' /\ OpenUp' /\ Once' /\ Older' /\ Answered' /\ PendingFits'
  BY <1>2, <1>3 DEF Numbered, OpenUp, Once, Older, Answered, PendingFits, Carries
<1>6. InUse'
  BY <1>3 DEF InUse, Under
<1> QED
  BY <1>4, <1>5, <1>6 DEF Exact

\* What the proxy reads leaves no longer response than there was.
LEMMA ReadFits ==
    ASSUME Typed, ResponsesFit, hubConn \in Conns, NEW b \in Nat, NEW end,
           NEW n \in Returned(down[hubConn], b, end),
           down' = [down EXCEPT ![hubConn] = Drop(down[hubConn], n)]
    PROVE  ResponsesFit'
<1>1. down[hubConn] \in Streams(Responses)
  BY DEF Typed, TypeOK
<1>2. n # 0 => down[hubConn].frames # <<>>
  BY <1>1, Dropping, ResponseSize
<1>3. \A i \in DOMAIN Drop(down[hubConn], n).frames :
          Size(Drop(down[hubConn], n).frames[i]) < Byte
  BY <1>1, <1>2, DropFits DEF ResponsesFit
<1> QED
  BY <1>3 DEF ResponsesFit, Typed, TypeOK

\* The header of the response is there once there is a response.
LEMMA ReadHeaderExact ==
    ASSUME Typed, Exact, readHeader
    PROVE  /\ Exact'
           /\ place # "idle" /\ UNCHANGED <<asked, answers, misled>>
           /\ \/ UNCHANGED results
              \/ results' = [results EXCEPT ![Len(asked)] = NilError]
<1>0. PICK N : N = Len(asked)
  OBVIOUS
<1>1. /\ N \in 1 .. N /\ hubConn \in Conns /\ hubConn # Null /\ place = "header"
      /\ answers[N] \in Responses \cup {Null} /\ Len(results) = N
  BY <1>0, Histories, NullAssumption DEF readHeader, Typed, TypeOK
<1>2. Numbered /\ Results /\ OpenUp /\ Once /\ Older /\ Answered /\ PendingFits
      /\ ResponsesFit /\ InUse
  BY DEF Exact
<1>3. PICK n \in Returned(down[hubConn], 2, "client") :
          /\ down' = [down EXCEPT ![hubConn] = Drop(down[hubConn], n)]
          /\ IF n # 2
             THEN /\ hubConn' = Null
                  /\ ReturnCall(NilError)
                  /\ UNCHANGED length
             ELSE /\ length' \in HeadersAt(down[hubConn])
                  /\ place' = "data"
                  /\ UNCHANGED <<hubConn, results>>
  BY DEF readHeader
<1>4. UNCHANGED <<up, at, hubLength, pending, answers, asked, misled, faults>>
  BY DEF readHeader, hubVars
<1>5. ResponsesFit'
  BY <1>1, <1>2, <1>3, ReadFits
<1>6. CASE n # 2
  <2>1. hubConn' = Null /\ ReturnCall(NilError) /\ UNCHANGED length
    BY <1>3, <1>6
  <2>2. NilError \in Responses \cup {Failed, NilError} /\ place # "idle"
    BY <1>1
  <2>3. Exact'
    BY <1>4, <1>5, <2>1, <2>2, ReturnExact
  <2>4. results' = [results EXCEPT ![N] = NilError]
    BY <1>1, <2>1 DEF ReturnCall
  <2> QED
    BY <1>0, <1>4, <2>2, <2>3, <2>4
<1>7. CASE n = 2
  <2>1. place' = "data" /\ UNCHANGED <<hubConn, results>>
    BY <1>3, <1>7
  <2>2. Numbered' /\ Results' /\ OpenUp' /\ Once' /\ Older' /\ Answered' /\ PendingFits'
    <3>1. Numbered' /\ Results'
      BY <1>1, <1>2, <1>4, <2>1 DEF Numbered, Results
    <3>2. OpenUp' /\ Answered' /\ PendingFits'
      BY <1>2, <1>4 DEF OpenUp, Answered, PendingFits
    <3>3. Once' /\ Older'
      BY <1>1, <1>2, <1>4, <2>1 DEF Once, Older, Carries
    <3> QED
      BY <3>1, <3>2, <3>3
  <2>3. ASSUME N \notin misled PROVE Under(hubConn, N)'
    <3>1. Under(hubConn, N)
      BY <1>0, <1>1, <1>2, <2>3 DEF InUse
    <3>2. down[hubConn].frames # <<>>
      BY <1>3 DEF Returned
    <3>3. /\ answers[N] # Null
          /\ down[hubConn] = [frames |-> <<answers[N]>>, taken |-> 0]
          /\ at[hubConn] # "closed" => up[hubConn] = Empty
      BY <1>1, <3>1, <3>2 DEF Under, Empty
    <3>4. Size(answers[N]) \in Nat /\ Size(answers[N]) < Byte
      BY <1>0, <1>1, <1>2, <3>3, ResponseSize DEF Answered
    <3>5. Rest(down[hubConn]) = 2 + Size(answers[N])
      BY <3>3, <3>4, OneFrame DEF Rest
    <3>6. length' = Size(answers[N])
      <4>1. HeadersAt(down[hubConn]) = {LengthRead(Size(answers[N]))}
        BY <3>3, OneFrame DEF HeadersAt
      <4> QED
        BY <1>3, <1>7, <3>4, <4>1, Header
    <3>7. down'[hubConn] = Drop(down[hubConn], 2)
      BY <1>1, <1>3, <1>7 DEF Typed, TypeOK
    <3>8. /\ Size(answers[N]) # 0 => down'[hubConn] = [frames |-> <<answers[N]>>, taken |-> 2]
          /\ Size(answers[N]) = 0 => down'[hubConn] = Empty
      <4>1. CASE Size(answers[N]) = 0
        BY <3>3, <3>5, <3>7, <4>1, OneFrame DEF Drop, Empty
      <4>2. CASE Size(answers[N]) # 0
        BY <3>3, <3>4, <3>5, <3>7, <4>2 DEF Drop
      <4> QED
        BY <4>1, <4>2
    <3> QED
      BY <1>1, <1>4, <2>1, <3>3, <3>6, <3>8 DEF Under
  <2>4. InUse'
    BY <1>0, <1>4, <2>1, <2>3 DEF InUse
  <2> QED
    BY <1>1, <1>4, <1>5, <2>1, <2>2, <2>4 DEF Exact
<1> QED
  BY <1>6, <1>7

\* What Exchanges allows the hub to answer.
LEMMA Allowed ==
    ASSUME NEW req
    PROVE  E!AnswersTo(req) =
              IF req.type = "SendMessage" THEN {ResponseSuccess(req.of, req.good)}
              ELSE {NoMessage} \cup {ResponseMessage(req.of, n) : n \in Contents}
  BY DEF E!AnswersTo, E!ResponseSuccess, E!NoMessage, E!ResponseMessage,
         ResponseSuccess, NoMessage, ResponseMessage

\* Only the response without a message is empty.
LEMMA AnswersNotEmpty ==
    ASSUME NEW req \in Requests, NEW x \in E!AnswersTo(req)
    PROVE  /\ x.type = ResponseType(req)
           /\ Size(x) = 0 => x = NoMessage /\ req.type # "SendMessage"
<1>1. CASE req.type = "SendMessage"
  <2>1. x = ResponseSuccess(req.of, req.good)
    BY <1>1, Allowed
  <2>2. Size(x) # 0
    BY <2>1, FieldSizes DEF Size, ResponseSuccess
  <2> QED
    BY <1>1, <2>1, <2>2 DEF ResponseSuccess, ResponseType
<1>2. CASE req.type # "SendMessage"
  <2>1. CASE x = NoMessage
    BY <1>2, <2>1 DEF NoMessage, ResponseMessage, ResponseType
  <2>2. ASSUME NEW n \in Contents, x = ResponseMessage(req.of, n)
        PROVE  x.type = ResponseType(req) /\ Size(x) # 0
    <3>1. n \in Nat /\ n # 0 /\ Field(n) \in Nat
      BY ContentNat, FieldSizes
    <3>2. Size(x) = 66 + 34 + Field(n)
      BY <2>2, <3>1, FieldSizes DEF Size, ResponseMessage
    <3> QED
      BY <1>2, <2>2, <3>1, <3>2 DEF ResponseMessage, ResponseType
  <2> QED
    BY <1>2, <2>1, <2>2, Allowed
<1> QED
  BY <1>1, <1>2

\* The rest of the response is read, and it is the answer to this call, unless a
\* Read on this connection has returned too little.
LEMMA ReadDataExact ==
    ASSUME Typed, Exact, readData
    PROVE  /\ Exact'
           /\ \E x \in Responses \cup {Failed} :
                 /\ results' = [results EXCEPT ![Len(asked)] = x]
                 /\ \/ misled' = misled \cup {Len(asked)}
                    \/ misled' = misled /\ x = answers[Len(asked)]
<1>0. PICK N : N = Len(asked)
  OBVIOUS
<1>1. /\ N \in 1 .. N /\ hubConn \in Conns /\ hubConn # Null /\ place = "data"
      /\ answers[N] \in Responses \cup {Null} /\ request = asked[N] /\ asked[N] \in Requests
      /\ Len(results) = N /\ length \in Nat /\ down[hubConn] \in Streams(Responses)
  BY <1>0, Histories, NullAssumption, ByteNat DEF readData, Typed, TypeOK
<1>2. Answered /\ InUse /\ ResponsesFit
  BY DEF Exact
<1>3. PICK n \in Returned(down[hubConn], length, "client") :
          /\ \E x \in Unmarshaled(down[hubConn], n, ResponseType(request)) :
                ReturnCall(x)
          /\ down' = [down EXCEPT ![hubConn] = Drop(down[hubConn], n)]
          /\ misled' = IF n < length THEN misled \cup {N} ELSE misled
  BY <1>0 DEF readData
<1>4. PICK x \in Unmarshaled(down[hubConn], n, ResponseType(request)) : ReturnCall(x)
  BY <1>3
<1>5. UNCHANGED <<hubConn, length, up, at, hubLength, pending, answers, asked>>
  BY DEF readData, hubVars
<1>6. ResponsesFit'
  BY <1>1, <1>2, <1>3, ReadFits
<1>7. x \in Responses \cup {Failed}
  <2>1. n # 0 => down[hubConn].frames # <<>>
    BY <1>1, <1>3, Dropping, ResponseSize
  <2>2. ResponseType(request) \in {"ResponseSuccess", "ResponseMessage"}
    BY DEF ResponseType
  <2> QED
    BY <1>1, <2>1, <2>2, UnmarshaledTypes
<1>8. results' = [results EXCEPT ![N] = x]
  BY <1>1, <1>4 DEF ReturnCall
<1>9. CASE N \in misled'
  <2>1. Exact'
    BY <1>0, <1>1, <1>4, <1>5, <1>6, <1>7, <1>9, ReturnExact
  <2>2. misled' = misled \cup {N}
    BY <1>3, <1>9
  <2> QED
    BY <1>0, <1>7, <1>8, <2>1, <2>2
<1>10. CASE N \notin misled'
  <2>1. N \notin misled /\ misled' = misled /\ ~(n < length)
    BY <1>3, <1>10
  <2>2. /\ answers[N] # Null /\ length = Size(answers[N])
        /\ at[hubConn] # "closed" => up[hubConn] = Empty
        /\ \/ length # 0 /\ down[hubConn] = [frames |-> <<answers[N]>>, taken |-> 2]
           \/ length = 0 /\ down[hubConn] = Empty
           \/ at[hubConn] = "closed" /\ down[hubConn] = Empty
    BY <1>0, <1>1, <1>2, <2>1 DEF InUse, Under
  <2>3. /\ answers[N] \in E!AnswersTo(asked[N]) /\ answers[N] \in Responses
        /\ Size(answers[N]) \in Nat
    BY <1>0, <1>1, <1>2, <2>2, ResponseSize DEF Answered
  <2>4. x = answers[N] /\ Drop(down[hubConn], n) = Empty
    <3>1. CASE length = 0
      <4>1. n = 0 /\ down[hubConn] = Empty
        BY <1>3, <2>2, <3>1, SomeRead
      <4>2. answers[N] = NoMessage /\ asked[N].type # "SendMessage"
        BY <1>1, <2>2, <2>3, <3>1, AnswersNotEmpty
      <4>3. WithoutFields(ResponseType(request)) = NoMessage
        BY <1>1, <4>2 DEF ResponseType, WithoutFields
      <4> QED
        BY <1>4, <4>1, <4>2, <4>3 DEF Unmarshaled, Drop
    <3>2. CASE length # 0
      <4>1. down[hubConn].frames # <<>>
        BY <1>1, <1>3, <3>2, SomeRead
      <4>2. down[hubConn] = [frames |-> <<answers[N]>>, taken |-> 2]
        BY <2>2, <3>2, <4>1 DEF Empty
      <4>3. Rest(down[hubConn]) = Size(answers[N])
        BY <2>3, <4>2, OneFrame DEF Rest
      <4>4. n <= length
        BY <1>1, <1>3, <2>3, <3>2, <4>3, SomeRead
      <4>5. n = Size(answers[N]) /\ n # 0
        <5>1. n \in Int
          BY <1>1, <1>3, <2>2, <2>3, <4>3, CountsAssumption DEF Returned
        <5> QED
          BY <1>1, <2>1, <2>2, <3>2, <4>4, <5>1
      <4>6. Drop(down[hubConn], n) = Empty
        BY <4>2, <4>3, <4>5, OneFrame DEF Drop, Empty
      <4>7. answers[N].type = ResponseType(request)
        BY <1>1, <2>3, AnswersNotEmpty
      <4>8. Unmarshaled(down[hubConn], n, ResponseType(request)) = {answers[N]}
        <5>1. Head(down[hubConn].frames) = answers[N] /\ down[hubConn].taken = 2
          BY <4>2, OneFrame
        <5> QED
          BY <4>5, <4>7, <5>1 DEF Unmarshaled
      <4> QED
        BY <1>4, <4>6, <4>8
    <3> QED
      BY <3>1, <3>2
  <2>5. down'[hubConn] = Empty
    BY <1>1, <1>3, <2>4 DEF Typed, TypeOK
  <2>6. place # "idle"
    BY <1>1
  <2>7. Exact'
    BY <1>4, <1>5, <1>6, <1>7, <2>2, <2>5, <2>6, ReturnExact
  <2> QED
    BY <1>0, <1>7, <1>8, <2>1, <2>4, <2>7
<1> QED
  BY <1>9, <1>10

LEMMA GiveUpExact ==
    ASSUME Typed, Exact, connError \/ connClosed
    PROVE  /\ Exact'
           /\ place # "idle"
           /\ results' = [results EXCEPT ![Len(asked)] = Failed]
           /\ UNCHANGED <<asked, answers, misled>>
<1>1. /\ place # "idle" /\ ReturnCall(Failed) /\ hubConn' = Null /\ down' = down
      /\ UNCHANGED <<up, at, hubLength, pending, answers, asked, misled>>
  BY DEF connError, connClosed, giveUp, hubVars
<1>2. Failed \in Responses \cup {Failed, NilError}
  OBVIOUS
<1>3. ResponsesFit'
  BY <1>1 DEF Exact, ResponsesFit
<1>4. Exact'
  BY <1>1, <1>2, <1>3, ReturnExact
<1>5. Len(results) = Len(asked)
  BY Histories
<1> QED
  BY <1>1, <1>4, <1>5 DEF ReturnCall

\* A connection that closes at the hub's end.
LEMMA CloseExact ==
    ASSUME Typed, Exact, NEW k \in Conns,
           at' = [at EXCEPT ![k] = "closed"],
           \A j \in Conns \ {k} : up'[j] = up[j] /\ down'[j] = down[j],
           down'[k] = down[k] \/ down'[k] = Empty,
           UNCHANGED <<hubConn, place, length, hubLength, pending, asked, answers, results,
                       misled>>
    PROVE  Exact'
<1>1. Numbered /\ Results /\ OpenUp /\ Once /\ Older /\ Answered /\ PendingFits
      /\ ResponsesFit /\ InUse
  BY DEF Exact
<1>2. at'[k] = "closed" /\ \A j \in Conns \ {k} : at'[j] = at[j]
  BY DEF Typed, TypeOK
<1>3. \A j \in Conns : \A i : Carries(j, i)' => Carries(j, i) /\ j # k
  BY <1>2 DEF Carries
<1>4. \A j \in Conns \ {k} : \A i : Carries(j, i) => Carries(j, i)'
  BY <1>2 DEF Carries
<1>5. Numbered' /\ Results' /\ Answered' /\ PendingFits'
  BY <1>1 DEF Numbered, Results, Answered, PendingFits
<1>6. OpenUp'
  BY <1>1, <1>2 DEF OpenUp
<1>7. Once' /\ Older'
  BY <1>1, <1>3 DEF Once, Older
<1>8. ResponsesFit'
  BY <1>1 DEF ResponsesFit, Empty
<1>9. InUse'
  <2>1. ASSUME hubConn # Null, Len(asked) \notin misled PROVE Under(hubConn, Len(asked))'
    <3>1. hubConn \in Conns /\ Under(hubConn, Len(asked))
      BY <1>1, <2>1 DEF InUse, Typed, TypeOK
    <3>2. CASE hubConn = k
      BY <1>2, <3>1, <3>2 DEF Under
    <3>3. CASE hubConn # k
      BY <1>2, <3>1, <3>3 DEF Under
    <3> QED
      BY <3>2, <3>3
  <2> QED
    BY <1>1, <2>1 DEF InUse
<1> QED
  BY <1>5, <1>6, <1>7, <1>8, <1>9 DEF Exact

\* The request that the hub reads next from a connection.
LEMMA Waiting ==
    ASSUME Typed, Exact, NEW k \in Conns, at[k] # "closed", up[k].frames # <<>>
    PROVE  \E i \in 1 .. Len(asked) :
              /\ Head(up[k].frames) = asked[i] /\ up[k].frames[1] = asked[i]
              /\ 1 \in 1 .. Len(up[k].frames) /\ up[k].frames \in Seq(Requests)
              /\ answers[i] = Null
              /\ asked[i] \in Requests /\ asked[i].of = i
              /\ at[k] = "data" => hubLength[k] = LengthRead(Size(asked[i]))
              /\ (hubConn = k /\ Len(asked) \notin misled) =>
                    place = "header" /\ i = Len(asked) /\ up[k].frames = <<asked[i]>>
<1>1. /\ up[k].frames \in Seq(Requests) /\ up[k] # Empty /\ 1 \in 1 .. Len(up[k].frames)
      /\ Head(up[k].frames) = up[k].frames[1]
  <2>1. up[k].frames \in Seq(Requests)
    BY DEF Typed, TypeOK, Streams
  <2> QED
    BY <2>1 DEF Empty
<1>2. PICK i \in 1 .. Len(asked) :
          /\ up[k].frames[1] = asked[i]
          /\ answers[i] = Null
          /\ at[k] = "data" => hubLength[k] = LengthRead(Size(asked[i]))
  BY <1>1 DEF Exact, OpenUp
<1>3. asked[i] \in Requests /\ asked[i].of = i
  BY Histories DEF Exact, Numbered
<1>4. ASSUME hubConn = k, Len(asked) \notin misled
      PROVE  place = "header" /\ i = Len(asked) /\ up[k].frames = <<asked[i]>>
  <2>1. Under(k, Len(asked)) /\ place \in Places
    BY <1>4, NullAssumption DEF Exact, InUse, Typed, TypeOK
  <2>2. place = "header" /\ up[k].frames = <<asked[Len(asked)]>>
    BY <1>1, <2>1 DEF Under, Places
  <2>3. Len(asked) \in 1 .. Len(asked)
    BY <2>2, Histories
  <2>4. asked[i] = asked[Len(asked)]
    BY <1>2, <2>2
  <2> QED
    BY <2>2, <2>3, <2>4 DEF Exact, Numbered
<1> QED
  BY <1>1, <1>2, <1>3, <1>4

LEMMA HubReadHeaderExact ==
    ASSUME Typed, Exact, NEW k \in Conns, hubReadHeader(k)
    PROVE  Exact' /\ UNCHANGED <<asked, answers, results, misled>>
<1>1. PICK n \in Returned(up[k], 2, "hub") :
          /\ up' = [up EXCEPT ![k] = Drop(up[k], n)]
          /\ IF n # 2
             THEN /\ at' = [at EXCEPT ![k] = "closed"]
                  /\ UNCHANGED hubLength
             ELSE /\ at' = [at EXCEPT ![k] = "data"]
                  /\ \E l \in HeadersAt(up[k]) :
                        hubLength' = [hubLength EXCEPT ![k] = l]
  BY DEF hubReadHeader
<1>2. up[k].frames # <<>>
  BY <1>1 DEF Returned
<1>3. /\ at[k] = "header" /\ up[k].taken = 0
      /\ UNCHANGED <<hubConn, place, length, down, pending, asked, answers, results, misled,
                     faults>>
  BY DEF hubReadHeader, Typed, HubAligned
<1>4. PICK i \in 1 .. Len(asked) :
          /\ Head(up[k].frames) = asked[i] /\ up[k].frames[1] = asked[i]
          /\ answers[i] = Null
          /\ asked[i] \in Requests
  BY <1>2, <1>3, Waiting
<1>5. Rest(up[k]) = 2 + Size(asked[i]) /\ Size(asked[i]) \in Nat /\ Size(asked[i]) >= 2
  BY <1>3, <1>4, RequestSize DEF Rest
<1>6. CASE n # 2
  <2>1. /\ at' = [at EXCEPT ![k] = "closed"] /\ UNCHANGED hubLength
        /\ \A j \in Conns \ {k} : up'[j] = up[j]
    BY <1>1, <1>6 DEF Typed, TypeOK
  <2>2. Exact'
    BY <1>3, <2>1, CloseExact
  <2> QED
    BY <1>3, <2>2
<1>7. CASE n = 2
  <2>1. Drop(up[k], n) = [up[k] EXCEPT !.taken = 2]
    BY <1>3, <1>5, <1>7 DEF Drop
  <2>2. HeadersAt(up[k]) = {LengthRead(Size(asked[i]))}
    BY <1>3, <1>4 DEF HeadersAt
  <2>3. /\ up'[k].frames = up[k].frames /\ at'[k] = "data"
        /\ hubLength'[k] = LengthRead(Size(asked[i]))
        /\ \A j \in Conns \ {k} : /\ up'[j] = up[j] /\ at'[j] = at[j]
                                  /\ hubLength'[j] = hubLength[j]
    BY <1>1, <1>7, <2>1, <2>2 DEF Typed, TypeOK, Streams
  <2>4. Numbered /\ Results /\ OpenUp /\ Once /\ Older /\ Answered /\ PendingFits
        /\ ResponsesFit /\ InUse
    BY DEF Exact
  <2>5. \A j \in Conns : up'[j].frames = up[j].frames
    BY <2>3
  <2>6. \A j \in Conns : \A h : Carries(j, h)' <=> Carries(j, h)
    BY <1>3, <2>3, <2>5 DEF Carries
  <2>7. Numbered' /\ Results' /\ Once' /\ Older' /\ Answered' /\ PendingFits' /\ ResponsesFit'
    BY <1>3, <2>4, <2>6
       DEF Numbered, Results, Once, Older, Answered, PendingFits, ResponsesFit
  <2>8. OpenUp'
    <3> SUFFICES ASSUME NEW j \in Conns, at'[j] # "closed"
                 PROVE  /\ \A h \in 1 .. Len(up'[j].frames) : \E g \in 1 .. Len(asked) :
                              up'[j].frames[h] = asked[g] /\ answers[g] = Null
                        /\ \A g, h \in 1 .. Len(up'[j].frames) :
                              up'[j].frames[g] = up'[j].frames[h] => g = h
                        /\ at'[j] = "data" =>
                              hubLength'[j] = LengthRead(Size(up'[j].frames[1]))
      <4>1. UNCHANGED <<asked, answers>>
        BY <1>3
      <4> QED
        BY <4>1 DEF OpenUp
    <3>1. at[j] # "closed" /\ up'[j].frames = up[j].frames
      BY <1>3, <2>3
    <3>2. at'[j] = "data" => hubLength'[j] = LengthRead(Size(up[j].frames[1]))
      BY <1>3, <1>4, <2>3, <2>4, <3>1 DEF OpenUp
    <3>3. /\ \A h \in 1 .. Len(up[j].frames) : \E g \in 1 .. Len(asked) :
                up[j].frames[h] = asked[g] /\ answers[g] = Null
          /\ \A g, h \in 1 .. Len(up[j].frames) : up[j].frames[g] = up[j].frames[h] => g = h
      BY <2>4, <3>1 DEF OpenUp
    <3> QED
      BY <3>1, <3>2, <3>3
  <2>9. InUse'
    <3>1. ASSUME hubConn # Null, Len(asked) \notin misled PROVE Under(hubConn, Len(asked))'
      <4>1. hubConn \in Conns /\ Under(hubConn, Len(asked))
        BY <2>4, <3>1 DEF InUse, Typed, TypeOK
      <4>2. CASE hubConn = k
        <5>1. place = "header" /\ Len(asked) \in 1 .. Len(asked)
              /\ answers[Len(asked)] = Null /\ up[k].frames = <<asked[Len(asked)]>>
          BY <1>2, <1>3, <3>1, <4>2, Waiting
        <5> QED
          BY <1>3, <2>3, <4>1, <4>2, <5>1 DEF Under
      <4>3. CASE hubConn # k
        BY <1>3, <2>3, <4>1, <4>3 DEF Under
      <4> QED
        BY <4>2, <4>3
    <3> QED
      BY <1>3, <2>4, <3>1 DEF InUse
  <2> QED
    BY <1>3, <2>7, <2>8, <2>9 DEF Exact
<1> QED
  BY <1>6, <1>7

\* A request that fits is answered, and one that does not ends the session.
LEMMA HubReadDataExact ==
    ASSUME Typed, Exact, NEW k \in Conns, hubReadData(k)
    PROVE  /\ Exact'
           /\ UNCHANGED <<asked, results, misled>>
           /\ \/ UNCHANGED answers
              \/ \E i \in 1 .. Len(asked) :
                    /\ answers[i] = Null
                    /\ \E x \in E!AnswersTo(asked[i]) : answers' = [answers EXCEPT ![i] = x]
<1>1. /\ at[k] = "data"
      /\ UNCHANGED <<hubConn, place, length, hubLength, asked, results, misled, faults>>
  BY DEF hubReadData
<1>2. up[k].frames # <<>> /\ up[k].taken = 2
  BY <1>1 DEF Typed, HubAligned
<1>3. PICK i \in 1 .. Len(asked) :
          /\ Head(up[k].frames) = asked[i] /\ up[k].frames[1] = asked[i]
          /\ 1 \in 1 .. Len(up[k].frames) /\ up[k].frames \in Seq(Requests)
          /\ answers[i] = Null
          /\ asked[i] \in Requests /\ asked[i].of = i
          /\ hubLength[k] = LengthRead(Size(asked[i]))
          /\ (hubConn = k /\ Len(asked) \notin misled) =>
                place = "header" /\ i = Len(asked) /\ up[k].frames = <<asked[i]>>
  BY <1>1, <1>2, Waiting
<1> DEFINE req == asked[i]
           x == Answer(req)
<1>4. PICK n \in Returned(up[k], hubLength[k], "hub") :
          /\ up' = [up EXCEPT ![k] = Drop(up[k], n)]
          /\ IF n = Size(req)
             THEN /\ pending' = Served(req)
                  /\ answers' = [answers EXCEPT ![i] = x]
                  /\ down' = [down EXCEPT ![k] = Written(down[k], x)]
                  /\ at' = [at EXCEPT ![k] = "header"]
             ELSE /\ at' = [at EXCEPT ![k] = "closed"]
                  /\ UNCHANGED <<down, pending, answers>>
  BY <1>3 DEF hubReadData
<1>5. Size(req) \in Nat /\ Size(req) >= 2 /\ Rest(up[k]) = Size(req)
  BY <1>2, <1>3, RequestSize DEF Rest
<1> HIDE DEF req, x
<1>6. CASE n # Size(req)
  <2>1. /\ at' = [at EXCEPT ![k] = "closed"]
        /\ \A j \in Conns \ {k} : up'[j] = up[j] /\ down'[j] = down[j]
        /\ down'[k] = down[k]
        /\ UNCHANGED <<pending, answers>>
    BY <1>4, <1>6 DEF Typed, TypeOK
  <2>2. Exact'
    BY <1>1, <2>1, CloseExact
  <2> QED
    BY <1>1, <2>1, <2>2
<1>7. CASE n = Size(req)
  <2>1. Size(req) < Byte
    <3>1. hubLength[k] >= Size(req)
      <4>1. hubLength[k] \in 0 .. Byte - 1
        BY DEF Typed, TypeOK
      <4>2. hubLength[k] \in Nat
        BY <4>1, ByteNat
      <4> QED
        BY <1>4, <1>5, <1>7, <4>2, CountsAssumption DEF Returned
    <3>2. hubLength[k] = LengthRead(Size(req))
      BY <1>3 DEF req
    <3> QED
      BY <1>5, <1>7, <3>1, <3>2, Header
  <2>2. /\ pending' = Served(req) /\ answers' = [answers EXCEPT ![i] = x]
        /\ down' = [down EXCEPT ![k] = Written(down[k], x)]
        /\ at' = [at EXCEPT ![k] = "header"]
        /\ up' = [up EXCEPT ![k] = [frames |-> Tail(up[k].frames), taken |-> 0]]
    <3>1. Drop(up[k], n) = [frames |-> Tail(up[k].frames), taken |-> 0]
      BY <1>5, <1>7 DEF Drop
    <3> QED
      BY <1>4, <1>7, <3>1
  <2>3. x \in E!AnswersTo(req) /\ x \in Responses /\ Size(x) < Byte
    <3>1. x \in Responses
      BY <1>3, Serving DEF Typed, req, x
    <3>2. CASE req.type = "SendMessage"
      <4>1. x = ResponseSuccess(req.of, req.good)
        BY <3>2 DEF Answer, x
      <4>2. Size(x) < Byte
        BY <4>1, FieldSizes DEF Size, ResponseSuccess, Byte
      <4> QED
        BY <3>1, <3>2, <4>1, <4>2, Allowed
    <3>3. CASE req.type # "SendMessage" /\ pending = <<>>
      <4>1. x = NoMessage
        BY <3>3 DEF Answer, x
      <4>2. Size(x) < Byte
        BY <4>1 DEF Size, NoMessage, ResponseMessage, Byte
      <4> QED
        BY <3>1, <3>3, <4>1, <4>2, Allowed
    <3>4. CASE req.type # "SendMessage" /\ pending # <<>>
      <4>1. x = ResponseMessage(req.of, Head(pending))
        BY <3>4 DEF Answer, x
      <4>2. pending \in Seq(Contents)
        BY DEF Typed, TypeOK
      <4>3. Head(pending) \in Contents /\ Head(pending) = pending[1] /\ 1 \in 1 .. Len(pending)
        BY <3>4, <4>2
      <4>4. Size(ResponseMessage(0, Head(pending))) < Byte
        BY <4>3 DEF Exact, PendingFits
      <4>5. Size(x) = Size(ResponseMessage(0, Head(pending)))
        BY <4>1 DEF Size, ResponseMessage
      <4> QED
        BY <3>1, <3>4, <4>1, <4>3, <4>4, <4>5, Allowed
    <3> QED
      BY <3>2, <3>3, <3>4
  <2>4. PendingFits'
    <3>1. pending \in Seq(Contents) /\ PendingFits
      BY DEF Typed, TypeOK, Exact
    <3>2. CASE req.type = "SendMessage" /\ req.good
      <4>1. pending' = Append(pending, req.content)
        BY <2>2, <3>2 DEF Served
      <4>2. Size(ResponseMessage(0, req.content)) < Byte
        BY <1>3, <2>1, <3>2, LongerUp DEF req
      <4>3. req.content \in Contents
        BY <1>3, <3>2 DEF Requests, req
      <4>4. /\ Len(pending) \in Nat /\ Len(pending') = Len(pending) + 1
            /\ \A h \in 1 .. Len(pending) : pending'[h] = pending[h]
            /\ pending'[Len(pending) + 1] = req.content
        BY <3>1, <4>1, <4>3, Appended, LenProperties
      <4> QED
        BY <3>1, <4>2, <4>4 DEF PendingFits
    <3>3. CASE pending' = pending
      BY <3>1, <3>3 DEF PendingFits
    <3>4. CASE pending # <<>> /\ pending' = Tail(pending)
      <4>1. /\ Len(pending') = Len(pending) - 1
            /\ \A h \in 1 .. Len(pending') : pending'[h] = pending[h + 1]
        BY <3>1, <3>4, HeadTailProperties
      <4>2. Len(pending) \in Nat
        BY <3>1, LenProperties
      <4> QED
        BY <3>1, <4>1, <4>2 DEF PendingFits
    <3> QED
      BY <2>2, <3>2, <3>3, <3>4 DEF Served
  <2>5. /\ answers'[i] = x /\ x # Null
        /\ \A h \in 1 .. Len(asked) : h # i => answers'[h] = answers[h]
    <3>1. Len(answers) = Len(asked) /\ answers \in Seq(Responses \cup {Null})
      BY Histories
    <3> QED
      BY <2>2, <2>3, <3>1, ExceptSeq, NullAssumption
  <2>6. /\ at'[k] = "header" /\ down'[k] = Written(down[k], x)
        /\ up'[k].frames = Tail(up[k].frames) /\ up'[k].taken = 0
        /\ \A j \in Conns \ {k} : at'[j] = at[j] /\ up'[j] = up[j] /\ down'[j] = down[j]
    BY <2>2 DEF Typed, TypeOK
  <2>7. Numbered /\ Results /\ OpenUp /\ Once /\ Older /\ Answered /\ PendingFits
        /\ ResponsesFit /\ InUse
    BY DEF Exact
  <2>8. /\ Len(up[k].frames) \in Nat /\ Len(up'[k].frames) = Len(up[k].frames) - 1
        /\ \A h \in 1 .. Len(up'[k].frames) :
              up'[k].frames[h] = up[k].frames[h + 1] /\ h + 1 \in 1 .. Len(up[k].frames)
    <3>1. up[k].frames \in Seq(Requests) /\ up[k].frames # <<>>
      BY <1>2, <1>3
    <3>2. /\ Len(Tail(up[k].frames)) = Len(up[k].frames) - 1
          /\ \A h \in 1 .. Len(Tail(up[k].frames)) :
                Tail(up[k].frames)[h] = up[k].frames[h + 1]
      BY <3>1, HeadTailProperties
    <3> QED
      BY <2>6, <3>1, <3>2, LenProperties
  <2>9. \A h \in 1 .. Len(up'[k].frames) : up'[k].frames[h] # asked[i]
    BY <1>1, <1>3, <2>7, <2>8 DEF OpenUp
  <2>10. \A j \in Conns : \A h \in 1 .. Len(asked) :
            Carries(j, h)' => Carries(j, h) /\ h # i
    <3> SUFFICES ASSUME NEW j \in Conns, NEW h \in 1 .. Len(asked), Carries(j, h)'
                 PROVE  Carries(j, h) /\ h # i
      OBVIOUS
    <3>1. CASE j = k
      BY <1>1, <2>8, <2>9, <3>1 DEF Carries
    <3>2. CASE j # k
      <4>1. Carries(j, h)
        BY <1>1, <2>6, <3>2 DEF Carries
      <4>2. Carries(k, i)
        BY <1>1, <1>3 DEF Carries
      <4> QED
        BY <2>7, <3>2, <4>1, <4>2 DEF Once
    <3> QED
      BY <3>1, <3>2
  <2>11. Numbered' /\ Results' /\ Once' /\ Older' /\ Answered'
    <3>1. Numbered' /\ Results'
      BY <1>1, <2>7 DEF Numbered, Results
    <3>2. Once'
      BY <1>1, <2>7, <2>10 DEF Once
    <3>3. Older'
      BY <1>1, <2>7, <2>10, Histories DEF Older
    <3>4. Answered'
      BY <1>1, <2>3, <2>5, <2>7 DEF Answered, req
    <3> QED
      BY <3>1, <3>2, <3>3, <3>4
  <2>12. OpenUp'
    <3> SUFFICES ASSUME NEW j \in Conns, at'[j] # "closed"
                 PROVE  /\ \A h \in 1 .. Len(up'[j].frames) : \E g \in 1 .. Len(asked) :
                              up'[j].frames[h] = asked[g] /\ answers'[g] = Null
                        /\ \A g, h \in 1 .. Len(up'[j].frames) :
                              up'[j].frames[g] = up'[j].frames[h] => g = h
                        /\ at'[j] = "data" =>
                              hubLength[j] = LengthRead(Size(up'[j].frames[1]))
      BY <1>1 DEF OpenUp
    <3>1. at[j] # "closed"
      BY <1>1, <2>6
    <3>2. ASSUME NEW h \in 1 .. Len(up'[j].frames)
          PROVE  \E g \in 1 .. Len(asked) :
                    up'[j].frames[h] = asked[g] /\ answers'[g] = Null
      <4>1. PICK f \in 1 .. Len(up[j].frames) : up'[j].frames[h] = up[j].frames[f]
        <5>1. CASE j = k
          BY <2>8, <3>2, <5>1
        <5>2. CASE j # k
          BY <2>6, <3>2, <5>2
        <5> QED
          BY <5>1, <5>2
      <4>2. PICK g \in 1 .. Len(asked) : up[j].frames[f] = asked[g] /\ answers[g] = Null
        BY <2>7, <3>1 DEF OpenUp
      <4>3. Carries(j, g)'
        BY <1>1, <3>2, <4>1, <4>2 DEF Carries
      <4>4. g # i
        BY <2>10, <4>3
      <4> QED
        BY <2>5, <4>1, <4>2, <4>4
    <3>3. ASSUME NEW g \in 1 .. Len(up'[j].frames), NEW h \in 1 .. Len(up'[j].frames),
                 up'[j].frames[g] = up'[j].frames[h]
          PROVE  g = h
      <4>1. CASE j = k
        <5>1. /\ up[k].frames[g + 1] = up[k].frames[h + 1]
              /\ g + 1 \in 1 .. Len(up[k].frames) /\ h + 1 \in 1 .. Len(up[k].frames)
          BY <2>8, <3>3, <4>1
        <5>2. g + 1 = h + 1
          BY <1>1, <2>7, <5>1 DEF OpenUp
        <5>3. g \in Nat /\ h \in Nat
          BY <2>8, <4>1
        <5> QED
          BY <5>2, <5>3
      <4>2. CASE j # k
        BY <2>6, <2>7, <3>1, <3>3, <4>2 DEF OpenUp
      <4> QED
        BY <4>1, <4>2
    <3>4. at'[j] = "data" => hubLength[j] = LengthRead(Size(up'[j].frames[1]))
      BY <2>6, <2>7, <3>1 DEF OpenUp
    <3> QED
      BY <3>2, <3>3, <3>4
  <2>13. ResponsesFit'
    <3> SUFFICES ASSUME NEW h \in DOMAIN Written(down[k], x).frames
                 PROVE  Size(Written(down[k], x).frames[h]) < Byte
      BY <2>6, <2>7 DEF ResponsesFit
    <3>1. down[k].frames \in Seq(Responses)
      BY DEF Typed, TypeOK, Streams
    <3>2. Written(down[k], x).frames = Append(down[k].frames, x)
      BY DEF Written, Typed, TypeOK, Streams
    <3>3. Append(down[k].frames, x) \in Seq(Responses)
      BY <2>3, <3>1, AppendProperties
    <3>4. h \in 1 .. Len(down[k].frames) + 1 /\ Len(down[k].frames) \in Nat
      BY <2>3, <3>1, <3>2, <3>3, Appended, LenProperties
    <3>5. \A g \in 1 .. Len(down[k].frames) : Size(down[k].frames[g]) < Byte
      BY <2>7, <3>1, LenProperties DEF ResponsesFit
    <3> QED
      BY <2>3, <3>1, <3>2, <3>4, <3>5, Appended
  <2>14. InUse'
    <3>1. place = "asking" => answers'[Len(asked)] = Null
      <4> SUFFICES ASSUME place = "asking" PROVE answers'[Len(asked)] = Null
        OBVIOUS
      <4>1. Carries(k, i)
        BY <1>1, <1>3 DEF Carries
      <4>2. i # Len(asked)
        BY <1>3, <2>7, <4>1 DEF Older
      <4> QED
        BY <2>5, <2>7, <4>2, Histories DEF InUse
    <3>2. ASSUME hubConn # Null, Len(asked) \notin misled
          PROVE  Under(hubConn, Len(asked))'
      <4>1. hubConn \in Conns /\ Under(hubConn, Len(asked))
        BY <2>7, <3>2 DEF InUse, Typed, TypeOK
      <4>2. CASE hubConn = k
        <5>1. /\ place = "header" /\ i = Len(asked) /\ down[k] = Empty
              /\ up[k].frames = <<asked[i]>>
          BY <1>3, <3>2, <4>1, <4>2 DEF Under
        <5>2. down'[k] = [frames |-> <<x>>, taken |-> 0]
          BY <2>6, <5>1, OneFrame
        <5>3. up'[k] = Empty
          <6>1. Tail(up[k].frames) = <<>>
            BY <5>1, OneFrame
          <6> QED
            BY <2>2, <6>1 DEF Empty, Typed, TypeOK
        <5> QED
          BY <1>1, <2>5, <2>6, <4>2, <5>1, <5>2, <5>3 DEF Under
      <4>3. CASE hubConn # k
        <5>1. i = Len(asked) => place = "idle"
          <6>1. Carries(k, i)
            BY <1>1, <1>3 DEF Carries
          <6> QED
            BY <2>7, <4>3, <6>1 DEF Older
        <5>2. place # "idle" => answers'[Len(asked)] = answers[Len(asked)]
          BY <2>5, <5>1, Histories
        <5> QED
          BY <1>1, <2>6, <4>1, <4>3, <5>2 DEF Under
      <4> QED
        BY <4>2, <4>3
    <3> QED
      BY <1>1, <3>1, <3>2 DEF InUse
  <2>15. Exact'
    BY <2>4, <2>11, <2>12, <2>13, <2>14 DEF Exact
  <2> QED
    BY <1>1, <1>3, <2>2, <2>3, <2>15 DEF req
<1> QED
  BY <1>6, <1>7

LEMMA HubClosesExact ==
    ASSUME Typed, Exact, NEW k \in Conns, hubBreak(k) \/ hangUp(k)
    PROVE  Exact' /\ UNCHANGED <<asked, answers, results, misled>>
<1>1. /\ at' = [at EXCEPT ![k] = "closed"] /\ up' = up
      /\ UNCHANGED <<hubConn, place, length, hubLength, pending, asked, answers, results,
                     misled>>
  BY DEF hubBreak, hangUp
<1>2. /\ down'[k] = down[k] \/ down'[k] = Empty
      /\ \A j \in Conns \ {k} : down'[j] = down[j]
  BY DEF hubBreak, hangUp, Typed, TypeOK
<1>3. Exact'
  BY <1>1, <1>2, CloseExact
<1> QED
  BY <1>1, <1>3

LEMMA InitExact == Init => Exact
<1> SUFFICES ASSUME Init PROVE Exact
  OBVIOUS
<1>1. Len(asked) = 0 /\ Len(pending) = 0 /\ 1 .. 0 = {}
  BY DEF Init
<1>2. Numbered /\ Results /\ Answered /\ PendingFits /\ Once
  BY <1>1 DEF Numbered, Results, Answered, PendingFits, Once
<1>3. OpenUp /\ Older /\ ResponsesFit /\ InUse
  BY DEF Init, OpenUp, Older, ResponsesFit, InUse, Empty
<1> QED
  BY <1>2, <1>3 DEF Exact

LEMMA NextExact ==
    ASSUME Typed, Exact, [Next]_vars
    PROVE  Exact'
<1>1. CASE UNCHANGED vars
  <2>1. Numbered /\ Results /\ OpenUp /\ Once /\ Older /\ Answered /\ PendingFits
        /\ ResponsesFit /\ InUse
    BY DEF Exact
  <2>2. Numbered' /\ Results' /\ Answered' /\ PendingFits' /\ ResponsesFit'
    BY <1>1, <2>1 DEF vars, Numbered, Results, Answered, PendingFits, ResponsesFit
  <2>3. OpenUp'
    BY <1>1, <2>1 DEF vars, OpenUp
  <2>4. Once' /\ Older'
    BY <1>1, <2>1 DEF vars, Once, Older, Carries
  <2>5. InUse'
    BY <1>1, <2>1 DEF vars, InUse, Under
  <2> QED
    BY <2>2, <2>3, <2>4, <2>5 DEF Exact
<1>2. ASSUME readData PROVE Exact'
  BY <1>2, ReadDataExact
<1>3. ASSUME readHeader PROVE Exact'
  BY <1>3, ReadHeaderExact
<1>4. ASSUME connError \/ connClosed PROVE Exact'
  BY <1>4, GiveUpExact
<1>5. ASSUME NEW k \in Conns, hubBreak(k) \/ hangUp(k) PROVE Exact'
  BY <1>5, HubClosesExact
<1>6. ASSUME NEW k \in Conns, ask(k) \/ hubReadHeader(k) \/ hubReadData(k) PROVE Exact'
  BY <1>6, AskExact, HubReadHeaderExact, HubReadDataExact
<1> QED
  BY <1>1, <1>2, <1>3, <1>4, <1>5, <1>6, CallExact DEF Next

LEMMA AlwaysExact == Spec => [](Typed /\ Exact)
<1>1. Typed /\ Exact /\ [Next]_vars => (Typed /\ Exact)'
  BY NextTyped, NextExact
<1> QED
  BY <1>1, InitTyped, InitExact, PTL DEF Spec

\* Whatever Read returns on either end, a connection that stays in use after a
\* call has nothing on it until a Read of data (hub.go:108,157) has returned too
\* little on it: the lengths of the texts and short Reads of a header leave none.
THEOREM LeavesNothing == Spec => []QuietBetweenCalls
<1>1. Typed /\ Exact => QuietBetweenCalls
  BY DEF Exact, InUse, Under, QuietBetweenCalls
<1> QED
  BY <1>1, AlwaysExact, PTL

\* No response is too long for its header, though the client computes the length
\* in a byte (hub.go:101,150) and whatever Read returns: its content once fitted a
\* request that the hub read by such a length, and the request was longer.
THEOREM ResponsesAreShort == Spec => []ResponsesFit
<1>1. Exact => ResponsesFit
  BY DEF Exact
<1> QED
  BY <1>1, AlwaysExact, PTL

-----------------------------------------------------------------------------
(* The refinement *)

LEMMA SameRequests == \A no : E!RequestsOf(no) = RequestsOf(no)
  BY DEF E!RequestsOf, RequestsOf, E!SendMessage, SendMessage, E!GetNextMessage,
         GetNextMessage

\* A call returns what was answered, or an error, or nothing.
LEMMA ReturnRefines ==
    ASSUME Typed, Exact, place # "idle",
           NEW x \in {answers[Len(asked)], Failed, NilError}, x # Null,
           results' = [results EXCEPT ![Len(asked)] = x],
           UNCHANGED <<asked, answers, misled>>
    PROVE  E!Next
<1>1. Len(asked) \in 1 .. Len(asked) /\ DOMAIN asked = 1 .. Len(asked)
  BY Histories, LenProperties
<1>2. results[Len(asked)] = Null
  BY <1>1 DEF Exact, Results
<1>3. E!Return(Len(asked))
  BY <1>2 DEF E!Return, E!Failed, Failed, E!NilError, NilError
<1> QED
  BY <1>1, <1>3 DEF E!Next

\* A call whose Read of data returned too little returns anything.
LEMMA MisleadRefines ==
    ASSUME Typed, Exact, place # "idle",
           NEW x, x # Null, results' = [results EXCEPT ![Len(asked)] = x],
           misled' = misled \cup {Len(asked)},
           UNCHANGED <<asked, answers>>
    PROVE  E!Next
<1>1. Len(asked) \in 1 .. Len(asked) /\ DOMAIN asked = 1 .. Len(asked)
  BY Histories, LenProperties
<1>2. results[Len(asked)] = Null
  BY <1>1 DEF Exact, Results
<1>3. results'[Len(asked)] = x
  BY <1>1, Histories, LenProperties
<1>4. E!Mislead(Len(asked))
  BY <1>2, <1>3 DEF E!Mislead
<1> QED
  BY <1>1, <1>4 DEF E!Next

LEMMA StepRefines ==
    ASSUME Typed, Exact, [Next]_vars
    PROVE  [E!Next]_(E!vars)
<1>1. CASE UNCHANGED <<asked, answers, results, misled>>
  BY <1>1 DEF E!vars
<1>2. ASSUME NEW req \in RequestsOf(Len(asked) + 1), Call(req) PROVE E!Next
  <2>1. DOMAIN results = 1 .. Len(asked)
    BY Histories, LenProperties
  <2>2. \A i \in DOMAIN results : results[i] # Null
    BY <1>2, <2>1 DEF Call, Exact, Results
  <2>3. E!Ask(req)
    BY <1>2, <2>2 DEF E!Ask, Call
  <2> QED
    BY <2>3, SameRequests DEF E!Next
<1>3. ASSUME NEW k \in Conns, hubReadData(k)
      PROVE  E!Next \/ UNCHANGED <<asked, answers, results, misled>>
  <2>1. UNCHANGED <<asked, results, misled>>
    BY <1>3, HubReadDataExact
  <2>2. ASSUME NEW i \in 1 .. Len(asked), answers[i] = Null,
               NEW x \in E!AnswersTo(asked[i]), answers' = [answers EXCEPT ![i] = x]
        PROVE  E!Next
    <3>1. E!Serve(i)
      BY <2>1, <2>2 DEF E!Serve
    <3>2. DOMAIN asked = 1 .. Len(asked)
      BY Histories, LenProperties
    <3> QED
      BY <3>1, <3>2 DEF E!Next
  <2> QED
    BY <1>3, <2>1, <2>2, HubReadDataExact
<1>4. ASSUME readData PROVE E!Next
  <2>1. UNCHANGED <<asked, answers>> /\ place # "idle"
    BY <1>4 DEF readData, hubVars
  <2>2. PICK x \in Responses \cup {Failed} :
            /\ results' = [results EXCEPT ![Len(asked)] = x]
            /\ \/ misled' = misled \cup {Len(asked)}
               \/ misled' = misled /\ x = answers[Len(asked)]
    BY <1>4, ReadDataExact
  <2>3. x # Null
    BY NullAssumption
  <2>4. CASE misled' = misled \cup {Len(asked)}
    BY <2>1, <2>2, <2>3, <2>4, MisleadRefines
  <2>5. CASE misled' = misled /\ x = answers[Len(asked)]
    BY <2>1, <2>2, <2>3, <2>5, ReturnRefines
  <2> QED
    BY <2>2, <2>4, <2>5
<1>5. ASSUME connError \/ connClosed PROVE E!Next
  <2>1. Failed # Null
    BY NullAssumption
  <2> QED
    BY <1>5, <2>1, GiveUpExact, ReturnRefines
<1>6. ASSUME readHeader PROVE E!Next \/ UNCHANGED <<asked, answers, results, misled>>
  <2>1. NilError # Null
    BY NullAssumption
  <2> QED
    BY <1>6, <2>1, ReadHeaderExact, ReturnRefines
<1>7. ASSUME NEW k \in Conns, ask(k) \/ hubReadHeader(k) \/ hubBreak(k) \/ hangUp(k)
      PROVE  UNCHANGED <<asked, answers, results, misled>>
  BY <1>7 DEF ask, hubReadHeader, hubBreak, hangUp
<1> QED
  BY <1>1, <1>2, <1>3, <1>4, <1>5, <1>6, <1>7 DEF Next, vars, E!vars

\* Whatever Read returns on either end, whatever the lengths of the texts and
\* whatever connections fail when: each call returns the hub's answer to itself,
\* an error or nothing, and is served at most once.  The framing that loses a
\* byte of the length (hub.go:85, server/client.go:62) gives no call the answer
\* to another; only a Read of data that returns too little does (hub.go:108,157),
\* to its own call and to those that follow on its connection.
THEOREM CallsGetTheirAnswers == Spec => GetsOwnAnswer
<1>1. Init => E!Init
  BY DEF Init, E!Init
<1>2. Typed /\ Exact /\ [Next]_vars => [E!Next]_(E!vars)
  BY StepRefines
<1> QED
  BY <1>1, <1>2, AlwaysExact, PTL DEF Spec, GetsOwnAnswer, E!Spec
=============================================================================
