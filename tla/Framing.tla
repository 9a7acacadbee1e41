------------------------------ MODULE Framing ------------------------------
(***************************************************************************)
(* The two ends of a client's connections to the hub: the calls of the     *)
(* proxy (hub.go) and the loop of handleClient (server/client.go), down to *)
(* the frames they write, [length(2), data], and the Reads that take them  *)
(* apart.                                                                  *)
(*                                                                         *)
(* One client stands for all: it finds in its mailbox what it has sent.    *)
(***************************************************************************)
EXTENDS Wire, Sequences

CONSTANTS
    Conns,          \* bound: connections that the hub can hold at a time
    ShortAt,        \* the ends whose Reads may return less than there is
    Counts,         \* bound: the shorter counts that they may return
    StrayLengths,   \* bound: what a header read off a boundary may say
    MaxCalls,       \* bound: calls of the proxy
    MaxFaults       \* bound: connections that fail

ASSUME EndsAssumption == ShortAt \subseteq {"client", "hub"}
ASSUME CountsAssumption == Counts \subseteq Nat /\ StrayLengths \subseteq 0 .. Byte - 1
ASSUME BoundsAssumption == MaxCalls \in Nat /\ MaxFaults \in Nat

VARIABLES
    hubConn,    \* hub.conn
    place,      \* where the call of the proxy is
    length,     \* its variable of that name
    up, down,   \* connection -> the frames on the way to the hub, to the client
    at,         \* connection -> where the hub's goroutine is
    hubLength,  \* connection -> its variable length
    pending,    \* the contents that wait in the mailbox
    asked,      \* history: the requests of the calls so far
    answers,    \* history: what the hub answered to each, Null if nothing
    results,    \* history: what each call returned, Null if nothing yet
    misled,     \* history: the calls on a connection from the first Read of data
                \* on it that returned too little
    faults      \* how many of MaxFaults happened

vars == <<hubConn, place, length, up, down, at, hubLength, pending,
          asked, answers, results, misled, faults>>
hubVars == <<up, at, hubLength, pending, answers>>

\* A stream: the frames that are not read yet, and how many bytes of the first
\* of them are.
Streams(M) == [frames : Seq(M), taken : Nat]
Empty == [frames |-> <<>>, taken |-> 0]

Failed == [type |-> "error", of |-> 0]
\* "return err" where err is nil: sendMessage worked, getNextMessage got nothing.
NilError == [type |-> "nil", of |-> 0]

\* nil is nothing that it may stand for the absence of.
ASSUME NullAssumption ==
    Null \notin Conns /\ Null \notin Requests \cup Responses \cup {Failed, NilError}

Init ==
    /\ hubConn = Null
    /\ place = "idle"
    /\ length = 0
    /\ up = [k \in Conns |-> Empty]
    /\ down = [k \in Conns |-> Empty]
    /\ at = [k \in Conns |-> "closed"]
    /\ hubLength = [k \in Conns |-> 0]
    /\ pending = <<>>
    /\ asked = <<>>
    /\ answers = <<>>
    /\ results = <<>>
    /\ misled = {}
    /\ faults = 0

-----------------------------------------------------------------------------
(* conn.Write, conn.Read *)

Written(s, m) == [s EXCEPT !.frames = Append(@, m)]

\* What is left of the frame that is being read.
Rest(s) == 2 + Size(Head(s.frames)) - s.taken

\* How many bytes Read may return for a buffer of n.  It blocks while there are
\* none, and crosses no frame: each is written, and encrypted, at once.
Returned(s, n, end) ==
    IF n = 0 THEN {0}
    ELSE IF s.frames = <<>> THEN {}
    ELSE LET most == IF n < Rest(s) THEN n ELSE Rest(s)
         IN  {most} \cup (IF end \in ShortAt THEN Counts \cap 1 .. most ELSE {})

\* The stream after n bytes were read.
Drop(s, n) ==
    IF n = 0 THEN s
    ELSE IF n = Rest(s) THEN [frames |-> Tail(s.frames), taken |-> 0]
    ELSE [s EXCEPT !.taken = @ + n]

\* The length that the next two bytes of a stream say.
HeadersAt(s) ==
    IF s.taken = 0 THEN {LengthRead(Size(Head(s.frames)))} ELSE StrayLengths

-----------------------------------------------------------------------------
(* The proxy: sendMessage and getNextMessage, statement by statement *)

request == asked[Len(asked)]

\* The call returns.
ReturnCall(x) ==
    /\ place' = "idle"
    /\ results' = [results EXCEPT ![Len(results)] = x]

Call(req) ==
    /\ place = "idle"
    /\ Len(asked) < MaxCalls
    /\ place' = "asking"
    /\ asked' = Append(asked, req)
    /\ answers' = Append(answers, Null)
    /\ results' = Append(results, Null)
    /\ misled' = IF hubConn # Null /\ Len(asked) \in misled
                 THEN misled \cup {Len(asked) + 1} ELSE misled
    /\ UNCHANGED <<hubConn, length, up, down, at, hubLength, pending, faults>>

\* isHubReady, which dials if there is no connection, and conn.Write.  What is
\* written to a connection that the hub has closed goes nowhere.
ask(k) ==
    /\ place = "asking"
    /\ IF hubConn = Null
       THEN /\ at[k] = "closed"
            /\ at' = [at EXCEPT ![k] = "header"]
            /\ up' = [up EXCEPT ![k] = Written(Empty, request)]
            /\ down' = [down EXCEPT ![k] = Empty]
       ELSE /\ k = hubConn
            /\ up' = [up EXCEPT ![k] = Written(@, request)]
            /\ UNCHANGED <<at, down>>
    /\ hubConn' = k
    /\ place' = "header"
    /\ UNCHANGED <<length, hubLength, pending, asked, answers, results, misled, faults>>

readHeader ==
    /\ place = "header"
    /\ \E n \in Returned(down[hubConn], 2, "client") :
          /\ down' = [down EXCEPT ![hubConn] = Drop(@, n)]
          /\ IF n # 2
             THEN /\ hubConn' = Null
                  /\ ReturnCall(NilError)
                  /\ UNCHANGED length
             ELSE /\ length' \in HeadersAt(down[hubConn])
                  /\ place' = "data"
                  /\ UNCHANGED <<hubConn, results>>
    /\ UNCHANGED <<hubVars, asked, misled, faults>>

\* proto.Unmarshal of the next n bytes as a response of that type: the message
\* if they are all of it, what is left of it if they end with a field.  Bytes of
\* anything else may or may not look like one.
Unmarshaled(s, n, type) ==
    LET m == Head(s.frames) IN
    IF n = 0 THEN {WithoutFields(type)}
    ELSE IF s.taken = 2 /\ m.type = type
    THEN IF n = Size(m) THEN {m}
         ELSE IF Cut(m, n) THEN {ResponseMessage(m.of, 0)}
         ELSE {Failed}
    ELSE {Failed, WithoutFields(type)}
         \cup (IF type = "ResponseSuccess" THEN {ResponseSuccess(0, TRUE)}
               ELSE {ResponseMessage(0, x) : x \in Contents})

\* conn.Read of the data, and what the call makes of it.  The connection stays
\* in use even if there is an error.
readData ==
    /\ place = "data"
    /\ \E n \in Returned(down[hubConn], length, "client") :
          /\ \E x \in Unmarshaled(down[hubConn], n, ResponseType(request)) :
                ReturnCall(x)
          /\ down' = [down EXCEPT ![hubConn] = Drop(@, n)]
          /\ misled' = IF n < length THEN misled \cup {Len(asked)} ELSE misled
    /\ UNCHANGED <<hubConn, length, hubVars, asked, faults>>

\* Mutations: the connection stays in use; the error is not returned.
giveUpNoConn ==
    /\ ReturnCall(Failed)
    /\ UNCHANGED <<hubConn, length, down, hubVars, asked, misled>>
giveUpNoReturn ==
    /\ hubConn' = Null
    /\ results' = [results EXCEPT ![Len(results)] = Failed]
    /\ UNCHANGED <<place, length, down, hubVars, asked, misled>>

\* An error of Dial, Write or Read: hub.conn = nil, and the call returns it.
giveUp ==
    /\ ReturnCall(Failed)
    /\ hubConn' = Null
    /\ UNCHANGED <<length, down, hubVars, asked, misled>>

Fault ==
    /\ faults < MaxFaults
    /\ faults' = faults + 1

connError ==
    /\ place # "idle"
    /\ Fault
    /\ giveUp

\* The hub has closed the connection: an error of Write, or the end of file.
connClosed ==
    /\ place # "idle"
    /\ hubConn # Null
    /\ at[hubConn] = "closed"
    /\ place # "asking" => down[hubConn].frames = <<>>
    /\ place = "data" => length > 0
    /\ giveUp
    /\ UNCHANGED faults

-----------------------------------------------------------------------------
(* The hub: handleClient *)

\* Bytes of the header: the session breaks if they are not two.
hubReadHeader(k) ==
    /\ at[k] = "header"
    /\ \E n \in Returned(up[k], 2, "hub") :
          /\ up' = [up EXCEPT ![k] = Drop(@, n)]
          /\ IF n # 2
             THEN /\ at' = [at EXCEPT ![k] = "closed"]
                  /\ UNCHANGED hubLength
             ELSE /\ at' = [at EXCEPT ![k] = "data"]
                  /\ \E l \in HeadersAt(up[k]) :
                        hubLength' = [hubLength EXCEPT ![k] = l]
    /\ UNCHANGED <<hubConn, place, length, down, pending, asked, answers,
                   results, misled, faults>>

\* handleSendMessage and handleGetNextMessage.
Answer(req) ==
    IF req.type = "SendMessage" THEN ResponseSuccess(req.of, req.good)
    ELSE IF pending = <<>> THEN NoMessage
    ELSE ResponseMessage(req.of, Head(pending))
Served(req) ==
    IF req.type = "SendMessage"
    THEN IF req.good THEN Append(pending, req.content) ELSE pending
    ELSE IF pending = <<>> THEN pending ELSE Tail(pending)

\* Mutation: a request that cannot be parsed is skipped, the session goes on.
hubSkip(k) ==
    /\ at[k] = "data"
    /\ \E n \in Returned(up[k], hubLength[k], "hub") :
          LET req == Head(up[k].frames) IN
          /\ up' = [up EXCEPT ![k] = Drop(@, n)]
          /\ at' = [at EXCEPT ![k] = "header"]
          /\ IF n = Size(req)
             THEN /\ pending' = Served(req)
                  /\ answers' = [answers EXCEPT ![req.of] = Answer(req)]
                  /\ down' = [down EXCEPT ![k] = Written(@, Answer(req))]
             ELSE UNCHANGED <<down, pending, answers>>
    /\ UNCHANGED <<hubConn, place, length, hubLength, asked, results, misled, faults>>

\* Mutation: what is left of a request that is cut is served.
hubServeCut(k) ==
    /\ at[k] = "data"
    /\ \E n \in Returned(up[k], hubLength[k], "hub") :
          LET req == Head(up[k].frames) IN
          /\ up' = [up EXCEPT ![k] = Empty]
          /\ pending' = Served(req)
          /\ answers' = [answers EXCEPT ![req.of] = Answer(req)]
          /\ down' = [down EXCEPT ![k] = Written(@, Answer(req))]
          /\ at' = [at EXCEPT ![k] = "header"]
    /\ UNCHANGED <<hubConn, place, length, hubLength, asked, results, misled, faults>>

\* conn.Read of the data, proto.Unmarshal, the handler and conn.Write.  A request
\* that is cut does not parse, or has no type, or has no message: each of the
\* three breaks the session.
hubReadData(k) ==
    /\ at[k] = "data"
    /\ \E n \in Returned(up[k], hubLength[k], "hub") :
          LET req == Head(up[k].frames) IN
          /\ up' = [up EXCEPT ![k] = Drop(@, n)]
          /\ IF n = Size(req)
             THEN /\ pending' = Served(req)
                  /\ answers' = [answers EXCEPT ![req.of] = Answer(req)]
                  /\ down' = [down EXCEPT ![k] = Written(@, Answer(req))]
                  /\ at' = [at EXCEPT ![k] = "header"]
             ELSE /\ at' = [at EXCEPT ![k] = "closed"]
                  /\ UNCHANGED <<down, pending, answers>>
    /\ UNCHANGED <<hubConn, place, length, hubLength, asked, results, misled, faults>>

\* The connection fails at the hub's end; what was on its way may be lost.
hubBreak(k) ==
    /\ at[k] # "closed"
    /\ Fault
    /\ at' = [at EXCEPT ![k] = "closed"]
    /\ \E s \in {down[k], Empty} : down' = [down EXCEPT ![k] = s]
    /\ UNCHANGED <<hubConn, place, length, up, hubLength, pending, asked,
                   answers, results, misled>>

\* A connection that the client gave up fails at last: hub.conn = nil closes
\* nothing.  What was on its way may or may not have been read.
hangUp(k) ==
    /\ at[k] # "closed"
    /\ k # hubConn
    /\ at' = [at EXCEPT ![k] = "closed"]
    /\ UNCHANGED <<hubConn, place, length, up, down, hubLength, pending, asked,
                   answers, results, misled, faults>>

-----------------------------------------------------------------------------
Next ==
    \/ \E req \in RequestsOf(Len(asked) + 1) : Call(req)
    \/ readHeader
    \/ readData
    \/ connError
    \/ connClosed
    \/ \E k \in Conns :
          \/ ask(k)
          \/ hubReadHeader(k)
          \/ hubReadData(k)
          \/ hubBreak(k)
          \/ hangUp(k)

Spec == Init /\ [][Next]_vars

\* A goroutine that can go on does, on both ends, and sees when the other end
\* has closed.  No call ever has to be made, and nothing has to fail.
Fairness ==
    /\ WF_vars(\E k \in Conns : ask(k))
    /\ WF_vars(readHeader)
    /\ WF_vars(readData)
    /\ WF_vars(connClosed)
    /\ \A k \in Conns :
          /\ WF_vars(hubReadHeader(k))
          /\ WF_vars(hubReadData(k))
          /\ WF_vars(hangUp(k))

FairSpec == Spec /\ Fairness

-----------------------------------------------------------------------------
(* Properties *)

Places == {"idle", "asking", "header", "data"}

\* Every variable has its type, and there is a call to return from, and a
\* connection to read from, where one is needed.
TypeOK ==
    /\ hubConn \in Conns \cup {Null}
    /\ place \in Places
    /\ length \in 0 .. Byte - 1
    /\ up \in [Conns -> Streams(Requests)]
    /\ down \in [Conns -> Streams(Responses)]
    /\ at \in [Conns -> {"closed", "header", "data"}]
    /\ hubLength \in [Conns -> 0 .. Byte - 1]
    /\ pending \in Seq(Contents)
    /\ asked \in Seq(Requests)
    /\ answers \in Seq(Responses \cup {Null})
    /\ results \in Seq(Responses \cup {Null, Failed, NilError})
    /\ misled \subseteq 1 .. Len(asked)
    /\ faults \in 0 .. MaxFaults
    /\ place \in {"header", "data"} => hubConn # Null
    /\ place # "idle" => asked # <<>>
    /\ Len(answers) = Len(asked) /\ Len(results) = Len(asked)

\* Between two calls a connection that stays in use has no byte on it in either
\* direction, so that no call reads what another one left, unless a Read of the
\* data of a response has once returned too little on it.
QuietBetweenCalls ==
    (place \in {"idle", "asking"} /\ hubConn # Null /\ Len(asked) \notin misled)
        => down[hubConn] = Empty /\ (at[hubConn] # "closed" => up[hubConn] = Empty)

\* Whatever Read returns, the hub never reads off a frame's boundary: what it
\* cannot read whole ends the session.
HubAligned ==
    \A k \in Conns :
        /\ at[k] = "header" => up[k].taken = 0
        /\ at[k] = "data"   => up[k].frames # <<>> /\ up[k].taken = 2

\* No response needs the byte of the header that is lost: a message that is too
\* long to come down was too long to go up.
ResponsesFit ==
    \A k \in Conns : \A i \in DOMAIN down[k].frames :
        Size(down[k].frames[i]) < Byte

\* A call of sendMessage that returned no error was served, and not refused.
SuccessIsServed ==
    \A i \in DOMAIN asked :
        (/\ asked[i].type = "SendMessage"
         /\ results[i] # Null
         /\ \/ results[i] = NilError
            \/ results[i].type = "ResponseSuccess" /\ results[i].ok)
        => answers[i] = ResponseSuccess(i, TRUE)

\* A text that the web server and the hub allow is sent, if nothing fails.
AllowedIsSent ==
    faults = 0 => \A i \in DOMAIN asked : results[i] # Failed

E == INSTANCE Exchanges

\* Each call returns the hub's answer to itself, or an error or nothing, and each
\* is served at most once.  A Read of data that returned too little spoils what
\* its own call returns and those that follow on the connection, and no other.
GetsOwnAnswer == E!Spec

\* Every call returns, whatever the lengths: the client and the hub never both
\* wait for bytes of the other, unless the client has lost its place.
CallsReturn == place # "idle" ~> place = "idle" \/ Len(asked) \in misled
=============================================================================
