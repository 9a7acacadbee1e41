-------------------------- MODULE SasayakiDelivery --------------------------
(***************************************************************************)
(* Proof that whatever fails, nothing is shown to a user twice, out of     *)
(* order, in another conversation, or without having been sent: Sasayaki   *)
(* implements Conversations with loss (DeliversInOrder), for any number of *)
(* clients, goroutines, connections and draws, with clients killed between *)
(* two statements, lost connections, hub restarts and deleted contacts.    *)
(*                                                                         *)
(* The argument needs no keys, only their turns.  What a client sent was   *)
(* typed in the order in which it went out, and in one conversation it was *)
(* made in the order of turns; the turn in the client's database is past   *)
(* all of them (SendersOK).  What a database shows of a conversation was   *)
(* sent to it there before the turn with which it receives next            *)
(* (ReceiversOK).  A ciphertext that decrypts has just that turn, so it    *)
(* was sent, and typed, behind all that is shown.  The statements that are *)
(* left of a call show at most one text each, and each of them only one    *)
(* that keeps this so (CallsOK); a text that has yet to go out follows all *)
(* that did (AsksFollow); what the wires and the hub hold was sent         *)
(* (WiresOK).                                                              *)
(***************************************************************************)
EXTENDS SasayakiProofs, WellFoundedInduction

-----------------------------------------------------------------------------
(* The texts that are selected from a sequence *)

\* Every set of numbers that is not empty has a least one.
LEMMA Least ==
    ASSUME NEW S \in SUBSET Nat, S # {}
    PROVE  \E n \in S : \A m \in S : n <= m
<1> DEFINE R == OpToRel(<, Nat)
<1>1. IsWellFoundedOn(R, Nat)
  BY NatLessThanWellFounded
<1>2. \A x, y \in Nat : x < y => <<x, y>> \in R
  BY DEF OpToRel
<1> HIDE DEF R
<1>3. \E x \in S : \A y \in S : ~(<<y, x>> \in R)
  BY <1>1, WFMin
<1>4. PICK n \in S : \A y \in S : ~(<<y, n>> \in R)
  BY <1>3
<1>5. ASSUME NEW m \in S PROVE n <= m
  <2>1. ~(m < n)
    BY <1>2, <1>4
  <2> QED
    BY <2>1
<1> QED
  BY <1>5

\* g[i] has the texts of the elements of s, up to the i-th, that I selects.
Collects(g, n, s, I) ==
    g = [i \in 0 .. n |->
            IF i = 0 THEN <<>>
            ELSE IF i \in I THEN Append(g[i - 1], s[i].text) ELSE g[i - 1]]

\* There is such a function for every n.
LEMMA CollectsExists ==
    ASSUME NEW s, NEW I
    PROVE  \A n \in Nat : \E g : Collects(g, n, s, I)
<1> DEFINE S == {n \in Nat : ~\E g : Collects(g, n, s, I)}
<1> SUFFICES ASSUME S # {} PROVE FALSE
  OBVIOUS
<1>1. PICK n \in S : \A m \in S : n <= m
  BY Least
<1>2. CASE n = 0
  <2>1. Collects([i \in 0 .. 0 |-> <<>>], 0, s, I)
    BY DEF Collects
  <2> QED
    BY <1>2, <2>1
<1>3. CASE n # 0
  <2>1. n - 1 \in Nat /\ n - 1 \notin S
    BY <1>1, <1>3
  <2>2. PICK g : Collects(g, n - 1, s, I)
    BY <2>1
  <2> DEFINE h == [i \in 0 .. n |-> IF i < n THEN g[i]
                     ELSE IF n \in I THEN Append(g[n - 1], s[n].text) ELSE g[n - 1]]
  <2>3. \A i \in 0 .. n : h[i] = IF i = 0 THEN <<>>
            ELSE IF i \in I THEN Append(h[i - 1], s[i].text) ELSE h[i - 1]
    <3> TAKE i \in 0 .. n
    <3>1. CASE i = n
      BY <1>3, <2>1, <3>1
    <3>2. CASE i < n
      <4>1. i \in 0 .. n - 1 /\ (i # 0 => i - 1 \in 0 .. n /\ i - 1 < n)
        BY <3>2
      <4>2. g[i] = IF i = 0 THEN <<>>
            ELSE IF i \in I THEN Append(g[i - 1], s[i].text) ELSE g[i - 1]
        BY <2>2, <4>1 DEF Collects
      <4> QED
        BY <3>2, <4>1, <4>2
    <3> QED
      BY <3>1, <3>2
  <2>4. Collects(h, n, s, I)
    BY <2>3 DEF Collects
  <2> QED
    BY <2>4
<1> QED
  BY <1>2, <1>3

\* It depends on nothing but the elements that it collects from.
LEMMA CollectsSame ==
    ASSUME NEW s, NEW I, NEW t, NEW J, NEW m \in Nat, NEW n \in Nat, n <= m,
           NEW g, Collects(g, n, s, I), NEW h, Collects(h, m, t, J),
           \A i \in 1 .. n : s[i] = t[i] /\ (i \in I <=> i \in J)
    PROVE  \A i \in 0 .. n : g[i] = h[i]
<1> DEFINE S == {i \in 0 .. n : g[i] # h[i]}
<1> SUFFICES ASSUME S # {} PROVE FALSE
  OBVIOUS
<1>0. S \in SUBSET Nat
  OBVIOUS
<1>1. PICK k \in S : \A j \in S : k <= j
  BY <1>0, Least
<1>2. k \in 0 .. n /\ k \in 0 .. m /\ g[k] # h[k]
  OBVIOUS
<1>3. /\ g[k] = IF k = 0 THEN <<>>
            ELSE IF k \in I THEN Append(g[k - 1], s[k].text) ELSE g[k - 1]
      /\ h[k] = IF k = 0 THEN <<>>
            ELSE IF k \in J THEN Append(h[k - 1], t[k].text) ELSE h[k - 1]
  BY <1>2 DEF Collects
<1>4. k # 0
  BY <1>2, <1>3
<1>5. k - 1 \in 0 .. n /\ k - 1 \notin S
  BY <1>1, <1>2, <1>4
<1> QED
  BY <1>2, <1>3, <1>4, <1>5

\* TextsAt is its last value.
LEMMA TextsAtForm ==
    ASSUME NEW s, NEW I, Len(s) \in Nat
    PROVE  \E g : Collects(g, Len(s), s, I) /\ TextsAt(s, I) = g[Len(s)]
<1> DEFINE g == CHOOSE f : Collects(f, Len(s), s, I)
<1>1. Collects(g, Len(s), s, I)
  BY CollectsExists
<1>2. TextsAt(s, I) = g[Len(s)]
  BY DEF TextsAt, Collects
<1> QED
  BY <1>1, <1>2

\* Elements that were not selected do not matter; one that is, at the end, is
\* appended.
LEMMA TextsAtAppend ==
    ASSUME NEW E, NEW s \in Seq(E), NEW e \in E, NEW I, NEW J,
           \A i \in DOMAIN s : i \in I <=> i \in J
    PROVE  TextsAt(Append(s, e), J) =
              IF Len(s) + 1 \in J THEN Append(TextsAt(s, I), e.text) ELSE TextsAt(s, I)
<1> DEFINE t == Append(s, e)
           n == Len(s)
<1>1. /\ n \in Nat /\ Len(t) = n + 1 /\ t[n + 1] = e
      /\ \A i \in 1 .. n : s[i] = t[i] /\ (i \in I <=> i \in J)
  OBVIOUS
<1> HIDE DEF t
<1>2. PICK g : Collects(g, n, s, I) /\ TextsAt(s, I) = g[n]
  BY <1>1, TextsAtForm
<1> HIDE DEF n
<1>3. PICK h : Collects(h, n + 1, t, J) /\ TextsAt(t, J) = h[n + 1]
  BY <1>1, TextsAtForm
<1>31. n \in Nat /\ n + 1 \in Nat /\ n <= n + 1 /\ n + 1 # 0 /\ (n + 1) - 1 = n
  BY <1>1
<1>4. g[n] = h[n]
  <2> DEFINE m == n + 1
  <2>1. /\ Collects(g, n, s, I) /\ Collects(h, m, t, J)
        /\ m \in Nat /\ n <= m
        /\ \A i \in 1 .. n : s[i] = t[i] /\ (i \in I <=> i \in J)
    BY <1>31, <1>1, <1>2, <1>3
  <2> HIDE DEF m
  <2>2. \A i \in 0 .. n : g[i] = h[i]
    BY <1>31, <2>1, CollectsSame
  <2>3. n \in 0 .. n
    BY <1>31
  <2> QED
    BY <2>2, <2>3
<1>5. h[n + 1] = IF n + 1 \in J THEN Append(h[n], e.text) ELSE h[n]
  <2>1. n + 1 \in 0 .. n + 1
    BY <1>31
  <2>2. h[n + 1] = IF n + 1 = 0 THEN <<>>
            ELSE IF n + 1 \in J THEN Append(h[(n + 1) - 1], t[n + 1].text) ELSE h[(n + 1) - 1]
    BY <1>3, <2>1 DEF Collects
  <2> QED
    BY <1>31, <1>1, <2>2
<1> QED
  BY <1>1, <1>2, <1>3, <1>4, <1>5 DEF n, t

\* The selection is a matter of the elements there are.
LEMMA TextsAtSame ==
    ASSUME NEW E, NEW s \in Seq(E), NEW I, NEW J,
           \A i \in DOMAIN s : i \in I <=> i \in J
    PROVE  TextsAt(s, I) = TextsAt(s, J)
<1> DEFINE n == Len(s)
<1>1. n \in Nat /\ \A i \in 1 .. n : s[i] = s[i] /\ (i \in I <=> i \in J)
  OBVIOUS
<1>2. PICK g : Collects(g, n, s, I) /\ TextsAt(s, I) = g[n]
  BY <1>1, TextsAtForm
<1>3. PICK h : Collects(h, n, s, J) /\ TextsAt(s, J) = h[n]
  BY <1>1, TextsAtForm
<1> HIDE DEF n
<1>4. \A i \in 0 .. n : g[i] = h[i]
  BY <1>1, <1>2, <1>3, CollectsSame
<1> QED
  BY <1>1, <1>2, <1>3, <1>4

\* What is selected is the text of an element that I selects; the text of every
\* such element is selected; and if they grow, so does the selection.
LEMMA TextsAtElements ==
    ASSUME NEW E, NEW s \in Seq(E), NEW I, \A e \in E : e.text \in Texts
    PROVE  /\ TextsAt(s, I) \in Seq(Texts)
           /\ \A k \in DOMAIN TextsAt(s, I) :
                 \E i \in DOMAIN s : i \in I /\ TextsAt(s, I)[k] = s[i].text
           /\ \A i \in DOMAIN s : i \in I =>
                 \E k \in DOMAIN TextsAt(s, I) : TextsAt(s, I)[k] = s[i].text
           /\ (\A i, j \in DOMAIN s :
                  i \in I /\ j \in I /\ i < j => s[i].text.no < s[j].text.no)
              => \A k, l \in DOMAIN TextsAt(s, I) :
                    k < l => TextsAt(s, I)[k].no < TextsAt(s, I)[l].no
<1> DEFINE n == Len(s)
           Grows == \A i, j \in DOMAIN s :
                       i \in I /\ j \in I /\ i < j => s[i].text.no < s[j].text.no
           From(f, m) == \A k \in DOMAIN f :
                            \E i \in 1 .. m : i \in I /\ f[k] = s[i].text
           All(f, m) == \A i \in 1 .. m : i \in I =>
                           \E k \in DOMAIN f : f[k] = s[i].text
           Up(f) == Grows => \A k, l \in DOMAIN f : k < l => f[k].no < f[l].no
           Right(f, m) == f \in Seq(Texts) /\ From(f, m) /\ All(f, m) /\ Up(f)
<1>1. /\ n \in Nat /\ DOMAIN s = 1 .. n
      /\ \A i \in 1 .. n : s[i].text \in Texts
  OBVIOUS
<1>2. PICK g : Collects(g, n, s, I) /\ TextsAt(s, I) = g[n]
  BY <1>1, TextsAtForm
<1>3. Right(<<>>, 0)
  OBVIOUS
<1>4. ASSUME NEW m \in 0 .. n, m # 0, NEW f, Right(f, m - 1)
      PROVE  Right(IF m \in I THEN Append(f, s[m].text) ELSE f, m)
  <2>1. m \in 1 .. n /\ \A i \in 1 .. m : i \in 1 .. m - 1 \/ i = m
    BY <1>1, <1>4
  <2>2. CASE m \notin I
    BY <1>4, <2>1, <2>2
  <2>3. CASE m \in I
    <3> DEFINE t == s[m].text
               h == Append(f, t)
    <3>1. t \in Texts /\ f \in Seq(Texts)
      BY <1>1, <1>4, <2>1
    <3> HIDE DEF t
    <3>2. /\ h \in Seq(Texts)
          /\ DOMAIN h = DOMAIN f \cup {Len(f) + 1}
          /\ h[Len(f) + 1] = t
          /\ \A k \in DOMAIN f : h[k] = f[k] /\ k \in Nat /\ k < Len(f) + 1
          /\ Len(f) + 1 \in Nat
      BY <3>1
    <3> HIDE DEF h
    <3>3. From(h, m)
      <4> SUFFICES ASSUME NEW k \in DOMAIN h
                   PROVE  \E i \in 1 .. m : i \in I /\ h[k] = s[i].text
        OBVIOUS
      <4>1. CASE k = Len(f) + 1
        <5>1. h[k] = s[m].text /\ m \in 1 .. m
          BY <2>1, <3>2, <4>1 DEF t
        <5> QED
          BY <2>3, <5>1
      <4>2. CASE k \in DOMAIN f
        <5>1. PICK i \in 1 .. m - 1 : i \in I /\ f[k] = s[i].text
          BY <1>4, <4>2
        <5>2. i \in 1 .. m /\ h[k] = f[k]
          BY <2>1, <3>2, <4>2
        <5> QED
          BY <5>1, <5>2
      <4> QED
        BY <3>2, <4>1, <4>2
    <3>4. All(h, m)
      <4> SUFFICES ASSUME NEW i \in 1 .. m, i \in I
                   PROVE  \E k \in DOMAIN h : h[k] = s[i].text
        OBVIOUS
      <4>1. CASE i = m
        BY <3>2, <4>1 DEF t
      <4>2. CASE i \in 1 .. m - 1
        BY <1>4, <3>2, <4>2
      <4> QED
        BY <2>1, <4>1, <4>2
    <3>5. Up(h)
      <4> SUFFICES ASSUME Grows, NEW k \in DOMAIN h, NEW l \in DOMAIN h, k < l
                   PROVE  h[k].no < h[l].no
        OBVIOUS
      <4>1. k \in DOMAIN f
        BY <3>2
      <4>2. CASE l \in DOMAIN f
        BY <1>4, <3>2, <4>1, <4>2
      <4>3. CASE l = Len(f) + 1
        <5>1. PICK i \in 1 .. m - 1 : i \in I /\ f[k] = s[i].text
          BY <1>4, <4>1
        <5>2. s[i].text.no < s[m].text.no
          BY <1>1, <2>1, <2>3, <5>1
        <5> QED
          BY <3>2, <4>1, <4>3, <5>1, <5>2 DEF t
      <4> QED
        BY <3>2, <4>2, <4>3
    <3>6. Right(h, m)
      BY <3>2, <3>3, <3>4, <3>5
    <3> QED
      BY <2>3, <3>6 DEF h, t
  <2> QED
    BY <2>2, <2>3
<1> HIDE DEF Right
<1>5. \A m \in 0 .. n : Right(g[m], m)
  <2> DEFINE B == {m \in 0 .. n : ~Right(g[m], m)}
  <2> SUFFICES ASSUME B # {} PROVE FALSE
    OBVIOUS
  <2>1. B \in SUBSET Nat
    OBVIOUS
  <2>2. PICK m \in B : \A l \in B : m <= l
    BY <2>1, Least
  <2>3. m \in 0 .. n /\ ~Right(g[m], m)
    OBVIOUS
  <2>4. g[m] = IF m = 0 THEN <<>>
               ELSE IF m \in I THEN Append(g[m - 1], s[m].text) ELSE g[m - 1]
    BY <1>2, <2>3 DEF Collects
  <2>5. m # 0
    BY <1>3, <2>3, <2>4
  <2>6. m - 1 \in 0 .. n /\ m - 1 \notin B
    BY <2>2, <2>3, <2>5
  <2>7. Right(g[m - 1], m - 1)
    BY <2>6
  <2> QED
    BY <1>4, <2>3, <2>4, <2>5, <2>7
<1>6. Right(TextsAt(s, I), n)
  BY <1>1, <1>2, <1>5
<1> QED
  BY <1>1, <1>6 DEF Right

-----------------------------------------------------------------------------
(* What was sent, and what it may be followed by *)

\* ct went out.
SentBy(S, ct) == \E i \in DOMAIN S[ct.from] : S[ct.from][i] = ct

\* cu was typed, and made, after ct.
Follows(ct, cu) ==
    /\ ct.text.no < cu.text.no
    /\ ct.convo = cu.convo => ct.key.turn < cu.key.turn

\* c made ct with a state that its database d is past.
Backed(c, n, d, ct) ==
    /\ ct.from = c /\ ct.to # c
    /\ ct.text.by = c /\ ct.text.no <= n
    /\ d.convos[ct.convo] # Null
    /\ ct.key.turn < d.convos[ct.convo].c1.turn

\* The ciphertexts that c sent after n draws, when its database is d.
SenderOK(c, n, d, cts) ==
    /\ \A i \in DOMAIN cts : Backed(c, n, d, cts[i])
    /\ \A i, j \in DOMAIN cts : i < j => Follows(cts[i], cts[j])

-----------------------------------------------------------------------------
(* What a database shows *)

\* The messages that q wrote, if the conversation is with q.
TheirsIn(d, x) ==
    {i \in DOMAIN d.messages : d.messages[i].convo = x /\ ~d.messages[i].mine}

TitleIn(row, q) ==
    IF row.title # Null /\ row.title.by = q THEN <<row.title>> ELSE <<>>

\* What d shows of the conversation x with q (shownOn).
ShownIn(d, q, x) ==
    IF d.convos[x] = Null \/ d.convos[x].peer # q THEN <<>>
    ELSE TitleIn(d.convos[x], q) \o TextsAt(d.messages, TheirsIn(d, x))

\* q sent t to p in the conversation x, with a state of a turn before n.
Reached(S, p, q, x, n, t) ==
    \E i \in DOMAIN S[q] :
        /\ S[q][i].convo = x /\ S[q][i].to = p
        /\ S[q][i].text = t
        /\ S[q][i].key.turn < n

\* Messages are stored in conversations that exist.
Homed(d) ==
    \A i \in DOMAIN d.messages :
        d.messages[i].mine \/ d.convos[d.messages[i].convo] # Null

\* The database d of p shows nothing but what reached it.
Received(p, d, S) ==
    /\ Homed(d)
    /\ \A x \in Draws : d.convos[x] # Null =>
          LET q == d.convos[x].peer IN
          \A k \in DOMAIN ShownIn(d, q, x) :
              Reached(S, p, q, x, d.convos[x].c2.turn, ShownIn(d, q, x)[k])

\* e shows what d does.
SameShown(d, e) ==
    \A q \in Clients, x \in Draws : ShownIn(e, q, x) = ShownIn(d, q, x)

\* e shows t besides, a text that reached p and was typed after all others.
Shows(p, d, e, q, x, t, S) ==
    /\ ShownIn(e, q, x) = Append(ShownIn(d, q, x), t)
    /\ \A k \in DOMAIN ShownIn(d, q, x) : ShownIn(d, q, x)[k].no < t.no
    /\ \A r \in Clients, y \in Draws :
          r # q \/ y # x => ShownIn(e, r, y) = ShownIn(d, r, y)
    /\ e.convos[x] # Null /\ e.convos[x].peer = q
    /\ Reached(S, p, q, x, e.convos[x].c2.turn, t)

\* What one statement may do to what p is shown.
StepOK(p, d, e, S) ==
    /\ Homed(e)
    /\ \/ SameShown(d, e)
       \/ \E q \in Clients, x \in Draws, t \in Texts : Shows(p, d, e, q, x, t, S)

\* Every statement that is left does no more.
StepsOK(p, d, ws, S) ==
    /\ StepOK(p, d, After1(d, ws), S)
    /\ StepOK(p, After1(d, ws), After2(d, ws), S)
    /\ StepOK(p, After2(d, ws), After3(d, ws), S)
    /\ StepOK(p, After3(d, ws), After4(d, ws), S)

-----------------------------------------------------------------------------
(* The invariant *)

\* The request carries a text.
Texting(req) ==
    req # Null /\ req.type = "SendMessage" /\ req.content.kind = "aead"

\* What is left of a call of c.
CallOK(c, n, d, call, S) ==
    /\ StepsOK(c, d, call.writes, S)
    /\ \A i \in DOMAIN call.after : call.after[i].mine
    /\ Texting(call.ask) => Backed(c, n, After4(d, call.writes), call.ask.content)

SendersOK == \A c \in Clients : SenderOK(c, draws[c], db[c], sent[c])
ReceiversOK == \A c \in Clients : Received(c, db[c], sent)
CallsOK ==
    \A c \in Clients, w \in Workers :
        op[c][w] # Idle => CallOK(c, draws[c], db[c], op[c][w], sent)

\* A text that may still go out follows all that did.
AsksFollow ==
    \A c \in Clients, w \in Workers :
        Texting(op[c][w].ask) /\ CanAsk(c) =>
            \A i \in DOMAIN sent[c] : Follows(sent[c][i], op[c][w].ask.content)

\* The hub and the wires carry what was sent.
MailOK(S, content) == content.kind = "aead" => SentBy(S, content)
ReqOK(S, req) == Texting(req) => SentBy(S, req.content)
ResOK(S, res) ==
    res # Null /\ res.type = "message" /\ res.msg # Null => MailOK(S, res.msg.content)
WiresOK ==
    /\ \A k \in Conns : ReqOK(sent, conn[k].req) /\ ResOK(sent, conn[k].res)
    /\ \A c \in Clients : \A i \in DOMAIN pending[c] : MailOK(sent, pending[c][i].content)

Delivery == SendersOK /\ ReceiversOK /\ CallsOK /\ AsksFollow /\ WiresOK

-----------------------------------------------------------------------------
(* What statements do to what is shown *)

\* What is shown are texts.
LEMMA ShownType ==
    ASSUME NEW d \in Databases, NEW q, NEW x \in Draws
    PROVE  ShownIn(d, q, x) \in Seq(Texts)
<1> DEFINE row == d.convos[x]
           rest == TextsAt(d.messages, TheirsIn(d, x))
<1>1. rest \in Seq(Texts)
  <2>1. d.messages \in Seq(MessageRows) /\ \A e \in MessageRows : e.text \in Texts
    BY DEF Databases, MessageRows
  <2> QED
    BY <2>1, TextsAtElements
<1> HIDE DEF rest
<1>2. CASE row = Null \/ row.peer # q
  BY <1>2 DEF ShownIn
<1>3. CASE ~(row = Null \/ row.peer # q)
  <2>1. row.title \in Texts \cup {Null}
    BY <1>3 DEF Databases, ConvoRows
  <2>2. TitleIn(row, q) \in Seq(Texts)
    BY <2>1 DEF TitleIn
  <2> HIDE DEF row
  <2>3. ShownIn(d, q, x) = TitleIn(row, q) \o rest
    BY <1>3 DEF ShownIn, row, rest
  <2> QED
    BY <1>1, <2>2, <2>3
<1> QED
  BY <1>2, <1>3

\* It depends on the messages, and on the peer and the title of the row.
LEMMA ShownRow ==
    ASSUME NEW d, NEW e, NEW q, NEW x, e.messages = d.messages,
           e.convos[x] = Null <=> d.convos[x] = Null,
           d.convos[x] # Null => /\ e.convos[x].peer = d.convos[x].peer
                                 /\ e.convos[x].title = d.convos[x].title
    PROVE  ShownIn(e, q, x) = ShownIn(d, q, x)
BY DEF ShownIn, TitleIn, TheirsIn

\* A new conversation shows at most its title.
LEMMA ShownNew ==
    ASSUME NEW d \in Databases, Homed(d), NEW e \in Databases, NEW q, NEW x \in Draws,
           e.messages = d.messages, d.convos[x] = Null, e.convos[x] # Null,
           TitleIn(e.convos[x], q) = <<>>
    PROVE  ShownIn(e, q, x) = <<>> /\ ShownIn(d, q, x) = <<>>
<1> DEFINE none == TextsAt(e.messages, TheirsIn(e, x))
<1>1. TheirsIn(e, x) = {}
  BY DEF TheirsIn, Homed
<1>2. e.messages \in Seq(MessageRows) /\ \A mr \in MessageRows : mr.text \in Texts
  BY DEF Databases, MessageRows
<1>3. none \in Seq(Texts) /\ \A k \in DOMAIN none : FALSE
  BY <1>1, <1>2, TextsAtElements
<1> HIDE DEF none
<1>4. none = <<>>
  <2>1. Len(none) \in Nat /\ DOMAIN none = 1 .. Len(none)
    BY <1>3
  <2>2. 1 \notin 1 .. Len(none)
    BY <1>3, <2>1
  <2>3. Len(none) = 0
    BY <2>1, <2>2
  <2> QED
    BY <1>3, <2>3
<1>5. ShownIn(e, q, x) \in {<<>>, TitleIn(e.convos[x], q) \o none}
  BY DEF ShownIn, none
<1> QED
  BY <1>4, <1>5 DEF ShownIn

\* The message mr of d is shown as one that q wrote in the conversation x.
IsShown(d, mr, q, x) ==
    /\ ~mr.mine /\ mr.convo = x
    /\ d.convos[x] # Null /\ d.convos[x].peer = q

\* What is not a message of the user is shown behind the others.
LEMMA ShownStored ==
    ASSUME NEW d \in Databases, NEW e, NEW mr \in MessageRows,
           e.convos = d.convos, e.messages = Append(d.messages, mr),
           NEW q, NEW x \in Draws
    PROVE  /\ IsShown(d, mr, q, x) => ShownIn(e, q, x) = Append(ShownIn(d, q, x), mr.text)
           /\ ~IsShown(d, mr, q, x) => ShownIn(e, q, x) = ShownIn(d, q, x)
<1> DEFINE row == d.convos[x]
           rest == TextsAt(d.messages, TheirsIn(d, x))
           new == TextsAt(e.messages, TheirsIn(e, x))
           n == Len(d.messages)
<1>0. d.messages \in Seq(MessageRows)
  BY DEF Databases
<1>1. \A i \in DOMAIN d.messages : i \in TheirsIn(d, x) <=> i \in TheirsIn(e, x)
  BY <1>0 DEF TheirsIn
<1>2. n + 1 \in TheirsIn(e, x) <=> (~mr.mine /\ mr.convo = x)
  BY <1>0 DEF TheirsIn
<1>3. new = IF n + 1 \in TheirsIn(e, x) THEN Append(rest, mr.text) ELSE rest
  <2> DEFINE I == TheirsIn(d, x)
             J == TheirsIn(e, x)
             s == d.messages
  <2>1. s \in Seq(MessageRows) /\ \A i \in DOMAIN s : i \in I <=> i \in J
    BY <1>0, <1>1
  <2> HIDE DEF I, J, s
  <2>2. TextsAt(Append(s, mr), J) =
           IF Len(s) + 1 \in J THEN Append(TextsAt(s, I), mr.text) ELSE TextsAt(s, I)
    BY <2>1, TextsAtAppend
  <2> QED
    BY <2>2 DEF I, J, s
<1>4. rest \in Seq(Texts) /\ mr.text \in Texts
  <2>1. \A el \in MessageRows : el.text \in Texts
    BY DEF MessageRows
  <2> QED
    BY <1>0, <2>1, TextsAtElements
<1> HIDE DEF rest, new, n
<1>5. CASE row = Null \/ row.peer # q
  BY <1>5 DEF ShownIn, IsShown
<1>6. CASE ~(row = Null \/ row.peer # q)
  <2>1. row.title \in Texts \cup {Null}
    BY <1>6 DEF Databases, ConvoRows
  <2>2. TitleIn(row, q) \in Seq(Texts)
    BY <2>1 DEF TitleIn
  <2>5. IsShown(d, mr, q, x) <=> n + 1 \in TheirsIn(e, x)
    BY <1>2, <1>6 DEF IsShown
  <2> HIDE DEF row
  <2>3. /\ ShownIn(d, q, x) = TitleIn(row, q) \o rest
        /\ ShownIn(e, q, x) = TitleIn(row, q) \o new
    BY <1>6 DEF ShownIn, row, rest, new
  <2> DEFINE title == TitleIn(row, q)
  <2>4. title \o Append(rest, mr.text) = Append(title \o rest, mr.text)
    <3>1. title \in Seq(Texts)
      BY <2>2
    <3> HIDE DEF title
    <3> QED
      BY <1>4, <3>1
  <2> QED
    BY <1>3, <2>3, <2>4, <2>5
<1> QED
  BY <1>5, <1>6

\* Only one statement stores messages, and it changes nothing else.
LEMMA ExecutedMessages ==
    ASSUME NEW d \in Databases, NEW st \in Statements, NEW e, e = Executed(d, st)
    PROVE  /\ st.do # "storeMessage" => e.messages = d.messages
           /\ st.do = "storeMessage" =>
                 /\ e.convos = d.convos
                 /\ [convo |-> st.id, mine |-> st.mine, text |-> st.text] \in MessageRows
                 /\ e.messages = Append(d.messages, [convo |-> st.id, mine |-> st.mine,
                                                     text |-> st.text])
<1>0. d = [contacts |-> d.contacts, convos |-> d.convos, messages |-> d.messages]
  BY DEF Databases
<1>1. CASE st.do = "storeMessage"
  BY <1>0, <1>1 DEF Executed, Statements, Matches, MessageRows
<1>2. CASE st.do # "storeMessage"
  <2>1. CASE ~Matches(d, st)
    BY <1>2, <2>1 DEF Executed
  <2>2. CASE st.do \in {"addContact", "addContactFromReq", "finalizeContact"}
    BY <1>0, <2>2 DEF Executed
  <2>3. CASE st.do \in {"deleteContact", "updateThreadRatchetStates"}
    BY <1>0, <2>3 DEF Executed, RemoveContact
  <2>4. CASE st.do \in {"createConvo", "updateSessionKeys", "updateTitle"}
    BY <1>0, <2>4 DEF Executed
  <2> QED
    BY <1>2, <2>1, <2>2, <2>3, <2>4 DEF Statements
<1> QED
  BY <1>1, <1>2

\* No row of a conversation is lost, or given to another peer, or set back.
Kept(d, e) ==
    \A x \in Draws : d.convos[x] # Null =>
        /\ e.convos[x] # Null
        /\ e.convos[x].peer = d.convos[x].peer
        /\ d.convos[x].c1.turn <= e.convos[x].c1.turn
        /\ d.convos[x].c2.turn <= e.convos[x].c2.turn

\* Statements that advance keep the rows.
LEMMA StatementKeeps ==
    ASSUME NEW d \in Databases, NEW st \in Statements, Advances(d, st), ~Violates(d, st),
           NEW e, e = Executed(d, st)
    PROVE  Kept(d, e)
<1>1. Advanced(d, e)
  BY StatementAdvances
<1> SUFFICES ASSUME NEW x \in Draws, d.convos[x] # Null
             PROVE  e.convos[x].peer = d.convos[x].peer
  BY <1>1 DEF Kept, Advanced
<1>2. d.convos[x] \in ConvoRows
  BY DEF Databases
<1>3. ~(st.do = "createConvo" /\ st.id = x)
  BY DEF Advances
<1>4. PICK p, t, s1, s2 : d.convos[x] = [peer |-> p, title |-> t, c1 |-> s1, c2 |-> s2]
  BY <1>2 DEF ConvoRows
<1>5. SetOne(d.convos[x], st).peer = d.convos[x].peer
  BY <1>4 DEF SetOne
<1>6. [d.convos[x] EXCEPT !.title = st.title].peer = d.convos[x].peer
  BY <1>4
<1> QED
  BY <1>3, <1>5, <1>6, ExecutedConvo

\* What was sent stays backed while turns go up and values are drawn.
LEMMA BackedKept ==
    ASSUME NEW c, NEW n \in Nat, NEW m \in Nat, n <= m,
           NEW d \in Databases, NEW e \in Databases, Kept(d, e),
           NEW ct \in Ciphertexts, Backed(c, n, d, ct)
    PROVE  Backed(c, m, e, ct)
<1> DEFINE x == ct.convo
           no == ct.text.no
           turn == ct.key.turn
           before == d.convos[x].c1.turn
           after == e.convos[x].c1.turn
<1>1. x \in Draws /\ ct.key \in SessionKeys /\ ct.text \in Texts
  BY DEF Ciphertexts
<1>2. turn \in Nat /\ no \in Nat
  BY <1>1, MaxDrawsAssumption DEF SessionKeys, Texts
<1>3. d.convos[x] # Null /\ e.convos[x] # Null /\ before <= after
  BY <1>1 DEF Backed, Kept
<1>4. before \in Nat /\ after \in Nat
  BY <1>1, <1>3, TurnsType
<1>5. turn < before /\ no <= n
  BY DEF Backed
<1> HIDE DEF before, after, no, turn
<1>6. turn < after /\ no <= m
  BY <1>2, <1>3, <1>4, <1>5
<1> QED
  BY <1>3, <1>6 DEF Backed, x, no, turn, after

LEMMA SenderKept ==
    ASSUME NEW c, NEW n \in Nat, NEW m \in Nat, n <= m,
           NEW d \in Databases, NEW e \in Databases, Kept(d, e),
           NEW cts \in Seq(Ciphertexts), SenderOK(c, n, d, cts)
    PROVE  SenderOK(c, m, e, cts)
<1>1. \A i \in DOMAIN cts : Backed(c, m, e, cts[i])
  BY BackedKept DEF SenderOK
<1> QED
  BY <1>1 DEF SenderOK

\* What a step shows has reached the client, and what was shown before had.
LEMMA ReceivedStep ==
    ASSUME NEW S \in [Clients -> Seq(Ciphertexts)], NEW p,
           NEW d \in Databases, NEW e \in Databases,
           Kept(d, e), Received(p, d, S), StepOK(p, d, e, S)
    PROVE  Received(p, e, S)
<1> SUFFICES ASSUME NEW x \in Draws, e.convos[x] # Null, NEW q, q = e.convos[x].peer,
                    NEW k \in DOMAIN ShownIn(e, q, x)
             PROVE  Reached(S, p, q, x, e.convos[x].c2.turn, ShownIn(e, q, x)[k])
  BY DEF Received, StepOK
<1>0. q \in Clients
  BY DEF Databases, ConvoRows
<1> DEFINE s == ShownIn(d, q, x)
           t == ShownIn(e, q, x)
<1>1. s \in Seq(Texts) /\ t \in Seq(Texts)
  BY ShownType
<1>2. ASSUME NEW l \in DOMAIN s, t[k] = s[l]
      PROVE  Reached(S, p, q, x, e.convos[x].c2.turn, t[k])
  <2>1. d.convos[x] # Null /\ d.convos[x].peer = q
    <3>1. ~(d.convos[x] = Null \/ d.convos[x].peer # q)
      BY <1>2 DEF ShownIn
    <3> QED
      BY <3>1
  <2>2. Reached(S, p, q, x, d.convos[x].c2.turn, s[l])
    BY <2>1 DEF Received
  <2>3. PICK i \in DOMAIN S[q] :
           /\ S[q][i].convo = x /\ S[q][i].to = p /\ S[q][i].text = s[l]
           /\ S[q][i].key.turn < d.convos[x].c2.turn
    BY <2>2 DEF Reached
  <2>4. d.convos[x].c2.turn <= e.convos[x].c2.turn
    BY <2>1 DEF Kept
  <2>5. d.convos[x].c2.turn \in Nat /\ e.convos[x].c2.turn \in Nat
    BY <2>1, TurnsType
  <2>6. S[q][i].key.turn \in Nat
    <3>1. S[q] \in Seq(Ciphertexts) /\ i \in DOMAIN S[q]
      BY <1>0
    <3>2. S[q][i] \in Ciphertexts
      BY <3>1
    <3>3. S[q][i].key \in SessionKeys
      BY <3>2 DEF Ciphertexts
    <3> QED
      BY <3>3 DEF SessionKeys
  <2>7. S[q][i].key.turn < e.convos[x].c2.turn
    BY <2>3, <2>4, <2>5, <2>6
  <2> QED
    BY <1>2, <2>3, <2>7 DEF Reached
<1>3. CASE SameShown(d, e)
  <2>1. t = s
    BY <1>0, <1>3 DEF SameShown
  <2> QED
    BY <1>2, <2>1
<1>4. ASSUME NEW r \in Clients, NEW y \in Draws, NEW u \in Texts, Shows(p, d, e, r, y, u, S)
      PROVE  Reached(S, p, q, x, e.convos[x].c2.turn, t[k])
  <2>1. CASE r # q \/ y # x
    <3>1. t = s
      BY <1>0, <1>4, <2>1 DEF Shows
    <3> QED
      BY <1>2, <3>1
  <2>2. CASE r = q /\ y = x
    <3>1. t = Append(s, u) /\ Reached(S, p, q, x, e.convos[x].c2.turn, u)
      BY <1>4, <2>2 DEF Shows
    <3> HIDE DEF s, t
    <3>2. k \in 1 .. Len(s) + 1
      BY <1>1, <3>1 DEF t
    <3>3. CASE k = Len(s) + 1
      BY <1>1, <3>1, <3>3
    <3>4. CASE k \in DOMAIN s
      BY <1>1, <1>2, <3>1, <3>4
    <3> QED
      BY <1>1, <3>2, <3>3, <3>4
  <2> QED
    BY <2>1, <2>2
<1> QED
  BY <1>3, <1>4 DEF StepOK

\* More was sent.
Extends(S, T) ==
    \A q \in Clients : \A i \in DOMAIN S[q] : i \in DOMAIN T[q] /\ T[q][i] = S[q][i]

LEMMA MoreSent ==
    ASSUME NEW S, NEW T, Extends(S, T)
    PROVE  /\ \A p, q, x, n, t : q \in Clients /\ Reached(S, p, q, x, n, t) =>
                                     Reached(T, p, q, x, n, t)
           /\ \A p : \A d \in Databases : Received(p, d, S) => Received(p, d, T)
           /\ \A p, d, e : StepOK(p, d, e, S) => StepOK(p, d, e, T)
           /\ \A p, d, ws : StepsOK(p, d, ws, S) => StepsOK(p, d, ws, T)
           /\ \A c, n, d, call : CallOK(c, n, d, call, S) => CallOK(c, n, d, call, T)
           /\ \A ct \in Contents : MailOK(S, ct) => MailOK(T, ct)
           /\ \A req \in Reqs \cup {Null} : ReqOK(S, req) => ReqOK(T, req)
           /\ \A res \in Resps \cup {Null} : ResOK(S, res) => ResOK(T, res)
<1>1. \A p, q, x, n, t : q \in Clients /\ Reached(S, p, q, x, n, t) =>
          Reached(T, p, q, x, n, t)
  BY DEF Reached, Extends
<1>2. \A p : \A d \in Databases : Received(p, d, S) => Received(p, d, T)
  <2> SUFFICES ASSUME NEW p, NEW d \in Databases, Received(p, d, S)
               PROVE  Received(p, d, T)
    OBVIOUS
  <2>1. \A x \in Draws : d.convos[x] # Null => d.convos[x].peer \in Clients
    BY DEF Databases, ConvoRows
  <2> QED
    BY <1>1, <2>1 DEF Received
<1>3. \A p, d, e, q, x, t : q \in Clients /\ Shows(p, d, e, q, x, t, S) =>
          Shows(p, d, e, q, x, t, T)
  BY <1>1 DEF Shows
<1>4. \A p, d, e : StepOK(p, d, e, S) => StepOK(p, d, e, T)
  BY <1>3 DEF StepOK
<1>5. \A p, d, ws : StepsOK(p, d, ws, S) => StepsOK(p, d, ws, T)
  BY <1>4 DEF StepsOK
<1>6. \A c, n, d, call : CallOK(c, n, d, call, S) => CallOK(c, n, d, call, T)
  BY <1>5 DEF CallOK
<1>7. \A ct \in Contents : MailOK(S, ct) => MailOK(T, ct)
  <2> SUFFICES ASSUME NEW ct \in Contents, ct.kind = "aead", SentBy(S, ct)
               PROVE  SentBy(T, ct)
    BY DEF MailOK
  <2>1. ct.from \in Clients
    BY ContentsKinds DEF Ciphertexts
  <2> QED
    BY <2>1 DEF SentBy, Extends
<1>8. \A req \in Reqs \cup {Null} : ReqOK(S, req) => ReqOK(T, req)
  <2>1. \A req \in Reqs \cup {Null} : Texting(req) =>
           req.content \in Contents /\ req.content.kind = "aead"
    BY DEF Texting, Reqs, H!Requests
  <2> QED
    BY <1>7, <2>1 DEF ReqOK, MailOK
<1>9. \A res \in Resps \cup {Null} : ResOK(S, res) => ResOK(T, res)
  <2>1. \A res \in Resps \cup {Null} :
           res # Null /\ res.type = "message" /\ res.msg # Null => res.msg.content \in Contents
    BY DEF Resps, H!Responses, H!Messages
  <2> QED
    BY <1>7, <2>1 DEF ResOK
<1> QED
  BY <1>1, <1>2, <1>4, <1>5, <1>6, <1>7, <1>8, <1>9

\* Messages stay in conversations that exist.
LEMMA StillHomed ==
    ASSUME NEW d \in Databases, NEW st \in Statements, Homed(d),
           st.do = "storeMessage" => st.mine \/ d.convos[st.id] # Null,
           NEW e, e = Executed(d, st)
    PROVE  Homed(e)
<1>0. d.messages \in Seq(MessageRows)
  BY DEF Databases
<1>1. \A i \in DOMAIN d.messages :
         d.messages[i].mine \/ e.convos[d.messages[i].convo] # Null
  <2> SUFFICES ASSUME NEW i \in DOMAIN d.messages, ~d.messages[i].mine
               PROVE  e.convos[d.messages[i].convo] # Null
    OBVIOUS
  <2>1. d.messages[i] \in MessageRows
    BY <1>0
  <2>2. d.messages[i].convo \in Draws
    BY <2>1 DEF MessageRows
  <2>3. d.convos[d.messages[i].convo] # Null
    BY DEF Homed
  <2> QED
    BY <2>2, <2>3, RowsStay, RowAssumption
<1>2. CASE st.do # "storeMessage"
  BY <1>1, <1>2, ExecutedMessages DEF Homed
<1>3. CASE st.do = "storeMessage"
  <2> DEFINE mr == [convo |-> st.id, mine |-> st.mine, text |-> st.text]
  <2>1. mr \in MessageRows /\ e.messages = Append(d.messages, mr) /\ e.convos = d.convos
    BY <1>3, ExecutedMessages
  <2>2. mr.mine \/ e.convos[mr.convo] # Null
    BY <1>3, <2>1
  <2> HIDE DEF mr
  <2> QED
    BY <1>0, <1>1, <2>1, <2>2 DEF Homed
<1> QED
  BY <1>2, <1>3

\* Most statements show nothing.
LEMMA ShowsNothing ==
    ASSUME NEW d \in Databases, NEW st \in Statements, Homed(d),
           \/ st.do \in ContactStatements
           \/ st.do = "updateSessionKeys"
           \/ /\ st.do = "createConvo" /\ d.convos[st.id] = Null
              /\ st.title = Null \/ st.title.by # st.who
           \/ st.do = "storeMessage" /\ st.mine,
           NEW e, e = Executed(d, st)
    PROVE  Homed(e) /\ SameShown(d, e)
<1>1. Homed(e)
  BY StillHomed DEF ContactStatements
<1>2. ASSUME NEW q \in Clients, NEW x \in Draws
      PROVE  ShownIn(e, q, x) = ShownIn(d, q, x)
  <2>1. CASE st.do \in ContactStatements
    <3>1. e.convos = d.convos /\ e.messages = d.messages
      BY <2>1, ExecutedFrame, ExecutedMessages DEF ContactStatements
    <3> QED
      BY <3>1, ShownRow
  <2>2. CASE st.do = "updateSessionKeys"
    <3>1. e.messages = d.messages
      BY <2>2, ExecutedMessages
    <3>2. \/ e.convos[x] = d.convos[x]
          \/ d.convos[x] # Null /\ e.convos[x] = SetOne(d.convos[x], st)
      BY <2>2, ExecutedConvo
    <3>3. CASE e.convos[x] = d.convos[x]
      BY <3>1, <3>3, ShownRow
    <3>4. CASE d.convos[x] # Null /\ e.convos[x] = SetOne(d.convos[x], st)
      <4>1. d.convos[x] \in ConvoRows
        BY <3>4 DEF Databases
      <4>2. PICK p, t, s1, s2 :
               d.convos[x] = [peer |-> p, title |-> t, c1 |-> s1, c2 |-> s2]
        BY <4>1 DEF ConvoRows
      <4>3. /\ e.convos[x].peer = d.convos[x].peer
            /\ e.convos[x].title = d.convos[x].title
        BY <3>4, <4>2 DEF SetOne
      <4>4. e.convos[x] # Null
        BY <3>4, RowsStay, RowAssumption
      <4> QED
        BY <3>1, <3>4, <4>3, <4>4, ShownRow
    <3> QED
      BY <3>2, <3>3, <3>4
  <2>3. CASE st.do = "createConvo"
    <3>1. e.messages = d.messages /\ st.id \in Draws
      BY <2>3, ExecutedMessages, ExecutedFrame
    <3>2. e.convos = [d.convos EXCEPT ![st.id] =
              [peer |-> st.who, title |-> st.title, c1 |-> st.c1, c2 |-> st.c2]]
      BY <2>3, ExecutedFrame
    <3>3. CASE x # st.id
      <4>1. e.convos[x] = d.convos[x]
        BY <3>2, <3>3 DEF Databases
      <4> QED
        BY <3>1, <4>1, ShownRow
    <3>4. CASE x = st.id
      <4>1. e.convos[x] =
               [peer |-> st.who, title |-> st.title, c1 |-> st.c1, c2 |-> st.c2]
        BY <3>1, <3>2, <3>4 DEF Databases
      <4>2. e.convos[x].peer = st.who /\ e.convos[x].title = st.title
        BY <4>1
      <4>3. d.convos[x] = Null
        BY <2>3, <3>4 DEF ContactStatements
      <4>4. e \in Databases
        BY ExecutedType
      <4>5. CASE q = st.who
        <5>1. TitleIn(e.convos[x], q) = <<>>
          BY <2>3, <4>2, <4>5 DEF TitleIn, ContactStatements
        <5>2. e.convos[x] = Null => ShownIn(e, q, x) = <<>> /\ ShownIn(d, q, x) = <<>>
          BY <4>3 DEF ShownIn
        <5> QED
          BY <3>1, <4>3, <4>4, <5>1, <5>2, ShownNew
      <4>6. CASE q # st.who
        BY <4>2, <4>3, <4>6 DEF ShownIn
      <4> QED
        BY <4>5, <4>6
    <3> QED
      BY <3>3, <3>4
  <2>4. CASE st.do = "storeMessage"
    <3> DEFINE mr == [convo |-> st.id, mine |-> st.mine, text |-> st.text]
    <3>1. /\ mr \in MessageRows /\ e.messages = Append(d.messages, mr)
          /\ e.convos = d.convos
      BY <2>4, ExecutedMessages
    <3>2. mr.mine
      BY <2>4 DEF ContactStatements
    <3> HIDE DEF mr
    <3>3. ~IsShown(d, mr, q, x)
      BY <3>2 DEF IsShown
    <3> QED
      BY <3>1, <3>3, ShownStored
  <2> QED
    BY <2>1, <2>2, <2>3, <2>4
<1> QED
  BY <1>1, <1>2 DEF SameShown

\* The title of a conversation that shows nothing yet is shown.
LEMMA ShowsTitle ==
    ASSUME NEW d \in Databases, Homed(d), NEW S, NEW p, NEW q \in Clients, NEW x \in Draws,
           NEW t \in Texts, t.by = q, d.convos[x] # Null, d.convos[x].peer = q,
           ShownIn(d, q, x) = <<>>,
           Reached(S, p, q, x, d.convos[x].c2.turn, t),
           NEW e, e = Executed(d, updateTitle(x, q, t))
    PROVE  StepOK(p, d, e, S)
<1> DEFINE st == updateTitle(x, q, t)
<1>0. st \in Statements /\ st.do = "updateTitle" /\ st.id = x /\ st.title = t
  BY StatementsType DEF updateTitle
<1>1. Homed(e)
  BY <1>0, StillHomed
<1>2. d.convos[x] \in ConvoRows /\ d.convos \in [Draws -> ConvoRows \cup {Null}]
  BY DEF Databases
<1>3. PICK o, u, s1, s2 : d.convos[x] = [peer |-> o, title |-> u, c1 |-> s1, c2 |-> s2]
  BY <1>2 DEF ConvoRows
<1>4. e.convos = [d.convos EXCEPT ![x].title = t]
  <2>1. d = [contacts |-> d.contacts, convos |-> d.convos, messages |-> d.messages]
    BY DEF Databases
  <2>2. Matches(d, st)
    BY DEF Matches, updateTitle
  <2>3. e = [d EXCEPT !.convos[x].title = t]
    BY <2>2 DEF Executed, updateTitle
  <2> QED
    BY <2>1, <2>3
<1>5. e.convos[x] = [d.convos[x] EXCEPT !.title = t]
  BY <1>2, <1>4
<1>6. /\ e.convos[x].peer = q /\ e.convos[x].title = t
      /\ e.convos[x].c2 = d.convos[x].c2
  BY <1>3, <1>5
<1>7. e.convos[x] # Null
  BY <1>0, RowsStay, RowAssumption
<1>8. e.messages = d.messages
  BY <1>0, ExecutedMessages
<1>9. TextsAt(d.messages, TheirsIn(d, x)) = <<>>
  <2> DEFINE rest == TextsAt(d.messages, TheirsIn(d, x))
             title == TitleIn(d.convos[x], q)
  <2>1. rest \in Seq(Texts)
    <3>1. d.messages \in Seq(MessageRows) /\ \A mr \in MessageRows : mr.text \in Texts
      BY DEF Databases, MessageRows
    <3> QED
      BY <3>1, TextsAtElements
  <2>2. title \in Seq(Texts)
    BY <1>2 DEF TitleIn, ConvoRows
  <2>3. title \o rest = <<>>
    BY DEF ShownIn
  <2> HIDE DEF rest, title
  <2>4. Len(title \o rest) = Len(title) + Len(rest) /\ Len(title) \in Nat /\ Len(rest) \in Nat
    BY <2>1, <2>2
  <2>5. Len(rest) = 0
    BY <2>3, <2>4
  <2>6. rest = <<>>
    BY <2>1, <2>5
  <2> QED
    BY <2>6 DEF rest
<1>10. ShownIn(e, q, x) = Append(ShownIn(d, q, x), t)
  <2>1. TextsAt(e.messages, TheirsIn(e, x)) = <<>>
    BY <1>8, <1>9 DEF TheirsIn
  <2>2. TitleIn(e.convos[x], q) = <<t>>
    <3>1. t # Null => e.convos[x].title # Null /\ e.convos[x].title.by = q
      BY <1>6
    <3>2. t # Null
      BY NullAssumption
    <3> QED
      BY <1>6, <3>1, <3>2 DEF TitleIn
  <2>3. ShownIn(e, q, x) = <<t>> \o <<>>
    BY <1>6, <1>7, <2>1, <2>2 DEF ShownIn
  <2> QED
    BY <2>3
<1>11. ASSUME NEW r \in Clients, NEW y \in Draws, r # q \/ y # x
       PROVE  ShownIn(e, r, y) = ShownIn(d, r, y)
  <2>1. CASE y # x
    <3>1. e.convos[y] = d.convos[y]
      BY <1>2, <1>4, <2>1
    <3> QED
      BY <1>8, <3>1, ShownRow
  <2>2. CASE y = x
    BY <1>6, <1>11, <2>2 DEF ShownIn
  <2> QED
    BY <2>1, <2>2
<1>12. Shows(p, d, e, q, x, t, S)
  BY <1>6, <1>7, <1>10, <1>11 DEF Shows
<1> QED
  BY <1>1, <1>12 DEF StepOK

\* A message is shown behind what the conversation shows already.
LEMMA ShownBehind ==
    ASSUME NEW d \in Databases, NEW e, NEW mr \in MessageRows, NEW S, NEW p,
           NEW q \in Clients, NEW x \in Draws, IsShown(d, mr, q, x),
           e.convos = d.convos, e.messages = Append(d.messages, mr), Homed(e),
           \A k \in DOMAIN ShownIn(d, q, x) : ShownIn(d, q, x)[k].no < mr.text.no,
           Reached(S, p, q, x, d.convos[x].c2.turn, mr.text)
    PROVE  StepOK(p, d, e, S)
<1>1. ASSUME NEW r \in Clients, NEW y \in Draws
      PROVE  /\ IsShown(d, mr, r, y) => ShownIn(e, r, y) = Append(ShownIn(d, r, y), mr.text)
             /\ ~IsShown(d, mr, r, y) => ShownIn(e, r, y) = ShownIn(d, r, y)
  BY ShownStored
<1>2. ShownIn(e, q, x) = Append(ShownIn(d, q, x), mr.text)
  BY <1>1
<1>3. ASSUME NEW r \in Clients, NEW y \in Draws, r # q \/ y # x
      PROVE  ShownIn(e, r, y) = ShownIn(d, r, y)
  <2>1. ~IsShown(d, mr, r, y)
    BY <1>3 DEF IsShown
  <2> QED
    BY <1>1, <2>1
<1>4. mr.text \in Texts
  BY DEF MessageRows
<1>5. Shows(p, d, e, q, x, mr.text, S)
  BY <1>2, <1>3 DEF Shows, IsShown
<1> QED
  BY <1>4, <1>5 DEF StepOK

LEMMA ShowsMessage ==
    ASSUME NEW d \in Databases, Homed(d), NEW S, NEW p, NEW q \in Clients, NEW x \in Draws,
           NEW t \in Texts, d.convos[x] # Null, d.convos[x].peer = q,
           \A k \in DOMAIN ShownIn(d, q, x) : ShownIn(d, q, x)[k].no < t.no,
           Reached(S, p, q, x, d.convos[x].c2.turn, t),
           NEW e, e = Executed(d, storeMessage(x, FALSE, t))
    PROVE  StepOK(p, d, e, S)
<1> DEFINE st == storeMessage(x, FALSE, t)
           mr == [convo |-> st.id, mine |-> st.mine, text |-> st.text]
<1>0. /\ st \in Statements /\ st.do = "storeMessage"
      /\ st.id = x /\ st.mine = FALSE /\ st.text = t
  BY StatementsType DEF storeMessage
<1>1. Homed(e)
  BY <1>0, StillHomed
<1>2. IsShown(d, mr, q, x) /\ mr.text = t
  BY <1>0 DEF IsShown
<1> HIDE DEF st
<1>3. mr \in MessageRows /\ e.messages = Append(d.messages, mr) /\ e.convos = d.convos
  BY <1>0, ExecutedMessages DEF st
<1> HIDE DEF mr
<1> QED
  BY <1>1, <1>2, <1>3, ShownBehind

\* Steps, one after the other.
LEMMA StepsForms ==
    ASSUME NEW p, NEW S, NEW d, Homed(d)
    PROVE  /\ StepOK(p, d, d, S)
           /\ StepsOK(p, d, <<>>, S)
           /\ \A s1, e : e = Executed(d, s1) /\ StepOK(p, d, e, S) => StepsOK(p, d, <<s1>>, S)
           /\ \A s1, s2, e, f :
                 (/\ e = Executed(d, s1) /\ f = Executed(e, s2)
                  /\ StepOK(p, d, e, S) /\ StepOK(p, e, f, S)) =>
                     StepsOK(p, d, <<s1, s2>>, S)
           /\ \A s1, s2, s3, e, f, g :
                 (/\ e = Executed(d, s1) /\ f = Executed(e, s2) /\ g = Executed(f, s3)
                  /\ StepOK(p, d, e, S) /\ StepOK(p, e, f, S) /\ StepOK(p, f, g, S)) =>
                     StepsOK(p, d, <<s1, s2, s3>>, S)
           /\ \A s1, s2, s3, s4, e, f, g, h :
                 (/\ e = Executed(d, s1) /\ f = Executed(e, s2) /\ g = Executed(f, s3)
                  /\ h = Executed(g, s4)
                  /\ StepOK(p, d, e, S) /\ StepOK(p, e, f, S) /\ StepOK(p, f, g, S)
                  /\ StepOK(p, g, h, S)) =>
                     StepsOK(p, d, <<s1, s2, s3, s4>>, S)
<1>1. \A e : Homed(e) => StepOK(p, e, e, S)
  BY DEF StepOK, SameShown
<1>2. \A e, f : StepOK(p, e, f, S) => StepOK(p, f, f, S)
  BY <1>1 DEF StepOK
<1>3. StepsOK(p, d, <<>>, S)
  BY <1>1, AfterNone DEF StepsOK
<1>4. ASSUME NEW s1, NEW e, e = Executed(d, s1), StepOK(p, d, e, S)
      PROVE  StepsOK(p, d, <<s1>>, S)
  <2>1. /\ After1(d, <<s1>>) = e /\ After2(d, <<s1>>) = e
        /\ After3(d, <<s1>>) = e /\ After4(d, <<s1>>) = e
    BY <1>4, AfterOne
  <2> QED
    BY <1>2, <1>4, <2>1 DEF StepsOK
<1>5. ASSUME NEW s1, NEW s2, NEW e, NEW f, e = Executed(d, s1), f = Executed(e, s2),
             StepOK(p, d, e, S), StepOK(p, e, f, S)
      PROVE  StepsOK(p, d, <<s1, s2>>, S)
  <2> DEFINE ws == <<s1, s2>>
  <2>1. After1(d, ws) = e /\ After2(d, ws) = f /\ After3(d, ws) = f /\ After4(d, ws) = f
    BY <1>5, AfterTwo
  <2> HIDE DEF ws
  <2>2. StepsOK(p, d, ws, S)
    BY <1>2, <1>5, <2>1 DEF StepsOK
  <2> QED
    BY <2>2 DEF ws
<1>6. ASSUME NEW s1, NEW s2, NEW s3, NEW e, NEW f, NEW g,
             e = Executed(d, s1), f = Executed(e, s2), g = Executed(f, s3),
             StepOK(p, d, e, S), StepOK(p, e, f, S), StepOK(p, f, g, S)
      PROVE  StepsOK(p, d, <<s1, s2, s3>>, S)
  <2> DEFINE ws == <<s1, s2, s3>>
  <2>1. After1(d, ws) = e /\ After2(d, ws) = f /\ After3(d, ws) = g /\ After4(d, ws) = g
    BY <1>6, AfterThree
  <2> HIDE DEF ws
  <2>2. StepsOK(p, d, ws, S)
    BY <1>2, <1>6, <2>1 DEF StepsOK
  <2> QED
    BY <2>2 DEF ws
<1>7. ASSUME NEW s1, NEW s2, NEW s3, NEW s4, NEW e, NEW f, NEW g, NEW h,
             e = Executed(d, s1), f = Executed(e, s2), g = Executed(f, s3), h = Executed(g, s4),
             StepOK(p, d, e, S), StepOK(p, e, f, S), StepOK(p, f, g, S), StepOK(p, g, h, S)
      PROVE  StepsOK(p, d, <<s1, s2, s3, s4>>, S)
  <2> DEFINE ws == <<s1, s2, s3, s4>>
  <2>1. After1(d, ws) = e /\ After2(d, ws) = f /\ After3(d, ws) = g /\ After4(d, ws) = h
    BY <1>7, AfterFour
  <2> HIDE DEF ws
  <2>2. StepsOK(p, d, ws, S)
    BY <1>7, <2>1 DEF StepsOK
  <2> QED
    BY <2>2 DEF ws
<1> QED
  BY <1>1, <1>3, <1>4, <1>5, <1>6, <1>7

-----------------------------------------------------------------------------
(* Reading a message *)

\* Every client numbers its texts, and uses its states, in order.
InOrder(S) ==
    \A q \in Clients :
        /\ \A i \in DOMAIN S[q] : S[q][i].text.by = q
        /\ \A i, j \in DOMAIN S[q] : i < j => Follows(S[q][i], S[q][j])

\* What was made with the state that the conversation receives with was typed
\* after all that the conversation shows.
LEMMA ComesLast ==
    ASSUME NEW S \in [Clients -> Seq(Ciphertexts)], InOrder(S), NEW p, NEW q \in Clients,
           NEW x \in Draws, NEW d \in Databases, Received(p, d, S),
           d.convos[x] # Null, d.convos[x].peer = q,
           NEW ct \in Ciphertexts, SentBy(S, ct), ct.from = q, ct.convo = x,
           d.convos[x].c2.turn <= ct.key.turn
    PROVE  \A k \in DOMAIN ShownIn(d, q, x) : ShownIn(d, q, x)[k].no < ct.text.no
<1> SUFFICES ASSUME NEW k \in DOMAIN ShownIn(d, q, x)
             PROVE  ShownIn(d, q, x)[k].no < ct.text.no
  OBVIOUS
<1> DEFINE t == ShownIn(d, q, x)[k]
<1>1. Reached(S, p, q, x, d.convos[x].c2.turn, t)
  BY DEF Received
<1> HIDE DEF t
<1>2. PICK i \in DOMAIN S[q] :
         /\ S[q][i].convo = x /\ S[q][i].text = t
         /\ S[q][i].key.turn < d.convos[x].c2.turn
  BY <1>1 DEF Reached
<1>3. PICK j \in DOMAIN S[q] : S[q][j] = ct
  BY DEF SentBy
<1> DEFINE cu == S[q][i]
<1>4. cu \in Ciphertexts /\ i \in Nat /\ j \in Nat
  <2>1. S[q] \in Seq(Ciphertexts)
    OBVIOUS
  <2> QED
    BY <2>1
<1>5. cu.key.turn \in Nat /\ ct.key.turn \in Nat
  BY <1>4, Halves DEF Ciphertexts
<1>6. d.convos[x].c2.turn \in Nat
  BY TurnsType
<1>7. cu.key.turn < ct.key.turn
  BY <1>2, <1>5, <1>6
<1>8. ~(j < i) /\ i # j
  <2>1. ASSUME j < i PROVE FALSE
    <3>1. Follows(ct, cu)
      BY <1>3, <2>1 DEF InOrder
    <3>2. ct.key.turn < cu.key.turn
      BY <1>2, <3>1 DEF Follows
    <3> QED
      BY <1>5, <1>7, <3>2
  <2>2. i # j
    BY <1>3, <1>5, <1>7
  <2> QED
    BY <2>1, <2>2
<1>9. i < j
  BY <1>4, <1>8
<1>10. Follows(cu, ct)
  BY <1>3, <1>9 DEF InOrder
<1> QED
  BY <1>2, <1>10 DEF Follows, t

\* What updateSessionKeys does to the state that a conversation receives with.
LEMMA ExecutedReceives ==
    ASSUME NEW d \in Databases, NEW x \in Draws, NEW p \in Clients,
           d.convos[x] # Null, d.convos[x].peer = p, NEW s \in SessionKeys,
           NEW e, e = Executed(d, updateSessionKeys(x, p, Null, s))
    PROVE  /\ e \in Databases
           /\ e.convos[x] # Null /\ e.convos[x].peer = p /\ e.convos[x].c2 = s
<1> DEFINE st == updateSessionKeys(x, p, Null, s)
<1>0. st \in Statements /\ st.c1 = Null /\ st.c2 = s
  BY StatementsType DEF updateSessionKeys
<1>1. e \in Databases
  BY <1>0, ExecutedType
<1>2. d.convos \in [Draws -> ConvoRows \cup {Null}] /\ d.convos[x] \in ConvoRows
  BY DEF Databases
<1>3. PICK r, u, s1, s2 : d.convos[x] = [peer |-> r, title |-> u, c1 |-> s1, c2 |-> s2]
  BY <1>2 DEF ConvoRows
<1>4. e.convos = [d.convos EXCEPT ![x] = SetOne(@, st)]
  <2>1. d = [contacts |-> d.contacts, convos |-> d.convos, messages |-> d.messages]
    BY DEF Databases
  <2>2. e = [d EXCEPT !.convos[x] = SetOne(@, st)]
    BY DEF Executed, Matches, updateSessionKeys
  <2> QED
    BY <2>1, <2>2
<1>5. e.convos[x] = [d.convos[x] EXCEPT !.c2 = s]
  BY <1>0, <1>2, <1>4 DEF SetOne
<1>6. e.convos[x].peer = p /\ e.convos[x].c2 = s
  BY <1>3, <1>5
<1>7. e.convos[x] # Null
  BY <1>0, RowsStay, RowAssumption
<1> QED
  BY <1>1, <1>6, <1>7

\* What can be decrypted was sent, to this client and in this conversation.
LEMMA Decrypted ==
    ASSUME NEW S \in [Clients -> Seq(Ciphertexts)], InOrder(S), NEW p, NEW m \in Msgs,
           MailOK(S, m.content), NEW s \in SessionKeys, decryptMessage(s, p, m)
    PROVE  /\ m.content \in Ciphertexts /\ SentBy(S, m.content)
           /\ m.content.from = m.from /\ m.content.convo = m.convo
           /\ m.content.text \in Texts /\ m.content.text.by = m.from
           /\ m.content.key = s
           /\ Reached(S, p, m.from, m.convo, AfterAEAD(s).turn, m.content.text)
<1> DEFINE ct == m.content
<1>1. /\ ct.kind = "aead" /\ ct.key = s /\ ct.convo = m.convo
      /\ ct.from = m.from /\ ct.to = p
  BY DEF decryptMessage
<1>2. ct \in Contents /\ m.from \in Clients
  BY DEF Msgs, H!Messages
<1>3. ct \in Ciphertexts /\ ct.text \in Texts
  BY <1>1, <1>2, ContentsKinds
<1>4. SentBy(S, ct)
  BY <1>1 DEF MailOK
<1>5. PICK i \in DOMAIN S[m.from] : S[m.from][i] = ct
  BY <1>1, <1>4 DEF SentBy
<1>6. ct.text.by = m.from
  BY <1>2, <1>5 DEF InOrder
<1>7. ct.key.turn < AfterAEAD(s).turn
  BY <1>1, Halves
<1>8. Reached(S, p, m.from, m.convo, AfterAEAD(s).turn, ct.text)
  BY <1>1, <1>5, <1>7 DEF Reached
<1> QED
  BY <1>1, <1>3, <1>4, <1>6, <1>8

\* newThread, at the two places that have to be mended.
LEMMA ReadForms ==
    ASSUME "roles" \in Mended, "title" \in Mended, NEW d, NEW me, NEW m,
           NEW t2, t2 = d.contacts[m.from].c2, NEW s1, s1 = InitiatorThread(t2)
    PROVE  LET create == createConvo(m.convo, m.from, Null, ResponderThread(t2), s1)
               ratchet == updateThreadRatchetStates(m.from, Null, Ratchet(t2))
               keys == updateSessionKeys(m.convo, m.from, Null, AfterAEAD(s1))
               title == updateTitle(m.convo, m.from, m.content.text)
           IN  \/ newThread(d, me, m) = <<create, ratchet>>
               \/ /\ decryptMessage(s1, me, m)
                  /\ newThread(d, me, m) = <<create, ratchet, keys, title>>
<1> DEFINE create == createConvo(m.convo, m.from, Null, ResponderThread(t2), s1)
           ratchet == updateThreadRatchetStates(m.from, Null, Ratchet(t2))
           keys == updateSessionKeys(m.convo, m.from, Null, AfterAEAD(s1))
           title == updateTitle(m.convo, m.from, m.content.text)
<1>1. newThread(d, me, m) = <<create, ratchet>> \o
          (IF ~decryptMessage(s1, me, m) THEN <<>> ELSE <<keys, title>>)
  BY DEF newThread
<1> HIDE DEF create, ratchet, keys, title
<1>2. CASE ~decryptMessage(s1, me, m)
  <2>1. newThread(d, me, m) = <<create, ratchet>>
    BY <1>1, <1>2, ConcatSequences
  <2> QED
    BY <2>1 DEF create, ratchet
<1>3. CASE decryptMessage(s1, me, m)
  <2>1. newThread(d, me, m) = <<create, ratchet, keys, title>>
    <3>1. newThread(d, me, m) = <<create, ratchet>> \o <<keys, title>>
      BY <1>1, <1>3
    <3> QED
      BY <3>1, ConcatSequences
  <2> QED
    BY <1>3, <2>1 DEF create, ratchet, keys, title
<1> QED
  BY <1>2, <1>3

\* The row that createConvo inserts for a conversation without a title.
LEMMA CreatedRow ==
    ASSUME NEW d \in Databases, NEW x \in Draws, NEW p \in Clients,
           NEW s1 \in SessionKeys, NEW s2 \in SessionKeys,
           NEW e, e = Executed(d, createConvo(x, p, Null, s1, s2))
    PROVE  e \in Databases /\ e.convos[x] # Null /\ e.convos[x].peer = p
<1>1. Null \in Texts \cup {Null}
  OBVIOUS
<1> QED
  BY <1>1, ExecutedCreate

\* The first message of a conversation creates it, and is shown as its title.
LEMMA ReadsThread ==
    ASSUME "roles" \in Mended, "title" \in Mended,
           NEW S \in [Clients -> Seq(Ciphertexts)], InOrder(S), NEW p \in Clients,
           NEW d \in Databases, Received(p, d, S), NEW m \in Msgs, MailOK(S, m.content),
           threadRatchetStatesReady(d, m.from), d.convos[m.convo] = Null
    PROVE  StepsOK(p, d, newThread(d, p, m), S)
<1> DEFINE q == m.from
           x == m.convo
           t == m.content.text
           t2 == d.contacts[q].c2
           s1 == InitiatorThread(t2)
           s2 == ResponderThread(t2)
           create == createConvo(x, q, Null, s2, s1)
           ratchet == updateThreadRatchetStates(q, Null, Ratchet(t2))
           keys == updateSessionKeys(x, q, Null, AfterAEAD(s1))
           title == updateTitle(x, q, t)
           e == Executed(d, create)
           f == Executed(e, ratchet)
           g == Executed(f, keys)
           h == Executed(g, title)
<1>0. /\ q \in Clients /\ x \in Draws /\ Homed(d)
      /\ t2 \in ThreadStates /\ s1 \in SessionKeys /\ s2 \in SessionKeys
      /\ Ratchet(t2) \in ThreadStates /\ AfterAEAD(s1) \in SessionKeys
  BY ReadyHasStates, KeysType DEF Msgs, H!Messages, Received
<1>1. create \in Statements /\ ratchet \in Statements /\ keys \in Statements
  <2> HIDE DEF q, x, t2, s1, s2
  <2> QED
    BY <1>0, StatementsType
<1>2. /\ create.do = "createConvo" /\ create.id = x /\ create.title = Null
      /\ ratchet.do \in ContactStatements /\ keys.do = "updateSessionKeys"
  BY DEF createConvo, updateThreadRatchetStates, updateSessionKeys, ContactStatements
<1>3. /\ e \in Databases /\ e.convos[x] # Null /\ e.convos[x].peer = q
  <2>1. e = Executed(d, createConvo(x, q, Null, s2, s1)) /\ Null \in Texts \cup {Null}
    OBVIOUS
  <2> HIDE DEF q, x, t2, s1, s2, e
  <2> QED
    BY <1>0, <2>1, CreatedRow
<1>4. Homed(e) /\ SameShown(d, e)
  <2> HIDE DEF create
  <2> QED
    BY <1>0, <1>1, <1>2, ShowsNothing
<1>5. f \in Databases /\ f.convos = e.convos
  <2> HIDE DEF e, ratchet
  <2> QED
    BY <1>1, <1>2, <1>3, ExecutedType, ExecutedFrame
<1>6. Homed(f) /\ SameShown(e, f)
  <2> HIDE DEF e, ratchet
  <2> QED
    BY <1>1, <1>2, <1>3, <1>4, ShowsNothing
<1>7. /\ g \in Databases /\ g.convos[x] # Null /\ g.convos[x].peer = q
      /\ g.convos[x].c2 = AfterAEAD(s1)
  <2> DEFINE s == AfterAEAD(s1)
  <2>1. s \in SessionKeys
    BY <1>0
  <2> HIDE DEF f, s, q, x
  <2>2. f.convos[x] # Null /\ f.convos[x].peer = q
    BY <1>3, <1>5
  <2> QED
    BY <1>0, <1>5, <2>1, <2>2, ExecutedReceives DEF s
<1>8. Homed(g) /\ SameShown(f, g)
  <2> HIDE DEF f, keys
  <2> QED
    BY <1>1, <1>2, <1>5, <1>6, ShowsNothing
<1>9. ShownIn(g, q, x) = <<>>
  <2>1. ShownIn(d, q, x) = <<>>
    BY DEF ShownIn
  <2> HIDE DEF q, x, e, f, g
  <2> QED
    BY <1>0, <1>4, <1>6, <1>8, <2>1 DEF SameShown
<1>10. ASSUME decryptMessage(s1, p, m)
       PROVE  StepOK(p, g, h, S)
  <2>1. /\ t \in Texts /\ t.by = q
        /\ Reached(S, p, q, x, AfterAEAD(s1).turn, t)
    <3> HIDE DEF s1
    <3> QED
      BY <1>0, <1>10, Decrypted
  <2>2. Reached(S, p, q, x, g.convos[x].c2.turn, t)
    BY <1>7, <2>1
  <2> HIDE DEF q, x, t, g
  <2> QED
    BY <1>0, <1>7, <1>8, <1>9, <2>1, <2>2, ShowsTitle
<1>11. StepOK(p, d, e, S) /\ StepOK(p, e, f, S) /\ StepOK(p, f, g, S)
  <2> HIDE DEF e, f, g
  <2> QED
    BY <1>4, <1>6, <1>8 DEF StepOK
<1>12. \/ newThread(d, p, m) = <<create, ratchet>>
       \/ /\ decryptMessage(s1, p, m)
          /\ newThread(d, p, m) = <<create, ratchet, keys, title>>
  BY ReadForms
<1>13. StepsOK(p, d, <<create, ratchet>>, S)
  <2> HIDE DEF create, ratchet
  <2>1. e = Executed(d, create) /\ f = Executed(e, ratchet)
    OBVIOUS
  <2> HIDE DEF e, f
  <2> QED
    BY <1>0, <1>11, <2>1, StepsForms
<1>14. ASSUME StepOK(p, g, h, S)
       PROVE  StepsOK(p, d, <<create, ratchet, keys, title>>, S)
  <2> HIDE DEF create, ratchet, keys, title
  <2>1. /\ e = Executed(d, create) /\ f = Executed(e, ratchet)
        /\ g = Executed(f, keys) /\ h = Executed(g, title)
    OBVIOUS
  <2> HIDE DEF e, f, g, h
  <2> QED
    BY <1>0, <1>11, <1>14, <2>1, StepsForms
<1> HIDE DEF create, ratchet, keys, title, h
<1> QED
  BY <1>10, <1>12, <1>13, <1>14

\* Another message is shown behind the others.
LEMMA ReadsMessage ==
    ASSUME NEW S \in [Clients -> Seq(Ciphertexts)], InOrder(S), NEW p \in Clients,
           NEW d \in Databases, Received(p, d, S), NEW m \in Msgs, MailOK(S, m.content),
           d.convos[m.convo] # Null, d.convos[m.convo].peer = m.from,
           NEW s, s = d.convos[m.convo].c2, decryptMessage(s, p, m)
    PROVE  StepsOK(p, d, <<updateSessionKeys(m.convo, m.from, Null, AfterAEAD(s)),
                           storeMessage(m.convo, FALSE, m.content.text)>>, S)
<1> DEFINE q == m.from
           x == m.convo
           t == m.content.text
           keys == updateSessionKeys(x, q, Null, AfterAEAD(s))
           store == storeMessage(x, FALSE, t)
           e == Executed(d, keys)
           f == Executed(e, store)
<1>0. /\ q \in Clients /\ x \in Draws /\ Homed(d)
      /\ s \in SessionKeys /\ AfterAEAD(s) \in SessionKeys
  BY FoundHasKeys, KeysType DEF Msgs, H!Messages, Received
<1>1. keys \in Statements /\ keys.do = "updateSessionKeys"
  BY <1>0, StatementsType DEF updateSessionKeys
<1>2. /\ e \in Databases /\ e.convos[x] # Null /\ e.convos[x].peer = q
      /\ e.convos[x].c2 = AfterAEAD(s)
  <2> DEFINE z == AfterAEAD(s)
  <2>1. z \in SessionKeys
    BY <1>0
  <2> HIDE DEF z, q, x
  <2>2. d.convos[x] # Null /\ d.convos[x].peer = q
    BY DEF q, x
  <2> QED
    BY <1>0, <2>1, <2>2, ExecutedReceives DEF z
<1>3. Homed(e) /\ SameShown(d, e)
  <2> HIDE DEF keys
  <2> QED
    BY <1>0, <1>1, ShowsNothing
<1>4. /\ m.content \in Ciphertexts /\ SentBy(S, m.content)
      /\ m.content.from = q /\ m.content.convo = x
      /\ t \in Texts /\ m.content.key = s
      /\ Reached(S, p, q, x, AfterAEAD(s).turn, t)
  BY <1>0, Decrypted
<1>5. \A k \in DOMAIN ShownIn(d, q, x) : ShownIn(d, q, x)[k].no < t.no
  <2> DEFINE ct == m.content
  <2>1. d.convos[x].c2.turn <= ct.key.turn
    BY <1>0, <1>4, Halves
  <2>2. t = ct.text /\ d.convos[x] # Null /\ d.convos[x].peer = q
    OBVIOUS
  <2> HIDE DEF ct, q, x, t
  <2> QED
    BY <1>0, <1>4, <2>1, <2>2, ComesLast DEF ct
<1>6. \A k \in DOMAIN ShownIn(e, q, x) : ShownIn(e, q, x)[k].no < t.no
  <2> HIDE DEF e, q, x, t
  <2> QED
    BY <1>0, <1>3, <1>5 DEF SameShown
<1>7. StepOK(p, e, f, S)
  <2>1. Reached(S, p, q, x, e.convos[x].c2.turn, t)
    BY <1>2, <1>4
  <2> HIDE DEF e, q, x, t
  <2> QED
    BY <1>0, <1>2, <1>3, <1>4, <1>6, <2>1, ShowsMessage
<1>8. StepOK(p, d, e, S)
  BY <1>3 DEF StepOK
<1> HIDE DEF keys, store
<1>9. StepsOK(p, d, <<keys, store>>, S)
  <2>1. e = Executed(d, keys) /\ f = Executed(e, store)
    OBVIOUS
  <2> HIDE DEF e, f
  <2> QED
    BY <1>0, <1>7, <1>8, <2>1, StepsForms
<1> QED
  BY <1>9 DEF keys, store

\* One statement that shows nothing.
LEMMA StepsQuiet ==
    ASSUME NEW d \in Databases, Homed(d), NEW p, NEW S, NEW st \in Statements,
           \/ st.do \in ContactStatements
           \/ st.do = "updateSessionKeys"
           \/ st.do = "storeMessage" /\ st.mine
    PROVE  StepsOK(p, d, <<st>>, S)
<1> DEFINE e == Executed(d, st)
<1>1. Homed(e) /\ SameShown(d, e)
  BY ShowsNothing
<1>2. StepOK(p, d, e, S)
  BY <1>1 DEF StepOK
<1> QED
  BY <1>2, StepsForms

\* Whatever message arrives, what it makes the client execute shows only what
\* may be shown.
LEMMA ReadsAny ==
    ASSUME "roles" \in Mended, "title" \in Mended,
           NEW S \in [Clients -> Seq(Ciphertexts)], InOrder(S), NEW p \in Clients,
           NEW d \in Databases, Received(p, d, S), NEW m \in Msgs, MailOK(S, m.content)
    PROVE  StepsOK(p, d, Dispatch(d, p, m), S)
<1> DEFINE q == m.from
           x == m.convo
           state == getStateContact(d, q)
<1>0. q \in Clients /\ x \in Draws /\ m.content \in Contents /\ Homed(d)
  BY DEF Msgs, H!Messages, Received
<1>1. StepsOK(p, d, <<>>, S)
  BY <1>0, StepsForms
<1>2. CASE state = "noContact"
  <2> DEFINE st == addContactFromReq(q, m.content)
  <2>1. st \in Statements /\ st.do \in ContactStatements
    BY <1>0, StatementsType DEF addContactFromReq, ContactStatements
  <2> HIDE DEF st
  <2>2. StepsOK(p, d, <<st>>, S)
    BY <1>0, <2>1, StepsQuiet
  <2> QED
    BY <1>2, <2>2 DEF Dispatch, st
<1>3. CASE state = "waitingForAccept"
  <2> DEFINE e == d.contacts[q].blob
             f == m.content.resp
             st == finalizeContact(q, ThreadState(e, f, "initiator"),
                                      ThreadState(e, f, "responder"))
  <2>1. e \in Draws
    BY <1>0, <1>3, WaitingBlobs
  <2>2. CASE finishAddContact(e, m.content)
    <3>1. f \in Draws
      BY <1>0, <2>2, ContentsKinds DEF finishAddContact
    <3>2. st \in Statements /\ st.do \in ContactStatements
      BY <1>0, <2>1, <3>1, KeysType, StatementsType DEF finalizeContact, ContactStatements
    <3>3. Dispatch(d, p, m) = <<st>>
      BY <1>3, <2>2 DEF Dispatch, aliceAckAcceptContact
    <3> HIDE DEF st
    <3> QED
      BY <1>0, <3>2, <3>3, StepsQuiet
  <2>3. CASE ~finishAddContact(e, m.content)
    BY <1>1, <1>3, <2>3 DEF Dispatch, aliceAckAcceptContact
  <2> QED
    BY <2>2, <2>3
<1>4. CASE state = "contactAdded"
  <2>0. Dispatch(d, p, m) = handleNewMessage(d, p, m)
    BY <1>4 DEF Dispatch
  <2>1. CASE ~ConvoExist(d, x) /\ threadRatchetStatesReady(d, q)
    <3>1. Dispatch(d, p, m) = newThread(d, p, m)
      BY <2>0, <2>1 DEF handleNewMessage
    <3> QED
      BY <2>1, <3>1, ReadsThread DEF ConvoExist
  <2>2. CASE /\ ConvoExist(d, x) /\ sessionKeysFound(d, x, q)
             /\ decryptMessage(d.convos[x].c2, p, m)
    <3>1. Dispatch(d, p, m) =
             <<updateSessionKeys(x, q, Null, AfterAEAD(d.convos[x].c2)),
               storeMessage(x, FALSE, m.content.text)>>
      BY <2>0, <2>2 DEF handleNewMessage
    <3>2. d.convos[x] # Null /\ d.convos[x].peer = q
      BY <2>2 DEF ConvoExist, sessionKeysFound
    <3> QED
      BY <2>2, <3>1, <3>2, ReadsMessage
  <2>3. CASE /\ ~(~ConvoExist(d, x) /\ threadRatchetStatesReady(d, q))
             /\ ~(/\ ConvoExist(d, x) /\ sessionKeysFound(d, x, q)
                  /\ decryptMessage(d.convos[x].c2, p, m))
    <3>1. Dispatch(d, p, m) = <<>>
      BY <2>0, <2>3 DEF handleNewMessage
    <3> QED
      BY <1>1, <3>1
  <2> QED
    BY <2>1, <2>2, <2>3
<1>5. CASE state \notin {"noContact", "waitingForAccept", "contactAdded"}
  <2>1. Dispatch(d, p, m) = <<>>
    BY <1>5 DEF Dispatch
  <2> QED
    BY <1>1, <2>1
<1> QED
  BY <1>2, <1>3, <1>4, <1>5

-----------------------------------------------------------------------------
(* Sending a text *)

\* A state that was used is one turn further.
LEMMA UseMoves ==
    ASSUME NEW s \in SessionKeys
    PROVE  AfterAEAD(s) \in SessionKeys /\ s.turn < AfterAEAD(s).turn
<1>1. AfterAEAD(s).turn = s.turn + 1 /\ s.turn \in Nat
  BY Halves
<1> QED
  BY <1>1, KeysType

\* A text in a conversation.
LEMMA SendsInConvo ==
    ASSUME NEW c \in Clients, NEW p \in Clients, p # c, NEW n, NEW S,
           NEW d \in Databases, Homed(d), NEW x \in Draws,
           d.convos[x] # Null, d.convos[x].peer = p,
           NEW t \in Texts, t.by = c, t.no <= n,
           NEW s1, s1 = d.convos[x].c1,
           NEW ws, ws = <<updateSessionKeys(x, p, AfterAEAD(s1), Null)>>
    PROVE  /\ StepsOK(c, d, ws, S)
           /\ Backed(c, n, After4(d, ws), encryptMessage(s1, x, c, p, t))
<1> DEFINE st == updateSessionKeys(x, p, AfterAEAD(s1), Null)
           s == AfterAEAD(s1)
           e == Executed(d, st)
           ct == encryptMessage(s1, x, c, p, t)
<1>0. s1 \in SessionKeys /\ s \in SessionKeys /\ s1.turn < s.turn
  BY FoundHasKeys, UseMoves
<1>1. st \in Statements /\ st.do = "updateSessionKeys"
  BY <1>0, StatementsType DEF updateSessionKeys
<1>2. StepsOK(c, d, ws, S)
  <2> HIDE DEF st
  <2> QED
    BY <1>1, StepsQuiet DEF st
<1>3. e.convos[x] # Null /\ e.convos[x].c1 = s
  <2>1. e = Executed(d, updateSessionKeys(x, p, s, Null))
    OBVIOUS
  <2> HIDE DEF s, e
  <2> QED
    BY <1>0, <2>1, ExecutedKeys
<1>4. After4(d, ws) = e
  BY AfterOne
<1>5. /\ ct.from = c /\ ct.to = p /\ ct.text = t /\ ct.convo = x /\ ct.key = s1
  BY DEF encryptMessage
<1> HIDE DEF e, ct, s
<1>6. Backed(c, n, e, ct)
  BY <1>0, <1>3, <1>5 DEF Backed
<1> QED
  BY <1>2, <1>4, <1>6 DEF ct

\* The first text of a new conversation.
LEMMA SendsNewThread ==
    ASSUME NEW c \in Clients, NEW p \in Clients, p # c, NEW n, NEW S,
           NEW d \in Databases, Homed(d), NEW x \in Draws, d.convos[x] = Null,
           threadRatchetStatesReady(d, p),
           NEW t \in Texts, t.by = c, t.no <= n,
           NEW t1, t1 = d.contacts[p].c1,
           NEW s1, s1 = InitiatorThread(t1), NEW s2, s2 = ResponderThread(t1),
           NEW ws, ws = <<updateThreadRatchetStates(p, Ratchet(t1), Null),
                          createConvo(x, p, t, s1, s2),
                          updateSessionKeys(x, p, AfterAEAD(s1), Null)>>
    PROVE  /\ StepsOK(c, d, ws, S)
           /\ Backed(c, n, After4(d, ws), encryptMessage(s1, x, c, p, t))
<1> DEFINE ratchet == updateThreadRatchetStates(p, Ratchet(t1), Null)
           create == createConvo(x, p, t, s1, s2)
           keys == updateSessionKeys(x, p, AfterAEAD(s1), Null)
           s == AfterAEAD(s1)
           e == Executed(d, ratchet)
           f == Executed(e, create)
           g == Executed(f, keys)
           ct == encryptMessage(s1, x, c, p, t)
<1>0. /\ t1 \in ThreadStates /\ s1 \in SessionKeys /\ s2 \in SessionKeys
      /\ s \in SessionKeys /\ s1.turn < s.turn /\ Ratchet(t1) \in ThreadStates
  <2>1. t1 \in ThreadStates
    BY ReadyHasStates
  <2>2. s1 \in SessionKeys /\ s2 \in SessionKeys /\ Ratchet(t1) \in ThreadStates
    BY <2>1, KeysType
  <2> QED
    BY <2>1, <2>2, UseMoves
<1>1. ratchet \in Statements /\ create \in Statements /\ keys \in Statements
  BY <1>0, StatementsType
<1>2. /\ ratchet.do \in ContactStatements /\ keys.do = "updateSessionKeys"
      /\ create.do = "createConvo" /\ create.id = x /\ create.who = p /\ create.title = t
  BY DEF updateThreadRatchetStates, createConvo, updateSessionKeys, ContactStatements
<1>3. e \in Databases /\ e.convos = d.convos
  <2> HIDE DEF ratchet
  <2> QED
    BY <1>1, <1>2, ExecutedType, ExecutedFrame
<1>4. Homed(e) /\ SameShown(d, e)
  <2> HIDE DEF ratchet
  <2> QED
    BY <1>1, <1>2, ShowsNothing
<1>5. f \in Databases /\ f.convos[x] # Null /\ f.convos[x].peer = p
  <2>1. f = Executed(e, createConvo(x, p, t, s1, s2)) /\ t \in Texts \cup {Null}
    OBVIOUS
  <2> HIDE DEF e, f
  <2> QED
    BY <1>0, <1>3, <2>1, ExecutedCreate
<1>6. Homed(f) /\ SameShown(e, f)
  <2> HIDE DEF create, e
  <2> QED
    BY <1>1, <1>2, <1>3, <1>4, ShowsNothing
<1>7. g.convos[x] # Null /\ g.convos[x].c1 = s
  <2>1. g = Executed(f, updateSessionKeys(x, p, s, Null))
    OBVIOUS
  <2> HIDE DEF s, f, g
  <2> QED
    BY <1>0, <1>5, <2>1, ExecutedKeys
<1>8. Homed(g) /\ SameShown(f, g)
  <2> HIDE DEF keys, f
  <2> QED
    BY <1>1, <1>2, <1>5, <1>6, ShowsNothing
<1>9. StepOK(c, d, e, S) /\ StepOK(c, e, f, S) /\ StepOK(c, f, g, S)
  <2> HIDE DEF e, f, g
  <2> QED
    BY <1>4, <1>6, <1>8 DEF StepOK
<1>10. ws = <<ratchet, create, keys>>
  OBVIOUS
<1>11. e = Executed(d, ratchet) /\ f = Executed(e, create) /\ g = Executed(f, keys)
  OBVIOUS
<1>12. ct.from = c /\ ct.to = p /\ ct.text = t /\ ct.convo = x /\ ct.key = s1
  BY DEF encryptMessage
<1> HIDE DEF ratchet, create, keys, e, f, g, ct, s
<1>13. StepsOK(c, d, ws, S)
  <2>1. StepsOK(c, d, <<ratchet, create, keys>>, S)
    BY <1>9, <1>11, StepsForms
  <2> QED
    BY <1>10, <2>1
<1>14. After4(d, ws) = g
  BY <1>10, <1>11, AfterThree
<1>15. Backed(c, n, g, ct)
  BY <1>0, <1>7, <1>12 DEF Backed
<1> QED
  BY <1>13, <1>14, <1>15 DEF ct

-----------------------------------------------------------------------------
(* Delivery is an invariant *)

\* What every client has sent is in the order in which it was typed.
LEMMA SenderOrder ==
    ASSUME IInv, Delivery
    PROVE  sent \in [Clients -> Seq(Ciphertexts)] /\ InOrder(sent)
<1>1. sent \in [Clients -> Seq(Ciphertexts)]
  BY DEF IInv, TypeOK
<1>2. \A q \in Clients : SenderOK(q, draws[q], db[q], sent[q])
  BY DEF Delivery, SendersOK
<1> QED
  BY <1>1, <1>2 DEF InOrder, SenderOK, Backed

\* The types that the steps below need.
LEMMA DeliveryTypes ==
    ASSUME IInv
    PROVE  /\ db \in [Clients -> Databases]
           /\ \A c \in Clients : db[c] \in Databases /\ draws[c] \in Nat
           /\ \A c \in Clients : sent[c] \in Seq(Ciphertexts)
           /\ op \in [Clients -> [Workers -> Calls]]
           /\ conn \in [Conns -> Wires]
           /\ hubConn \in [Clients -> Conns \cup {Null}]
           /\ pending \in [Clients -> Seq(Msgs)]
  BY MaxDrawsAssumption DEF IInv, TypeOK

\* A database keeps what it has.
LEMMA KeptSame ==
    ASSUME NEW d \in Databases
    PROVE  Kept(d, d)
  BY TurnsType DEF Kept

\* A call that starts keeps the invariant if its steps are in order.
LEMMA BeginDelivery ==
    ASSUME IInv, Delivery, NEW c \in Clients, NEW w \in Workers, NEW call,
           Begin(c, w, call), draws'[c] \in Nat, draws[c] <= draws'[c],
           \A q \in Clients \ {c} : draws'[q] = draws[q],
           CallOK(c, draws'[c], db[c], call, sent),
           Texting(call.ask) => \A i \in DOMAIN sent[c] : Follows(sent[c][i], call.ask.content)
    PROVE  Delivery'
<1>1. /\ op' = [op EXCEPT ![c][w] = call]
      /\ UNCHANGED <<db, hubConn, conn, pending, sent>>
      /\ \A v \in Workers : op[c][v] = Idle
  BY DEF Begin, MutexFree
<1>2. /\ \A q \in Clients \ {c} : op'[q] = op[q]
      /\ \A v \in Workers \ {w} : op'[c][v] = Idle
      /\ op'[c][w] = call
  BY <1>1, DeliveryTypes
<1>3. \A q \in Clients : CanAsk(q)' <=> CanAsk(q)
  BY <1>1 DEF CanAsk, Exchanging
<1>4. SendersOK'
  <2>1. \A q \in Clients : SenderOK(q, draws[q], db[q], sent[q])
    BY DEF Delivery, SendersOK
  <2>2. SenderOK(c, draws'[c], db[c], sent[c])
    BY <2>1, DeliveryTypes, KeptSame, SenderKept
  <2> QED
    BY <1>1, <2>1, <2>2 DEF SendersOK
<1>5. ReceiversOK'
  BY <1>1 DEF ReceiversOK, Delivery
<1>6. CallsOK'
  <2>1. \A q \in Clients \ {c}, v \in Workers :
           op[q][v] # Idle => CallOK(q, draws[q], db[q], op[q][v], sent)
    BY DEF Delivery, CallsOK
  <2> QED
    BY <1>1, <1>2, <2>1 DEF CallsOK
<1>7. AsksFollow'
  <2>1. ~Texting(Idle.ask)
    BY DEF Idle, Call, Texting
  <2>2. \A q \in Clients \ {c}, v \in Workers :
           Texting(op[q][v].ask) /\ CanAsk(q) =>
              \A i \in DOMAIN sent[q] : Follows(sent[q][i], op[q][v].ask.content)
    BY DEF Delivery, AsksFollow
  <2> QED
    BY <1>1, <1>2, <1>3, <2>1, <2>2 DEF AsksFollow
<1>8. WiresOK'
  BY <1>1 DEF WiresOK, Delivery
<1> QED
  BY <1>4, <1>5, <1>6, <1>7, <1>8 DEF Delivery

\* What of the requests puts a text on the wire.
LEMMA TextsAsked ==
    /\ ~Texting(Null)
    /\ ~Texting(H!GetNextMessage)
    /\ \A to, x, ct, fits :
          /\ ct.kind # "aead" => ~Texting(H!SendMessage(to, x, ct, fits))
          /\ Texting(H!SendMessage(to, x, ct, fits)) =>
                H!SendMessage(to, x, ct, fits).content = ct
    /\ \A x, ct : Texting(ToHub(x, ct)) => ToHub(x, ct).content = ct
  BY DEF Texting, ToHub, H!SendMessage, H!GetNextMessage

\* A text is typed behind all that was sent.
LEMMA TypedLast ==
    ASSUME NEW c, NEW n \in Nat, NEW d, NEW cts, SenderOK(c, n, d, cts),
           NEW ct, ct.text.no = n + 1,
           d.convos[ct.convo] # Null => ct.key.turn = d.convos[ct.convo].c1.turn,
           \A i \in DOMAIN cts : cts[i].text.no \in Nat
    PROVE  \A i \in DOMAIN cts : Follows(cts[i], ct)
<1> SUFFICES ASSUME NEW i \in DOMAIN cts PROVE Follows(cts[i], ct)
  OBVIOUS
<1>1. Backed(c, n, d, cts[i])
  BY DEF SenderOK
<1>2. cts[i].text.no <= n /\ cts[i].text.no \in Nat
  BY <1>1 DEF Backed
<1> QED
  BY <1>1, <1>2 DEF Backed, Follows

\* A user's call.
LEMMA CallsDelivery ==
    ASSUME "address" \in Mended, IInv, Secrets, Delivery, NEW c \in Clients, NEW w \in Workers,
           NEW p \in Clients, p # c \/ getNextMessage(c, w),
           \/ aliceAddContact(c, w, p)
           \/ bobAcceptContact(c, w, p)
           \/ doDeleteContact(c, w, p)
           \/ \E size \in Sizes :
                 \/ sendNewThread(c, w, p, size)
                 \/ \E id \in Draws : sendInConvo(c, w, id, p, size)
           \/ getNextMessage(c, w)
    PROVE  Delivery'
<1> DEFINE d == db[c]
           n == draws[c]
<1>0. /\ d \in Databases /\ n \in Nat
      /\ sent[c] \in Seq(Ciphertexts) /\ SenderOK(c, n, d, sent[c])
      /\ Homed(d)
  BY DeliveryTypes DEF Delivery, SendersOK, ReceiversOK, Received
<1>01. ASSUME Draw(c)
       PROVE  /\ draws'[c] = n + 1
              /\ \A q \in Clients \ {c} : draws'[q] = draws[q]
              /\ Fresh(c) \in Draws
              /\ d.convos[Fresh(c)] = Null
              /\ \A size \in Sizes : /\ Typed(c, size) \in Texts
                                     /\ Typed(c, size).by = c
                                     /\ Typed(c, size).no = n + 1
  <2>1. draws' = [draws EXCEPT ![c] = n + 1] /\ draws \in [Clients -> 0 .. MaxDraws]
    BY <1>01 DEF Draw, IInv, TypeOK
  <2>2. Fresh(c) \in Draws /\ \A size \in Sizes : Typed(c, size) \in Texts
    BY <1>01, DrawType DEF IInv
  <2>3. /\ Fresh(c).who = c /\ Fresh(c).no = n + 1
        /\ \A size \in Sizes : Typed(c, size).by = c /\ Typed(c, size).no = n + 1
    BY DEF Fresh, Typed
  <2>4. ~Drawn(draws, Fresh(c))
    BY <1>0, <2>3 DEF Drawn
  <2>5. d.convos[Fresh(c)] = Null
    BY <2>2, <2>4 DEF Secrets, DrawnOnly, RowsDrawn, DrawnRows
  <2> QED
    BY <2>1, <2>2, <2>3, <2>5
<1>02. \A i \in DOMAIN sent[c] : sent[c][i].text.no \in Nat
  <2>1. \A i \in DOMAIN sent[c] : sent[c][i] \in Ciphertexts
    BY <1>0
  <2>2. \A i \in DOMAIN sent[c] : sent[c][i].text \in Texts
    BY <2>1 DEF Ciphertexts
  <2> QED
    BY <2>2 DEF Texts
<1>03. ASSUME NEW m \in Nat, n <= m, NEW writes, NEW ask, NEW after,
              Begin(c, w, Call(writes, ask, after)),
              \A q \in Clients \ {c} : draws'[q] = draws[q], draws'[c] = m,
              StepsOK(c, d, writes, sent),
              \A i \in DOMAIN after : after[i].mine,
              Texting(ask) => /\ Backed(c, m, After4(d, writes), ask.content)
                              /\ \A i \in DOMAIN sent[c] : Follows(sent[c][i], ask.content)
       PROVE  Delivery'
  <2> DEFINE call == Call(writes, ask, after)
  <2>1. call.writes = writes /\ call.ask = ask /\ call.after = after
    BY DEF Call
  <2> HIDE DEF call, d, n
  <2>2. CallOK(c, m, d, call, sent)
    BY <1>03, <2>1 DEF CallOK
  <2>3. /\ Begin(c, w, call)
        /\ Texting(call.ask) => \A i \in DOMAIN sent[c] : Follows(sent[c][i], call.ask.content)
    BY <1>03, <2>1 DEF call
  <2> QED
    BY <1>03, <2>2, <2>3, BeginDelivery DEF d, n
<1>04. \A i \in DOMAIN <<>> : FALSE
  OBVIOUS
<1>1. CASE aliceAddContact(c, w, p)
  <2> DEFINE ct == FirstHandshakeMessage(Fresh(c))
             ask == H!SendMessage(p, Fresh(c), ct, "hex" \in Mended)
             st == addContact(p, Fresh(c))
  <2>1. Draw(c) /\ Begin(c, w, Call(<<st>>, ask, <<>>))
    BY <1>1 DEF aliceAddContact
  <2>2. st \in Statements
    BY <1>0, <1>01, <2>1, StatementsType
  <2>3. st.do \in ContactStatements
    BY DEF addContact, ContactStatements
  <2>4. ~Texting(ask)
    BY TextsAsked DEF FirstHandshakeMessage
  <2> HIDE DEF ask, st, d, n
  <2>5. StepsOK(c, d, <<st>>, sent)
    BY <1>0, <2>2, <2>3, StepsQuiet
  <2>6. draws'[c] = n + 1 /\ n + 1 \in Nat /\ n <= n + 1
    BY <1>0, <1>01, <2>1
  <2> QED
    BY <1>01, <1>03, <1>04, <2>1, <2>4, <2>5, <2>6
<1>2. CASE bobAcceptContact(c, w, p)
  <2> DEFINE blob == d.contacts[p].blob
             ts1 == ThreadState(blob.init, Fresh(c), "responder")
             ts2 == ThreadState(blob.init, Fresh(c), "initiator")
             st == finalizeContact(p, ts1, ts2)
             ct == SecondHandshakeMessage(blob, Fresh(c))
             ask == IF "forward" \in Mended
                    THEN H!SendMessage(p, Fresh(c), ct, TRUE) ELSE Null
  <2>1. Draw(c) /\ Begin(c, w, Call(<<st>>, ask, <<>>))
    BY <1>2 DEF bobAcceptContact
  <2>2. blob.init \in Draws
    <3>1. getStateContact(d, p) = "waitingToAccept" /\ acceptContact(blob)
      BY <1>2 DEF bobAcceptContact
    <3>2. blob \in Contents
      BY <1>0, <3>1, WaitingBlobs
    <3> QED
      BY <3>1, <3>2, ContentsKinds DEF acceptContact
  <2>3. ts1 \in ThreadStates /\ ts2 \in ThreadStates
    BY <1>01, <2>1, <2>2, KeysType
  <2>4. st \in Statements
    BY <1>0, <2>3, StatementsType
  <2>5. st.do \in ContactStatements
    BY DEF finalizeContact, ContactStatements
  <2>6. ~Texting(ask)
    BY TextsAsked DEF SecondHandshakeMessage
  <2> HIDE DEF ask, st, d, n
  <2>7. StepsOK(c, d, <<st>>, sent)
    BY <1>0, <2>4, <2>5, StepsQuiet
  <2>8. draws'[c] = n + 1 /\ n + 1 \in Nat /\ n <= n + 1
    BY <1>0, <1>01, <2>1
  <2> QED
    BY <1>01, <1>03, <1>04, <2>1, <2>6, <2>7, <2>8
<1>3. CASE doDeleteContact(c, w, p)
  <2> DEFINE st == deleteContact(p)
  <2>1. Begin(c, w, Call(<<st>>, Null, <<>>)) /\ UNCHANGED draws
    BY <1>3 DEF doDeleteContact
  <2>2. st \in Statements
    BY <1>0, StatementsType
  <2>3. st.do \in ContactStatements
    BY DEF deleteContact, ContactStatements
  <2> HIDE DEF st, d, n
  <2>4. StepsOK(c, d, <<st>>, sent)
    BY <1>0, <2>2, <2>3, StepsQuiet
  <2>5. draws'[c] = n /\ n <= n
    BY <1>0, <2>1 DEF n
  <2> QED
    BY <1>0, <1>03, <1>04, <2>1, <2>4, <2>5, TextsAsked
<1>4. ASSUME p # c, NEW size \in Sizes, sendNewThread(c, w, p, size) PROVE Delivery'
  <2> DEFINE id == Fresh(c)
             t1 == d.contacts[p].c1
             s1 == InitiatorThread(t1)
             s2 == ResponderThread(t1)
             text == Typed(c, size)
             writes == <<updateThreadRatchetStates(p, Ratchet(t1), Null),
                         createConvo(id, p, text, s1, s2),
                         updateSessionKeys(id, p, AfterAEAD(s1), Null)>>
             ct == encryptMessage(s1, id, c, p, text)
             ask == ToHub(id, ct)
  <2>1. /\ Draw(c) /\ Begin(c, w, Call(writes, ask, <<>>))
        /\ threadRatchetStatesReady(d, p)
    BY <1>4 DEF sendNewThread
  <2>2. /\ id \in Draws /\ d.convos[id] = Null /\ text \in Texts
        /\ text.by = c /\ text.no = n + 1 /\ draws'[c] = n + 1
        /\ n + 1 \in Nat /\ n <= n + 1 /\ text.no <= n + 1
        /\ t1 = d.contacts[p].c1 /\ s1 = InitiatorThread(t1) /\ s2 = ResponderThread(t1)
    BY <1>0, <1>01, <2>1
  <2>3. ct.text = text /\ ct.convo = id
    BY DEF encryptMessage
  <2>4. Texting(ask) => ask.content = ct
    BY TextsAsked
  <2> HIDE DEF d, n, id, text, t1, s1, s2
  <2>5. StepsOK(c, d, writes, sent) /\ Backed(c, n + 1, After4(d, writes), ct)
    BY <1>0, <1>4, <2>1, <2>2, SendsNewThread
  <2> HIDE DEF ct, ask, writes
  <2>6. \A i \in DOMAIN sent[c] : Follows(sent[c][i], ct)
    BY <1>0, <1>02, <2>2, <2>3, TypedLast
  <2> QED
    BY <1>01, <1>03, <1>04, <2>1, <2>2, <2>4, <2>5, <2>6
<1>5. ASSUME p # c, NEW size \in Sizes, NEW id \in Draws, sendInConvo(c, w, id, p, size)
      PROVE  Delivery'
  <2> DEFINE s1 == d.convos[id].c1
             text == Typed(c, size)
             writes == <<updateSessionKeys(id, p, AfterAEAD(s1), Null)>>
             ct == encryptMessage(s1, id, c, p, text)
             ask == ToHub(id, ct)
             after == IF "todo" \in Mended THEN <<storeMessage(id, TRUE, text)>> ELSE <<>>
  <2>1. /\ Draw(c) /\ Begin(c, w, Call(writes, ask, after))
        /\ d.convos[id] # Null /\ d.convos[id].peer = p
    BY <1>5 DEF sendInConvo, sessionKeysFound
  <2>2. /\ text \in Texts
        /\ text.by = c /\ text.no = n + 1 /\ draws'[c] = n + 1
        /\ n + 1 \in Nat /\ n <= n + 1 /\ text.no <= n + 1
        /\ s1 = d.convos[id].c1
    BY <1>0, <1>01, <2>1
  <2>3. ct.text = text /\ ct.convo = id /\ ct.key = s1
    BY DEF encryptMessage
  <2>4. Texting(ask) => ask.content = ct
    BY TextsAsked
  <2>5. \A i \in DOMAIN after : after[i].mine
    <3>1. PICK st : st = storeMessage(id, TRUE, text)
      OBVIOUS
    <3>2. st.mine
      <4>1. st.mine = (TRUE /\ "address" \in Mended)
        BY <3>1, Zenon DEF storeMessage
      <4> QED
        BY <4>1
    <3>3. after = IF "todo" \in Mended THEN <<st>> ELSE <<>>
      BY <3>1
    <3> HIDE DEF after
    <3> QED
      BY <3>2, <3>3
  <2> HIDE DEF d, n, s1, text, after
  <2>6. StepsOK(c, d, writes, sent) /\ Backed(c, n + 1, After4(d, writes), ct)
    BY <1>0, <1>5, <2>1, <2>2, SendsInConvo
  <2> HIDE DEF ct, ask, writes
  <2>7. \A i \in DOMAIN sent[c] : Follows(sent[c][i], ct)
    BY <1>0, <1>02, <2>2, <2>3, TypedLast
  <2> QED
    BY <1>01, <1>03, <2>1, <2>2, <2>4, <2>5, <2>6, <2>7
<1>6. CASE getNextMessage(c, w)
  <2>1. /\ Begin(c, w, Call(<<>>, H!GetNextMessage, <<>>))
        /\ UNCHANGED draws
    BY <1>6 DEF getNextMessage
  <2> HIDE DEF d, n
  <2>2. StepsOK(c, d, <<>>, sent)
    BY <1>0, StepsForms
  <2>3. draws'[c] = n /\ n <= n
    BY <1>0, <2>1 DEF n
  <2> QED
    BY <1>0, <1>03, <1>04, <2>1, <2>2, <2>3, TextsAsked
<1> QED
  BY <1>1, <1>2, <1>3, <1>4, <1>5, <1>6

\* The steps that are left after the first statement.
LEMMA StepsTail ==
    ASSUME NEW p, NEW S, NEW d, NEW ws \in Seq(Statements), ws # <<>>, Len(ws) <= 4,
           StepsOK(p, d, ws, S), NEW e, e = Executed(d, Head(ws))
    PROVE  /\ StepOK(p, d, e, S)
           /\ StepsOK(p, e, Tail(ws), S)
           /\ After4(e, Tail(ws)) = After4(d, ws)
<1>1. /\ After1(d, ws) = e
      /\ After1(e, Tail(ws)) = After2(d, ws)
      /\ After2(e, Tail(ws)) = After3(d, ws)
      /\ After3(e, Tail(ws)) = After4(d, ws)
      /\ After4(e, Tail(ws)) = After4(d, ws)
  BY AfterTail
<1>2. Homed(After4(d, ws))
  BY DEF StepsOK, StepOK
<1>3. StepOK(p, After4(d, ws), After4(d, ws), S)
  BY <1>2, StepsForms
<1> QED
  BY <1>1, <1>3 DEF StepsOK

\* A statement is executed.
LEMMA WriteDelivery ==
    ASSUME IInv, IInv', Secrets, Keys, Delivery,
           NEW c \in Clients, NEW w \in Workers, Write(c, w)
    PROVE  /\ Delivery'
           /\ StepOK(c, db[c], db'[c], sent)
           /\ \A q \in Clients \ {c} : db'[q] = db[q]
           /\ UNCHANGED sent
<1> DEFINE d == db[c]
           n == draws[c]
           call == op[c][w]
           new == op'[c][w]
           ws == call.writes
           e == Executed(d, Head(ws))
<1>0. /\ d \in Databases /\ db \in [Clients -> Databases]
      /\ op \in [Clients -> [Workers -> Calls]] /\ n \in Nat
      /\ call \in Calls /\ ws \in Seq(Statements) /\ ws # <<>>
      /\ sent \in [Clients -> Seq(Ciphertexts)]
      /\ UNCHANGED <<draws, hubConn, conn, pending, sent>>
  BY DeliveryTypes DEF IInv, TypeOK, Calls, Write
<1>1. /\ call # Idle
      /\ \A v \in Workers \ {w} : op[c][v] = Idle
  BY <1>0 DEF Secrets, OneCall, Idle, Call
<1>2. /\ Len(ws) <= 4
      /\ \A i \in DOMAIN ws : Advances(d, ws[i]) /\ ~Violates(d, ws[i])
  BY <1>1 DEF Keys, ClientKeys, CallsClean, Planned, Secrets, WritesSafe, SafeWrites
<1>3. Head(ws) \in Statements /\ Advances(d, Head(ws)) /\ ~Violates(d, Head(ws))
  <2>1. 1 \in DOMAIN ws /\ Head(ws) = ws[1] /\ Head(ws) \in Statements
    BY <1>0
  <2> QED
    BY <1>2, <2>1
<1>4. /\ \A q \in Clients \ {c} : db'[q] = db[q] /\ op'[q] = op[q]
      /\ db'[c] = e
      /\ \A v \in Workers \ {w} : op'[c][v] = Idle
      /\ new.writes = Tail(ws) /\ new.ask = call.ask /\ new.after = call.after
  <2>1. /\ op' = [op EXCEPT ![c][w].writes = Tail(ws)]
        /\ db' = [db EXCEPT ![c] = e]
    BY <1>3 DEF Write
  <2>2. /\ \A q \in Clients \ {c} : db'[q] = db[q] /\ op'[q] = op[q]
        /\ db'[c] = e
        /\ \A v \in Workers \ {w} : op'[c][v] = op[c][v]
        /\ new = [call EXCEPT !.writes = Tail(ws)]
    BY <1>0, <2>1
  <2>3. new.writes = Tail(ws) /\ new.ask = call.ask /\ new.after = call.after
    BY <1>0, <2>2 DEF Calls
  <2> QED
    BY <1>1, <2>2, <2>3
<1>5. e \in Databases /\ Kept(d, e)
  <2>1. e = Executed(d, Head(ws))
    OBVIOUS
  <2> HIDE DEF e, d, ws
  <2> QED
    BY <1>0, <1>3, <2>1, ExecutedType, StatementKeeps
<1>6. CallOK(c, n, d, call, sent)
  BY <1>1 DEF Delivery, CallsOK
<1>7. /\ StepOK(c, d, e, sent)
      /\ StepsOK(c, e, Tail(ws), sent)
      /\ After4(e, Tail(ws)) = After4(d, ws)
  <2>1. StepsOK(c, d, ws, sent) /\ e = Executed(d, Head(ws))
    BY <1>6 DEF CallOK
  <2> HIDE DEF e, d, ws
  <2> QED
    BY <1>0, <1>2, <2>1, StepsTail
<1> HIDE DEF e
<1>8. CallOK(c, n, e, new, sent)
  BY <1>4, <1>6, <1>7 DEF CallOK
<1>9. SenderOK(c, n, e, sent[c]) /\ Received(c, e, sent)
  <2>1. SenderOK(c, n, d, sent[c]) /\ Received(c, d, sent)
    BY DEF Delivery, SendersOK, ReceiversOK
  <2>2. sent[c] \in Seq(Ciphertexts) /\ n <= n
    BY <1>0
  <2> HIDE DEF n, d
  <2> QED
    BY <1>0, <1>5, <1>7, <2>1, <2>2, SenderKept, ReceivedStep
<1>10. SendersOK' /\ ReceiversOK'
  BY <1>0, <1>4, <1>9 DEF Delivery, SendersOK, ReceiversOK
<1>11. CallsOK'
  BY <1>0, <1>4, <1>8 DEF Delivery, CallsOK
<1>12. \A q \in Clients : CanAsk(q)' <=> CanAsk(q)
  BY <1>0 DEF CanAsk, Exchanging
<1>13. AsksFollow'
  <2>1. ~Texting(Idle.ask)
    BY DEF Idle, Call, Texting
  <2>2. \A q \in Clients, v \in Workers : op'[q][v].ask = op[q][v].ask \/ op'[q][v] = Idle
    BY <1>4
  <2> HIDE DEF new, call, n, d, ws
  <2>3. AsksFollow /\ UNCHANGED sent
    BY <1>0 DEF Delivery
  <2> QED
    BY <1>12, <2>1, <2>2, <2>3 DEF AsksFollow
<1>14. WiresOK'
  BY <1>0 DEF Delivery, WiresOK
<1> QED
  BY <1>0, <1>4, <1>7, <1>10, <1>11, <1>13, <1>14 DEF Delivery

\* What a request puts on the wire: a text behind all others.
LEMMA AskSends ==
    ASSUME IInv, Secrets, Delivery, NEW c \in Clients, NEW w \in Workers, Ask(c, w),
           NEW ask, ask = op[c][w].ask
    PROVE  \/ ~Texting(ask) /\ UNCHANGED sent
           \/ /\ Texting(ask)
              /\ ask.content \in Ciphertexts
              /\ sent' = [sent EXCEPT ![c] = Append(sent[c], ask.content)]
              /\ Backed(c, draws[c], db[c], ask.content)
              /\ \A i \in DOMAIN sent[c] : Follows(sent[c][i], ask.content)
<1>0. /\ op[c][w] \in Calls /\ ask \in Reqs /\ ask # Null /\ op[c][w].writes = <<>>
  BY DeliveryTypes DEF Calls, Ask, AtHub
<1>1. op[c][w] # Idle
  BY <1>0 DEF Idle, Call
<1>2. CASE ~Texting(ask)
  BY <1>0, <1>2 DEF Ask, Texting
<1>3. CASE Texting(ask)
  <2>1. sent' = [sent EXCEPT ![c] = Append(sent[c], ask.content)]
    BY <1>3 DEF Ask, Texting
  <2>2. ask.content \in Ciphertexts
    <3>1. ask.content \in Contents /\ ask.content.kind = "aead"
      BY <1>0, <1>3 DEF Reqs, H!Requests, Texting
    <3> QED
      BY <3>1, ContentsKinds
  <2>3. CanAsk(c)
    BY DEF Ask, CanAsk
  <2>4. \A i \in DOMAIN sent[c] : Follows(sent[c][i], ask.content)
    BY <1>3, <2>3 DEF Delivery, AsksFollow
  <2>5. Backed(c, draws[c], db[c], ask.content)
    <3>1. CallOK(c, draws[c], db[c], op[c][w], sent)
      BY <1>1 DEF Delivery, CallsOK
    <3>2. Backed(c, draws[c], After4(db[c], <<>>), ask.content)
      BY <1>0, <1>3, <3>1 DEF CallOK
    <3> QED
      BY <3>2, AfterNone
  <2> QED
    BY <1>3, <2>1, <2>2, <2>4, <2>5
<1> QED
  BY <1>2, <1>3

\* t is s and the element e behind it.
IsAppended(s, e, t) == t = Append(s, e)

\* The list with the new text.
LEMMA SenderAppends ==
    ASSUME NEW c, NEW n, NEW d, NEW s \in Seq(Ciphertexts), SenderOK(c, n, d, s),
           NEW ct \in Ciphertexts, Backed(c, n, d, ct),
           \A i \in DOMAIN s : Follows(s[i], ct),
           NEW t, IsAppended(s, ct, t)
    PROVE  /\ SenderOK(c, n, d, t)
           /\ \A i \in DOMAIN s : i \in DOMAIN t /\ t[i] = s[i]
           /\ \E i \in DOMAIN t : t[i] = ct
<1>1. /\ DOMAIN t = DOMAIN s \cup {Len(s) + 1} /\ t[Len(s) + 1] = ct
      /\ \A i \in DOMAIN s : t[i] = s[i] /\ i \in 1 .. Len(s)
      /\ Len(s) \in Nat
  BY DEF IsAppended
<1>2. \A i \in DOMAIN t : i \in DOMAIN s \/ i = Len(s) + 1
  BY <1>1
<1>3. \A i \in DOMAIN t : Backed(c, n, d, t[i])
  BY <1>1, <1>2 DEF SenderOK
<1>4. ASSUME NEW i \in DOMAIN t, NEW j \in DOMAIN t, i < j
      PROVE  Follows(t[i], t[j])
  <2>1. i \in DOMAIN s
    BY <1>1, <1>2, <1>4
  <2> QED
    BY <1>1, <1>2, <1>4, <2>1 DEF SenderOK
<1> QED
  BY <1>1, <1>3, <1>4 DEF SenderOK

\* The request goes out.
LEMMA AskDelivery ==
    ASSUME IInv, IInv', Secrets, Keys, Delivery,
           NEW c \in Clients, NEW w \in Workers, Ask(c, w)
    PROVE  Delivery'
<1> DEFINE ask == op[c][w].ask
<1>0. /\ op \in [Clients -> [Workers -> Calls]] /\ conn \in [Conns -> Wires]
      /\ hubConn \in [Clients -> Conns \cup {Null}]
      /\ sent \in [Clients -> Seq(Ciphertexts)]
      /\ pending \in [Clients -> Seq(Msgs)]
      /\ ask # Null
      /\ UNCHANGED <<db, op, draws, pending>>
  BY DEF IInv, TypeOK, Ask, AtHub
<1>1. \A v \in Workers \ {w} : op[c][v] = Idle
  BY <1>0 DEF Secrets, OneCall, Idle, Call
<1>2. PICK k \in Conns :
         /\ IF hubConn[c] = Null THEN conn[k].owner = Null
            ELSE k = hubConn[c] /\ conn[k].up
         /\ hubConn' = [hubConn EXCEPT ![c] = k]
         /\ conn' = [conn EXCEPT ![k] = [owner |-> c, up |-> TRUE, req |-> ask, res |-> Null]]
  BY DEF Ask
<1>3. /\ conn[k].owner \in {c, Null}
      /\ \A q \in Clients \ {c} : hubConn'[q] = hubConn[q]
      /\ \A l \in Conns \ {k} : conn'[l] = conn[l]
      /\ hubConn'[c] = k /\ conn'[k].req = ask /\ conn'[k].res = Null
  BY <1>0, <1>2 DEF Keys, ConnsOwned
<1>4. ~CanAsk(c)'
  <2>1. k # Null
    BY WireAssumption
  <2> QED
    BY <1>0, <1>3, <2>1 DEF CanAsk, Exchanging
<1>5. \A q \in Clients \ {c} : CanAsk(q)' <=> CanAsk(q)
  <2>1. ConnsOwned
    BY DEF Keys
  <2>2. \A q \in Clients : hubConn[q] \in Conns \cup {Null}
    BY <1>0
  <2> QED
    BY <1>3, <2>1, <2>2, OthersAsk
<1>6. /\ \A q \in Clients \ {c} : sent'[q] = sent[q]
      /\ SenderOK(c, draws[c], db[c], sent'[c])
      /\ \A i \in DOMAIN sent[c] : i \in DOMAIN sent'[c] /\ sent'[c][i] = sent[c][i]
      /\ ReqOK(sent', ask)
  <2>1. SenderOK(c, draws[c], db[c], sent[c]) /\ sent[c] \in Seq(Ciphertexts)
    BY <1>0 DEF Delivery, SendersOK
  <2> DEFINE a == ask
  <2>2. a = op[c][w].ask
    OBVIOUS
  <2> HIDE DEF a
  <2>3. \/ ~Texting(a) /\ UNCHANGED sent
        \/ /\ Texting(a)
           /\ a.content \in Ciphertexts
           /\ sent' = [sent EXCEPT ![c] = Append(sent[c], a.content)]
           /\ Backed(c, draws[c], db[c], a.content)
           /\ \A i \in DOMAIN sent[c] : Follows(sent[c][i], a.content)
    BY <2>2, AskSends
  <2>4. CASE ~Texting(a) /\ UNCHANGED sent
    BY <2>1, <2>2, <2>4 DEF ReqOK
  <2>5. CASE /\ Texting(a)
             /\ a.content \in Ciphertexts
             /\ sent' = [sent EXCEPT ![c] = Append(sent[c], a.content)]
             /\ Backed(c, draws[c], db[c], a.content)
             /\ \A i \in DOMAIN sent[c] : Follows(sent[c][i], a.content)
    <3>1. /\ \A q \in Clients \ {c} : sent'[q] = sent[q]
          /\ sent'[c] = Append(sent[c], a.content)
      BY <1>0, <2>5
    <3>2. /\ SenderOK(c, draws[c], db[c], sent'[c])
          /\ \A i \in DOMAIN sent[c] : i \in DOMAIN sent'[c] /\ sent'[c][i] = sent[c][i]
          /\ \E i \in DOMAIN sent'[c] : sent'[c][i] = a.content
      <4> DEFINE t == sent'[c]
                 s == sent[c]
                 n == draws[c]
                 d == db[c]
                 ct == a.content
      <4>1. /\ s \in Seq(Ciphertexts) /\ SenderOK(c, n, d, s) /\ ct \in Ciphertexts
            /\ Backed(c, n, d, ct) /\ IsAppended(s, ct, t)
            /\ \A i \in DOMAIN s : Follows(s[i], ct)
        BY <2>1, <2>5, <3>1 DEF IsAppended
      <4> HIDE DEF t, s, n, d, ct
      <4>2. /\ SenderOK(c, n, d, t)
            /\ \A i \in DOMAIN s : i \in DOMAIN t /\ t[i] = s[i]
            /\ \E i \in DOMAIN t : t[i] = ct
        BY <4>1, SenderAppends
      <4> QED
        BY <4>2 DEF t, s, n, d, ct
    <3>3. ReqOK(sent', a)
      BY <2>5, <3>2 DEF ReqOK, SentBy, Backed
    <3> QED
      BY <2>2, <3>1, <3>2, <3>3
  <2> QED
    BY <2>3, <2>4, <2>5
<1>7. Extends(sent, sent')
  BY <1>6 DEF Extends
<1>8. SendersOK'
  BY <1>0, <1>6 DEF Delivery, SendersOK
<1>9. ReceiversOK'
  <2>1. \A q \in Clients : Received(q, db[q], sent) /\ db[q] \in Databases
    BY DeliveryTypes DEF Delivery, ReceiversOK
  <2>2. \A q \in Clients : Received(q, db[q], sent')
    BY <1>7, <2>1, MoreSent
  <2> QED
    BY <1>0, <2>2 DEF ReceiversOK
<1>10. CallsOK'
  <2>1. \A q \in Clients, v \in Workers :
           op[q][v] # Idle => CallOK(q, draws[q], db[q], op[q][v], sent)
    BY DEF Delivery, CallsOK
  <2>2. \A q \in Clients, v \in Workers :
           op[q][v] # Idle => CallOK(q, draws[q], db[q], op[q][v], sent')
    BY <1>7, <2>1, MoreSent
  <2> QED
    BY <1>0, <2>2 DEF CallsOK
<1>11. AsksFollow'
  <2>1. AsksFollow
    BY DEF Delivery
  <2> QED
    BY <1>0, <1>4, <1>5, <1>6, <2>1 DEF AsksFollow
<1>12. WiresOK'
  <2>1. ASSUME NEW l \in Conns PROVE ReqOK(sent', conn'[l].req) /\ ResOK(sent', conn'[l].res)
    <3>1. CASE l = k
      BY <1>3, <1>6, <3>1 DEF ResOK
    <3>2. CASE l # k
      <4>1. conn[l].req \in Reqs \cup {Null} /\ conn[l].res \in Resps \cup {Null}
        BY <1>0 DEF Wires
      <4>2. ReqOK(sent, conn[l].req) /\ ResOK(sent, conn[l].res)
        BY DEF Delivery, WiresOK
      <4> QED
        BY <1>3, <1>7, <3>2, <4>1, <4>2, MoreSent
    <3> QED
      BY <3>1, <3>2
  <2>2. ASSUME NEW q \in Clients, NEW i \in DOMAIN pending[q]
        PROVE  MailOK(sent', pending[q][i].content)
    <3>1. pending[q] \in Seq(Msgs)
      BY <1>0
    <3>2. pending[q][i] \in Msgs
      BY <3>1
    <3>3. pending[q][i].content \in Contents
      BY <3>2 DEF Msgs, H!Messages
    <3>4. MailOK(sent, pending[q][i].content)
      BY DEF Delivery, WiresOK
    <3> QED
      BY <1>7, <3>3, <3>4, MoreSent
  <2> QED
    BY <1>0, <2>1, <2>2 DEF WiresOK
<1> QED
  BY <1>8, <1>9, <1>10, <1>11, <1>12 DEF Delivery

\* What is stored after the answer is the client's own.
LEMMA StoresMine ==
    ASSUME NEW c, NEW S, NEW d \in Databases, Homed(d),
           NEW ws \in Seq(Statements), Stores(ws), \A i \in DOMAIN ws : ws[i].mine
    PROVE  StepsOK(c, d, ws, S)
<1>1. CASE ws = <<>>
  BY <1>1, StepsForms
<1>2. CASE ws # <<>>
  <2>1. Len(ws) = 1 /\ 1 \in DOMAIN ws /\ ws[1] \in Statements
    <3>1. DOMAIN ws = 1 .. Len(ws) /\ Len(ws) \in Nat /\ Len(ws) # 0
      BY <1>2
    <3>2. Len(ws) \in DOMAIN ws
      BY <3>1
    <3>3. Len(ws) = 1
      BY <3>2 DEF Stores
    <3>4. 1 \in DOMAIN ws
      BY <3>2, <3>3
    <3>5. ws[1] \in Statements
      BY <3>4
    <3> QED
      BY <3>3, <3>4, <3>5
  <2>2. ws = <<ws[1]>>
    BY <2>1
  <2>3. ws[1].do = "storeMessage" /\ ws[1].mine
    BY <2>1 DEF Stores
  <2>4. StepsOK(c, d, <<ws[1]>>, S)
    BY <2>1, <2>3, StepsQuiet
  <2> QED
    BY <2>2, <2>4
<1> QED
  BY <1>1, <1>2

\* A call ends or goes on without a request.
LEMMA GoesOn ==
    ASSUME IInv, Delivery, NEW c \in Clients, UNCHANGED <<db, draws, sent, pending>>,
           \A q \in Clients \ {c} : op'[q] = op[q] /\ (CanAsk(q)' <=> CanAsk(q)),
           \A v \in Workers :
              /\ op'[c][v].ask = Null
              /\ op'[c][v] # Idle => CallOK(c, draws[c], db[c], op'[c][v], sent),
           \A k \in Conns : /\ conn'[k].req = conn[k].req
                            /\ conn'[k].res \in {conn[k].res, Null}
    PROVE  Delivery'
<1>1. SendersOK' /\ ReceiversOK'
  BY DEF Delivery, SendersOK, ReceiversOK
<1>2. CallsOK'
  <2>1. CallsOK
    BY DEF Delivery
  <2> QED
    BY <2>1 DEF CallsOK
<1>3. AsksFollow'
  <2>1. AsksFollow
    BY DEF Delivery
  <2>2. \A v \in Workers : ~Texting(op'[c][v].ask)
    BY TextsAsked
  <2> QED
    BY <2>1, <2>2 DEF AsksFollow
<1>4. WiresOK'
  BY DEF Delivery, WiresOK, ResOK
<1> QED
  BY <1>1, <1>2, <1>3, <1>4 DEF Delivery

\* The answer comes in, or the exchange fails, or the client is killed.
LEMMA EndDelivery ==
    ASSUME "roles" \in Mended, "title" \in Mended,
           IInv, Secrets, Keys, Delivery, NEW c \in Clients,
           \/ \E w \in Workers : Receive(c, w) \/ ConnError(c, w) \/ ConnReset(c, w)
           \/ Crash(c)
    PROVE  Delivery' /\ UNCHANGED <<db, sent>>
<1> DEFINE d == db[c]
           n == draws[c]
<1>0. /\ op \in [Clients -> [Workers -> Calls]] /\ conn \in [Conns -> Wires]
      /\ hubConn \in [Clients -> Conns \cup {Null}]
      /\ d \in Databases /\ n \in Nat
      /\ Received(c, d, sent)
  BY DeliveryTypes DEF Delivery, ReceiversOK
<1>1. Idle.ask = Null
  BY DEF Idle, Call
<1>2. ASSUME NEW w \in Workers, AtHub(c, w)
      PROVE  /\ op[c][w] # Idle
             /\ \A v \in Workers \ {w} : op[c][v] = Idle
  <2>1. op[c][w] # Idle
    BY <1>1, <1>2 DEF AtHub
  <2> QED
    BY <2>1 DEF Secrets, OneCall
<1>3. ASSUME UNCHANGED <<db, draws, conn, pending, sent>>,
             hubConn' = [hubConn EXCEPT ![c] = Null],
             \A q \in Clients \ {c} : op'[q] = op[q],
             \A w \in Workers : op'[c][w] = Idle
      PROVE  Delivery' /\ UNCHANGED <<db, sent>>
  <2>1. \A q \in Clients \ {c} : hubConn'[q] = hubConn[q]
    BY <1>0, <1>3
  <2>2. \A q \in Clients \ {c} : CanAsk(q)' <=> CanAsk(q)
    BY <1>3, <2>1 DEF CanAsk, Exchanging
  <2> QED
    BY <1>1, <1>3, <2>2, GoesOn
<1>4. ASSUME NEW w \in Workers, ConnError(c, w) \/ ConnReset(c, w)
      PROVE  Delivery' /\ UNCHANGED <<db, sent>>
  <2>1. /\ AtHub(c, w) /\ op' = [op EXCEPT ![c][w] = Idle]
        /\ hubConn' = [hubConn EXCEPT ![c] = Null]
        /\ UNCHANGED <<db, draws, conn, pending, sent>>
    BY <1>4 DEF ConnError, ConnReset, GiveUp
  <2>2. /\ \A q \in Clients \ {c} : op'[q] = op[q]
        /\ \A v \in Workers : op'[c][v] = Idle
    BY <1>0, <1>2, <2>1
  <2> QED
    BY <1>3, <2>1, <2>2
<1>5. CASE Crash(c)
  <2>1. /\ op' = [op EXCEPT ![c] = [w \in Workers |-> Idle]]
        /\ hubConn' = [hubConn EXCEPT ![c] = Null]
        /\ UNCHANGED <<db, draws, conn, pending, sent>>
    BY <1>5 DEF Crash
  <2>2. /\ \A q \in Clients \ {c} : op'[q] = op[q]
        /\ \A v \in Workers : op'[c][v] = Idle
    BY <1>0, <2>1
  <2> QED
    BY <1>3, <2>1, <2>2
<1>6. ASSUME NEW w \in Workers, Receive(c, w)
      PROVE  Delivery' /\ UNCHANGED <<db, sent>>
  <2> DEFINE k == hubConn[c]
             res == conn[k].res
             after == op[c][w].after
             ws == Dispatch(d, c, res.msg)
             new == op'[c][w]
  <2>1. /\ AtHub(c, w) /\ k # Null /\ k \in Conns /\ res # Null /\ res \in Resps
        /\ conn' = [conn EXCEPT ![k] = [conn[k] EXCEPT !.res = Null]]
        /\ UNCHANGED <<db, draws, hubConn, pending, sent>>
    BY <1>0, <1>6 DEF Receive, Exchanging, Wires
  <2>2. /\ op[c][w] # Idle /\ op[c][w] \in Calls
        /\ \A v \in Workers \ {w} : op[c][v] = Idle
    BY <1>0, <1>2, <2>1
  <2>3. op' = [op EXCEPT ![c][w] =
                  IF res.type = "success"
                  THEN IF res.ok THEN Call(after, Null, <<>>) ELSE Idle
                  ELSE IF res.msg = Null THEN Idle
                  ELSE Call(ws, Null, <<>>)]
    BY <1>6 DEF Receive
  <2>4. /\ \A q \in Clients \ {c} : op'[q] = op[q]
        /\ \A v \in Workers \ {w} : op'[c][v] = Idle
        /\ new = IF res.type = "success"
                 THEN IF res.ok THEN Call(after, Null, <<>>) ELSE Idle
                 ELSE IF res.msg = Null THEN Idle
                 ELSE Call(ws, Null, <<>>)
    BY <1>0, <2>2, <2>3
  <2>5. ASSUME NEW xs, StepsOK(c, d, xs, sent)
        PROVE  CallOK(c, n, d, Call(xs, Null, <<>>), sent) /\ Call(xs, Null, <<>>).ask = Null
    <3>1. /\ Call(xs, Null, <<>>).writes = xs /\ Call(xs, Null, <<>>).ask = Null
          /\ Call(xs, Null, <<>>).after = <<>>
      BY DEF Call
    <3> QED
      BY <2>5, <3>1, TextsAsked DEF CallOK
  <2>6. StepsOK(c, d, after, sent)
    <3>1. after \in Seq(Statements) /\ Stores(after)
      BY <2>2 DEF Calls, Secrets, AfterStores
    <3>2. \A i \in DOMAIN after : after[i].mine
      BY <2>2 DEF Delivery, CallsOK, CallOK
    <3> HIDE DEF d, after
    <3> QED
      BY <1>0, <3>1, <3>2, StoresMine DEF Received
  <2>7. ASSUME res.type # "success", res.msg # Null PROVE StepsOK(c, d, ws, sent)
    <3> DEFINE m == res.msg
    <3>1. m \in Msgs /\ res.type = "message"
      BY <2>1, <2>7 DEF Resps, H!Responses, Msgs
    <3>2. MailOK(sent, m.content)
      BY <2>1, <2>7, <3>1 DEF Delivery, WiresOK, ResOK
    <3> HIDE DEF d, m
    <3>3. StepsOK(c, d, Dispatch(d, c, m), sent)
      BY <1>0, <3>1, <3>2, SenderOrder, ReadsAny
    <3> QED
      BY <3>3 DEF m
  <2> HIDE DEF ws, after
  <2>8. new.ask = Null /\ (new # Idle => CallOK(c, n, d, new, sent))
    BY <1>1, <2>4, <2>5, <2>6, <2>7
  <2>9. /\ conn[k].owner = c /\ \A l \in Conns \ {k} : conn'[l] = conn[l]
        /\ conn'[k].req = conn[k].req /\ conn'[k].res = Null
    <3>1. conn[k].owner = c /\ conn[k] \in Wires
      BY <1>0, <2>1 DEF Keys, ConnsOwned
    <3>2. /\ [conn[k] EXCEPT !.res = Null].req = conn[k].req
          /\ [conn[k] EXCEPT !.res = Null].res = Null
      BY <3>1 DEF Wires
    <3> QED
      BY <1>0, <2>1, <3>1, <3>2
  <2>10. \A q \in Clients \ {c} : CanAsk(q)' <=> CanAsk(q)
    <3>1. ConnsOwned
      BY DEF Keys
    <3>2. \A q \in Clients : hubConn[q] \in Conns \cup {Null} /\ hubConn'[q] = hubConn[q]
      BY <1>0, <2>1
    <3> HIDE DEF k
    <3> QED
      BY <2>1, <2>9, <3>1, <3>2, OthersAsk
  <2>11. \A v \in Workers :
            /\ op'[c][v].ask = Null
            /\ op'[c][v] # Idle => CallOK(c, draws[c], db[c], op'[c][v], sent)
    BY <1>1, <2>4, <2>8
  <2>12. \A l \in Conns : /\ conn'[l].req = conn[l].req
                          /\ conn'[l].res \in {conn[l].res, Null}
    BY <2>9
  <2> QED
    BY <2>1, <2>4, <2>10, <2>11, <2>12, GoesOn
<1> QED
  BY <1>4, <1>5, <1>6

\* What is left of a mailbox, and what the hub answers, was sent.
LEMMA ServedMail ==
    ASSUME NEW S, NEW boxes \in [Clients -> Seq(Msgs)],
           \A q \in Clients : \A i \in DOMAIN boxes[q] : MailOK(S, boxes[q][i].content),
           NEW who \in Clients, NEW req \in Reqs, ReqOK(S, req), req # Null
    PROVE  /\ ResOK(S, H!Answer(boxes, who, req))
           /\ \A q \in Clients : \A i \in DOMAIN H!Served(boxes, who, req)[q] :
                 MailOK(S, H!Served(boxes, who, req)[q][i].content)
<1>0. boxes[who] \in Seq(Msgs)
  OBVIOUS
<1>1. CASE req.type = "SendMessage"
  <2>1. req.to \in Clients /\ req.convo \in Draws /\ req.content \in Contents
    BY <1>1 DEF Reqs, H!Requests
  <2> DEFINE m == [from |-> who, convo |-> req.convo, content |-> req.content]
             new == H!Served(boxes, who, req)
  <2>2. MailOK(S, m.content) /\ m \in Msgs
    BY <1>1, <2>1 DEF ReqOK, Texting, MailOK, Msgs, H!Messages
  <2>3. new = boxes \/ new = [boxes EXCEPT ![req.to] = Append(boxes[req.to], m)]
    BY <1>1 DEF H!Served, H!handleSendMessage
  <2>4. ResOK(S, H!Answer(boxes, who, req))
    BY <1>1 DEF H!Answer, ResOK
  <2> HIDE DEF m, new
  <2>5. ASSUME NEW q \in Clients, NEW i \in DOMAIN new[q]
        PROVE  MailOK(S, new[q][i].content)
    <3>1. CASE new[q] = boxes[q]
      BY <3>1, <2>5
    <3>2. CASE new[q] = Append(boxes[q], m)
      <4>1. boxes[q] \in Seq(Msgs)
        OBVIOUS
      <4>2. \/ i \in DOMAIN boxes[q] /\ new[q][i] = boxes[q][i]
            \/ new[q][i] = m
        BY <2>5, <3>2, <4>1
      <4> QED
        BY <2>2, <4>2
    <3> QED
      BY <2>1, <2>3, <3>1, <3>2
  <2> QED
    BY <2>4, <2>5 DEF new
<1>2. CASE req.type # "SendMessage"
  <2> DEFINE new == H!Served(boxes, who, req)
             box == boxes[who]
  <2>1. \/ new = boxes
        \/ box # <<>> /\ new = [boxes EXCEPT ![who] = Tail(box)]
    BY <1>2 DEF H!Served, H!handleGetNextMessage
  <2>2. ResOK(S, H!Answer(boxes, who, req))
    <3>1. box # <<>> => MailOK(S, Head(box).content)
      <4>1. box # <<>> => 1 \in DOMAIN box /\ Head(box) = box[1]
        BY <1>0
      <4> QED
        BY <4>1
    <3>2. H!Answer(boxes, who, req).msg = IF box = <<>> THEN Null ELSE Head(box)
      BY <1>2 DEF H!Answer
    <3> QED
      BY <3>1, <3>2 DEF ResOK
  <2> HIDE DEF new
  <2>3. ASSUME NEW q \in Clients, NEW i \in DOMAIN new[q]
        PROVE  MailOK(S, new[q][i].content)
    <3>1. CASE new[q] = boxes[q]
      BY <3>1, <2>3
    <3>2. CASE boxes[q] # <<>> /\ new[q] = Tail(boxes[q])
      <4>1. boxes[q] \in Seq(Msgs)
        OBVIOUS
      <4>2. i + 1 \in DOMAIN boxes[q] /\ new[q][i] = boxes[q][i + 1]
        BY <2>3, <3>2, <4>1
      <4> QED
        BY <4>2
    <3> QED
      BY <2>1, <3>1, <3>2
  <2> QED
    BY <2>2, <2>3 DEF new
<1> QED
  BY <1>1, <1>2

\* A step of the hub.
LEMMA HubDelivery ==
    ASSUME IInv, Keys, Delivery,
           \/ \E k \in Conns : handleClient(k) \/ hangUp(k)
           \/ hubRestart
    PROVE  Delivery' /\ UNCHANGED <<db, sent>>
<1>0. /\ conn \in [Conns -> Wires] /\ hubConn \in [Clients -> Conns \cup {Null}]
      /\ pending \in [Clients -> Seq(Msgs)]
      /\ UNCHANGED <<db, op, draws, hubConn, sent>>
  BY DEF IInv, TypeOK, handleClient, hangUp, hubRestart
<1>01. /\ \A k \in Conns : ReqOK(sent, conn[k].req) /\ ResOK(sent, conn[k].res)
       /\ \A c \in Clients : \A i \in DOMAIN pending[c] : MailOK(sent, pending[c][i].content)
  BY DEF Delivery, WiresOK
<1>02. ReqOK(sent, Null) /\ ResOK(sent, Null)
  BY DEF ReqOK, ResOK, Texting
<1>1. ASSUME \A c \in Clients : hubConn[c] # Null =>
                LET k == hubConn[c] IN
                \/ conn'[k] = conn[k]
                \/ ~conn'[k].up
                \/ conn'[k].res # Null,
             WiresOK'
      PROVE  Delivery' /\ UNCHANGED <<db, sent>>
  <2>1. \A c \in Clients : CanAsk(c)' => CanAsk(c)
    BY <1>0, <1>1 DEF CanAsk, Exchanging
  <2>2. SendersOK' /\ ReceiversOK' /\ CallsOK'
    BY <1>0 DEF Delivery, SendersOK, ReceiversOK, CallsOK
  <2>3. AsksFollow'
    BY <1>0, <2>1 DEF Delivery, AsksFollow
  <2> QED
    BY <1>0, <1>1, <2>2, <2>3 DEF Delivery
<1>2. ASSUME NEW k \in Conns, handleClient(k) PROVE Delivery' /\ UNCHANGED <<db, sent>>
  <2> DEFINE who == conn[k].owner
             req == conn[k].req
             res == H!Answer(pending, who, req)
             new == [conn[k] EXCEPT !.req = Null, !.res = res]
  <2>1. conn' = [conn EXCEPT ![k] = new] /\ pending' = H!Served(pending, who, req)
    BY <1>2 DEF handleClient
  <2>2. conn'[k] = new /\ \A l \in Conns \ {k} : conn'[l] = conn[l]
    BY <1>0, <2>1
  <2>3. who \in Clients /\ req \in Reqs /\ req # Null
    BY <1>0, <1>2 DEF handleClient, IInv, RequestsOwned, Wires
  <2>4. res \in Resps /\ res # Null
    BY <2>3, AnswerType, WireAssumption
  <2>5. new.req = Null /\ new.res = res
    BY <1>0 DEF Wires
  <2>6. ReqOK(sent, req)
    BY <1>01
  <2> HIDE DEF who, req
  <2>7. /\ ResOK(sent, H!Answer(pending, who, req))
        /\ \A q \in Clients : \A i \in DOMAIN H!Served(pending, who, req)[q] :
              MailOK(sent, H!Served(pending, who, req)[q][i].content)
    BY <1>0, <1>01, <2>3, <2>6, ServedMail
  <2>8. ResOK(sent, res)
    BY <2>7
  <2> HIDE DEF new, res
  <2>9. \A q \in Clients : \A i \in DOMAIN pending'[q] : MailOK(sent, pending'[q][i].content)
    BY <2>1, <2>7
  <2>10. WiresOK'
    BY <1>0, <1>01, <1>02, <2>2, <2>5, <2>8, <2>9 DEF WiresOK
  <2> QED
    BY <1>0, <1>1, <2>2, <2>4, <2>5, <2>10
<1>3. ASSUME NEW k \in Conns, hangUp(k) PROVE Delivery' /\ UNCHANGED <<db, sent>>
  <2>1. /\ conn' = [conn EXCEPT ![k] = NoConn] /\ UNCHANGED pending
        /\ conn[k].owner # Null /\ hubConn[conn[k].owner] # k
    BY <1>3 DEF hangUp
  <2>2. \A c \in Clients : hubConn[c] # Null => hubConn[c] # k /\ hubConn[c] \in Conns
    BY <1>0, <2>1 DEF Keys, ConnsOwned
  <2>3. \A l \in Conns : conn'[l] = conn[l] \/ (conn'[l].req = Null /\ conn'[l].res = Null)
    BY <1>0, <2>1 DEF NoConn
  <2>4. WiresOK'
    BY <1>0, <1>01, <1>02, <2>1, <2>3 DEF WiresOK
  <2> QED
    BY <1>0, <1>1, <2>1, <2>2, <2>4
<1>4. CASE hubRestart
  <2>1. /\ conn' = [k \in Conns |-> [conn[k] EXCEPT !.up = FALSE, !.req = Null]]
        /\ pending' = [c \in Clients |-> <<>>]
    BY <1>4 DEF hubRestart
  <2>2. \A k \in Conns : ~conn'[k].up /\ conn'[k].req = Null /\ conn'[k].res = conn[k].res
    BY <1>0, <2>1 DEF Wires
  <2>3. \A c \in Clients : \A i \in DOMAIN pending'[c] : FALSE
    <3>1. \A c \in Clients : pending'[c] = <<>>
      BY <2>1
    <3>2. \A i \in DOMAIN <<>> : FALSE
      OBVIOUS
    <3> QED
      BY <3>1, <3>2
  <2>4. WiresOK'
    BY <1>0, <1>01, <1>02, <2>2, <2>3 DEF WiresOK
  <2> QED
    BY <1>0, <1>1, <2>2, <2>4
<1> QED
  BY <1>2, <1>3, <1>4

-----------------------------------------------------------------------------
(* Sasayaki implements Conversations *)

\* At the start nothing was sent and nothing is shown.
LEMMA InitDelivery ==
    ASSUME Init PROVE Delivery
<1>0. /\ \A i \in DOMAIN <<>> : FALSE
      /\ \A c \in Clients : /\ sent[c] = <<>> /\ pending[c] = <<>>
                            /\ db[c] = EmptyDatabase
                            /\ \A w \in Workers : op[c][w] = Idle
      /\ \A k \in Conns : conn[k].req = Null /\ conn[k].res = Null
  BY DEF Init, NoConn
<1>1. SendersOK
  BY <1>0 DEF SendersOK, SenderOK
<1>2. ReceiversOK
  <2>1. /\ EmptyDatabase.messages = <<>>
        /\ \A x \in Draws : EmptyDatabase.convos[x] = Null
    BY DEF EmptyDatabase
  <2>2. \A c \in Clients : Received(c, EmptyDatabase, sent)
    BY <1>0, <2>1 DEF Received, Homed
  <2> QED
    BY <1>0, <2>2 DEF ReceiversOK
<1>3. CallsOK
  BY <1>0 DEF CallsOK
<1>4. AsksFollow
  BY <1>0 DEF AsksFollow
<1>5. WiresOK
  BY <1>0 DEF WiresOK, ReqOK, ResOK, Texting
<1> QED
  BY <1>1, <1>2, <1>3, <1>4, <1>5 DEF Delivery

\* The invariant.
LEMMA DeliveryInvariant ==
    ASSUME "roles" \in Mended, "title" \in Mended, "address" \in Mended
    PROVE  Spec => []Delivery
<1>1. Init => Delivery
  BY InitDelivery
<1>2. IInv /\ IInv' /\ Secrets /\ Keys /\ Delivery /\ [Next]_vars => Delivery'
  <2> SUFFICES ASSUME IInv, IInv', Secrets, Keys, Delivery, [Next]_vars PROVE Delivery'
    OBVIOUS
  <2>1. CASE Next
    <3>1. ASSUME NEW c \in Clients, NEW w \in Workers, getNextMessage(c, w) PROVE Delivery'
      BY <3>1, CallsDelivery
    <3>2. ASSUME NEW c \in Clients, NEW w \in Workers, NEW p \in Clients \ {c},
                 \/ aliceAddContact(c, w, p)
                 \/ bobAcceptContact(c, w, p)
                 \/ doDeleteContact(c, w, p)
                 \/ \E size \in Sizes :
                       \/ sendNewThread(c, w, p, size)
                       \/ \E id \in Draws : sendInConvo(c, w, id, p, size)
          PROVE  Delivery'
      BY <3>2, CallsDelivery
    <3> QED
      BY <2>1, <3>1, <3>2, WriteDelivery, AskDelivery, EndDelivery, HubDelivery DEF Next
  <2>2. CASE UNCHANGED vars
    BY <2>2 DEF vars, Delivery, SendersOK, ReceiversOK, CallsOK, AsksFollow, WiresOK,
                CanAsk, Exchanging
  <2> QED
    BY <2>1, <2>2
<1> QED
  BY <1>1, <1>2, TypeInvariant, SecretsInvariant, KeysInvariant, PTL DEF Spec

\* The texts among the ciphertexts of one client that went to q in x.
TypedIn(cts, x, q) ==
    TextsAt(cts, {i \in DOMAIN cts : cts[i].convo = x /\ cts[i].to = q})

\* What a link's two ends hold.
LEMMA LinkEnds ==
    ASSUME NEW l \in Links
    PROVE  /\ typedOnLinks[l] = TypedIn(sent[l.from], l.convo, l.to)
           /\ typedOnLinks'[l] = TypedIn(sent'[l.from], l.convo, l.to)
           /\ shownOnLinks[l] = ShownIn(db[l.to], l.from, l.convo)
           /\ shownOnLinks'[l] = ShownIn(db'[l.to], l.from, l.convo)
<1>1. typedOnLinks[l] = typedOn(l) /\ shownOnLinks[l] = shownOn(l)
  BY DEF typedOnLinks, shownOnLinks
<1>2. typedOnLinks'[l] = typedOn(l)' /\ shownOnLinks'[l] = shownOn(l)'
  BY DEF typedOnLinks, shownOnLinks
<1>3. /\ typedOn(l) = TypedIn(sent[l.from], l.convo, l.to)
      /\ typedOn(l)' = TypedIn(sent'[l.from], l.convo, l.to)
  BY DEF typedOn, TypedIn
<1>4. /\ shownOn(l) = ShownIn(db[l.to], l.from, l.convo)
      /\ shownOn(l)' = ShownIn(db'[l.to], l.from, l.convo)
  BY DEF shownOn, ShownIn, TitleIn, TheirsIn
<1> QED
  BY <1>1, <1>2, <1>3, <1>4

\* The sequences of two instants are equal if they are equal on every link.
LEMMA SameOnLinks ==
    /\ (\A l \in Links : typedOnLinks'[l] = typedOnLinks[l]) => UNCHANGED typedOnLinks
    /\ (\A l \in Links : shownOnLinks'[l] = shownOnLinks[l]) => UNCHANGED shownOnLinks
<1>1. (\A l \in Links : typedOnLinks'[l] = typedOnLinks[l]) => UNCHANGED typedOnLinks
  <2>1. \A l \in Links : typedOnLinks'[l] = typedOn(l)' /\ typedOnLinks[l] = typedOn(l)
    BY DEF typedOnLinks
  <2>2. (\A l \in Links : typedOn(l)' = typedOn(l)) => UNCHANGED typedOnLinks
    BY DEF typedOnLinks
  <2> QED
    BY <2>1, <2>2
<1>2. (\A l \in Links : shownOnLinks'[l] = shownOnLinks[l]) => UNCHANGED shownOnLinks
  <2>1. \A l \in Links : shownOnLinks'[l] = shownOn(l)' /\ shownOnLinks[l] = shownOn(l)
    BY DEF shownOnLinks
  <2>2. (\A l \in Links : shownOn(l)' = shownOn(l)) => UNCHANGED shownOnLinks
    BY DEF shownOnLinks
  <2> QED
    BY <2>1, <2>2
<1> QED
  BY <1>1, <1>2

\* The list of a link when a ciphertext goes out.
LEMMA TypedAppend ==
    ASSUME NEW cts \in Seq(Ciphertexts), NEW ct \in Ciphertexts, NEW x, NEW q,
           NEW s, IsAppended(cts, ct, s)
    PROVE  TypedIn(s, x, q) = IF ct.convo = x /\ ct.to = q
                              THEN Append(TypedIn(cts, x, q), ct.text)
                              ELSE TypedIn(cts, x, q)
<1> DEFINE I == {i \in DOMAIN cts : cts[i].convo = x /\ cts[i].to = q}
           J == {i \in DOMAIN s : s[i].convo = x /\ s[i].to = q}
<1>1. /\ s = Append(cts, ct)
      /\ DOMAIN s = DOMAIN cts \cup {Len(cts) + 1} /\ s[Len(cts) + 1] = ct
      /\ \A i \in DOMAIN cts : s[i] = cts[i]
  BY DEF IsAppended
<1>2. \A i \in DOMAIN cts : i \in I <=> i \in J
  BY <1>1
<1>3. Len(cts) + 1 \in J <=> ct.convo = x /\ ct.to = q
  BY <1>1
<1>4. TypedIn(cts, x, q) = TextsAt(cts, I) /\ TypedIn(s, x, q) = TextsAt(s, J)
  BY DEF TypedIn
<1> HIDE DEF I, J
<1>5. TextsAt(Append(cts, ct), J) =
         IF Len(cts) + 1 \in J THEN Append(TextsAt(cts, I), ct.text) ELSE TextsAt(cts, I)
  BY <1>2, TextsAtAppend
<1> QED
  BY <1>1, <1>3, <1>4, <1>5

\* The texts of a link are those of the client's ciphertexts, in order.
LEMMA TypedOrder ==
    ASSUME NEW c, NEW n, NEW d, NEW cts \in Seq(Ciphertexts), SenderOK(c, n, d, cts),
           NEW x, NEW q
    PROVE  /\ TypedIn(cts, x, q) \in Seq(Texts)
           /\ \A k \in DOMAIN TypedIn(cts, x, q) :
                 \E i \in DOMAIN cts : TypedIn(cts, x, q)[k] = cts[i].text
           /\ \A i \in DOMAIN cts : cts[i].convo = x /\ cts[i].to = q =>
                 \E k \in DOMAIN TypedIn(cts, x, q) : TypedIn(cts, x, q)[k] = cts[i].text
           /\ \A k, l \in DOMAIN TypedIn(cts, x, q) :
                 k < l => TypedIn(cts, x, q)[k].no < TypedIn(cts, x, q)[l].no
<1> DEFINE I == {i \in DOMAIN cts : cts[i].convo = x /\ cts[i].to = q}
           T == TypedIn(cts, x, q)
<1>1. T = TextsAt(cts, I)
  BY DEF TypedIn
<1>2. \A e \in Ciphertexts : e.text \in Texts
  BY DEF Ciphertexts
<1>3. \A i, j \in DOMAIN cts : i < j => cts[i].text.no < cts[j].text.no
  BY DEF SenderOK, Follows
<1>4. \A i \in DOMAIN cts : cts[i].convo = x /\ cts[i].to = q => i \in I
  OBVIOUS
<1> HIDE DEF I, T
<1>5. /\ TextsAt(cts, I) \in Seq(Texts)
      /\ \A k \in DOMAIN TextsAt(cts, I) :
            \E i \in DOMAIN cts : i \in I /\ TextsAt(cts, I)[k] = cts[i].text
      /\ \A i \in DOMAIN cts : i \in I =>
            \E k \in DOMAIN TextsAt(cts, I) : TextsAt(cts, I)[k] = cts[i].text
      /\ (\A i, j \in DOMAIN cts :
             i \in I /\ j \in I /\ i < j => cts[i].text.no < cts[j].text.no)
         => \A k, l \in DOMAIN TextsAt(cts, I) :
               k < l => TextsAt(cts, I)[k].no < TextsAt(cts, I)[l].no
  BY <1>2, TextsAtElements
<1>6. /\ T \in Seq(Texts)
      /\ \A k \in DOMAIN T : \E i \in DOMAIN cts : T[k] = cts[i].text
      /\ \A i \in DOMAIN cts : i \in I => \E k \in DOMAIN T : T[k] = cts[i].text
  BY <1>1, <1>5
<1>7. \A k, l \in DOMAIN T : k < l => T[k].no < T[l].no
  BY <1>1, <1>3, <1>5
<1> QED
  BY <1>4, <1>6, <1>7 DEF T

\* A text that goes out is typed on its link.
LEMMA SendsOnLink ==
    ASSUME IInv, Delivery, NEW c \in Clients, NEW ct \in Ciphertexts,
           sent' = [sent EXCEPT ![c] = Append(sent[c], ct)], UNCHANGED db,
           Backed(c, draws[c], db[c], ct),
           \A i \in DOMAIN sent[c] : Follows(sent[c][i], ct)
    PROVE  \E l \in Links, t \in Texts : Lossy!Type(l, t)
<1> DEFINE l == [convo |-> ct.convo, from |-> c, to |-> ct.to]
           t == ct.text
           cts == sent[c]
           s == sent'[c]
<1>1. /\ ct.from = c /\ ct.to # c /\ ct.convo \in Draws /\ ct.to \in Clients /\ t \in Texts
      /\ cts \in Seq(Ciphertexts) /\ SenderOK(c, draws[c], db[c], cts)
      /\ sent \in [Clients -> Seq(Ciphertexts)]
  BY DeliveryTypes DEF Backed, Ciphertexts, Delivery, SendersOK, IInv, TypeOK
<1>2. l \in Links /\ l.from = c /\ l.to = ct.to /\ l.convo = ct.convo
  BY <1>1 DEF Links
<1>3. IsAppended(cts, ct, s) /\ \A q \in Clients \ {c} : sent'[q] = sent[q]
  BY <1>1 DEF IsAppended
<1>4. \A m \in Links : m # l => m.from # c \/ m.convo # ct.convo \/ m.to # ct.to
  BY DEF Links
<1> HIDE DEF l, t, cts, s
<1>5. \A x, q : TypedIn(s, x, q) = IF ct.convo = x /\ ct.to = q
                                   THEN Append(TypedIn(cts, x, q), ct.text)
                                   ELSE TypedIn(cts, x, q)
  BY <1>1, <1>3, TypedAppend
<1>6. typedOnLinks'[l] = Append(typedOnLinks[l], t)
  <2>1. typedOnLinks'[l] = TypedIn(s, ct.convo, ct.to)
    BY <1>2, LinkEnds DEF s
  <2>2. typedOnLinks[l] = TypedIn(cts, ct.convo, ct.to)
    BY <1>2, LinkEnds DEF cts
  <2> QED
    BY <1>5, <2>1, <2>2 DEF t
<1>7. ASSUME NEW m \in Links, m # l PROVE typedOnLinks'[m] = typedOnLinks[m]
  <2>1. CASE m.from # c
    <3>1. m.from \in Clients \ {c}
      BY <2>1 DEF Links
    <3> QED
      BY <1>3, <3>1, LinkEnds
  <2>2. CASE m.from = c
    BY <1>4, <1>5, <1>7, <2>2, LinkEnds DEF cts, s
  <2> QED
    BY <2>1, <2>2
<1>8. typedOnLinks' = [typedOnLinks EXCEPT ![l] = Append(typedOnLinks[l], t)]
  <2>1. typedOnLinks = [m \in Links |-> typedOnLinks[m]]
    BY DEF typedOnLinks
  <2>2. typedOnLinks' = [m \in Links |-> typedOnLinks'[m]]
    BY DEF typedOnLinks
  <2> QED
    BY <1>2, <1>6, <1>7, <2>1, <2>2
<1>9. UNCHANGED shownOnLinks
  BY LinkEnds, SameOnLinks
<1>10. ~Lossy!Occurs(t, typedOnLinks[l])
  <2>1. typedOnLinks[l] = TypedIn(cts, ct.convo, ct.to)
    BY <1>2, LinkEnds DEF cts
  <2> DEFINE T == TypedIn(cts, ct.convo, ct.to)
  <2>2. \A k \in DOMAIN T : \E i \in DOMAIN cts : T[k] = cts[i].text
    BY <1>1, TypedOrder
  <2>3. \A i \in DOMAIN cts : cts[i].text.no < t.no
    BY DEF Follows, t, cts
  <2>4. t.no \in Nat
    BY <1>1 DEF Texts
  <2> HIDE DEF T
  <2>5. \A k \in DOMAIN T : T[k] # t
    BY <2>2, <2>3, <2>4
  <2> QED
    BY <2>1, <2>5 DEF Lossy!Occurs, T
<1> QED
  BY <1>1, <1>2, <1>8, <1>9, <1>10 DEF Lossy!Type

\* A statement that shows a text shows one of its link, behind the others.
LEMMA ShowsOnLink ==
    ASSUME IInv, Delivery, NEW p \in Clients, UNCHANGED sent,
           \A q \in Clients \ {p} : db'[q] = db[q],
           NEW q \in Clients, NEW x \in Draws, NEW t \in Texts,
           Shows(p, db[p], db'[p], q, x, t, sent)
    PROVE  \E l \in Links : \E n \in DOMAIN typedOnLinks[l] : Lossy!Show(l, n)
<1> DEFINE l == [convo |-> x, from |-> q, to |-> p]
           cts == sent[q]
           T == TypedIn(cts, x, p)
           before == ShownIn(db[p], q, x)
<1>1. PICK i \in DOMAIN cts : cts[i].convo = x /\ cts[i].to = p /\ cts[i].text = t
  BY DEF Shows, Reached
<1>2. cts \in Seq(Ciphertexts) /\ SenderOK(q, draws[q], db[q], cts)
  BY DeliveryTypes DEF Delivery, SendersOK
<1>3. q # p
  BY <1>1, <1>2 DEF SenderOK, Backed
<1>4. l \in Links /\ l.from = q /\ l.to = p /\ l.convo = x
  BY <1>3 DEF Links
<1>5. /\ typedOnLinks[l] = T /\ shownOnLinks[l] = before
      /\ shownOnLinks'[l] = ShownIn(db'[p], q, x)
  BY <1>4, LinkEnds
<1>6. ASSUME NEW m \in Links, m # l PROVE shownOnLinks'[m] = shownOnLinks[m]
  <2>1. m.from \in Clients /\ m.to \in Clients /\ m.convo \in Draws
    BY DEF Links
  <2>2. CASE m.to # p
    <3>1. db'[m.to] = db[m.to]
      BY <2>1, <2>2
    <3> QED
      BY <3>1, LinkEnds
  <2>3. CASE m.to = p
    <3>1. m.from # q \/ m.convo # x
      BY <1>6, <2>3 DEF Links
    <3>2. ShownIn(db'[p], m.from, m.convo) = ShownIn(db[p], m.from, m.convo)
      BY <2>1, <3>1 DEF Shows
    <3> QED
      BY <2>3, <3>2, LinkEnds
  <2> QED
    BY <2>2, <2>3
<1> HIDE DEF l, cts, before
<1>7. /\ T \in Seq(Texts)
      /\ \A k, j \in DOMAIN T : k < j => T[k].no < T[j].no
      /\ \E k \in DOMAIN T : T[k] = t
  BY <1>1, <1>2, TypedOrder
<1> HIDE DEF T
<1>8. PICK n \in DOMAIN T : T[n] = t
  BY <1>7
<1>9. shownOnLinks'[l] = Append(shownOnLinks[l], typedOnLinks[l][n])
  BY <1>5, <1>8 DEF Shows, before
<1>10. shownOnLinks' = [shownOnLinks EXCEPT ![l] = Append(shownOnLinks[l], typedOnLinks[l][n])]
  <2>1. shownOnLinks = [m \in Links |-> shownOnLinks[m]]
    BY DEF shownOnLinks
  <2>2. shownOnLinks' = [m \in Links |-> shownOnLinks'[m]]
    BY DEF shownOnLinks
  <2> QED
    BY <1>4, <1>6, <1>9, <2>1, <2>2
<1>11. UNCHANGED typedOnLinks
  BY LinkEnds, SameOnLinks
<1>12. ASSUME NEW j \in n .. Len(T) PROVE ~Lossy!Occurs(T[j], before)
  <2>1. DOMAIN T = 1 .. Len(T) /\ Len(T) \in Nat /\ n \in Nat
    BY <1>7
  <2>2. j \in DOMAIN T /\ (j = n \/ n < j)
    BY <2>1
  <2>3. T[j] \in Texts
    BY <1>7, <2>2
  <2>4. T[j].no \in Nat /\ t.no \in Nat
    BY <2>3 DEF Texts
  <2>5. t.no <= T[j].no
    BY <1>7, <1>8, <2>2, <2>4
  <2>6. \A k \in DOMAIN before : before[k].no < t.no
    BY DEF Shows, before
  <2>7. before \in Seq(Texts)
    BY DeliveryTypes, ShownType DEF before
  <2>8. \A k \in DOMAIN before : before[k].no \in Nat
    <3>1. \A k \in DOMAIN before : before[k] \in Texts
      BY <2>7
    <3> QED
      BY <3>1 DEF Texts
  <2>9. \A k \in DOMAIN before : before[k] # T[j]
    BY <2>4, <2>5, <2>6, <2>8
  <2> QED
    BY <2>9 DEF Lossy!Occurs
<1>13. \A j \in n .. Len(typedOnLinks[l]) : ~Lossy!Occurs(typedOnLinks[l][j], shownOnLinks[l])
  BY <1>5, <1>12
<1>14. n \in DOMAIN typedOnLinks[l]
  BY <1>5
<1> QED
  BY <1>4, <1>10, <1>11, <1>13, <1>14 DEF Lossy!Show

\* A step of Sasayaki types one text, or shows one, or does neither.
LEMMA StepShows ==
    ASSUME "roles" \in Mended, "title" \in Mended,
           IInv, IInv', Secrets, Keys, Delivery, [Next]_vars
    PROVE  [Lossy!Next]_<<typedOnLinks, shownOnLinks>>
<1>1. ASSUME \/ UNCHANGED <<typedOnLinks, shownOnLinks>>
             \/ \E l \in Links, t \in Texts : Lossy!Type(l, t)
             \/ \E l \in Links : \E n \in DOMAIN typedOnLinks[l] : Lossy!Show(l, n)
      PROVE  [Lossy!Next]_<<typedOnLinks, shownOnLinks>>
  BY <1>1 DEF Lossy!Next
<1>2. ASSUME UNCHANGED <<db, sent>>
      PROVE  UNCHANGED <<typedOnLinks, shownOnLinks>>
  BY <1>2, LinkEnds, SameOnLinks
<1>3. ASSUME NEW c \in Clients, NEW w \in Workers, Write(c, w)
      PROVE  [Lossy!Next]_<<typedOnLinks, shownOnLinks>>
  <2>1. /\ StepOK(c, db[c], db'[c], sent)
        /\ \A q \in Clients \ {c} : db'[q] = db[q]
        /\ UNCHANGED sent
    BY <1>3, WriteDelivery
  <2>2. CASE SameShown(db[c], db'[c])
    <3>1. \A l \in Links : shownOnLinks'[l] = shownOnLinks[l]
      <4>1. ASSUME NEW l \in Links PROVE shownOnLinks'[l] = shownOnLinks[l]
        <5>1. l.to \in Clients /\ l.from \in Clients /\ l.convo \in Draws
          BY DEF Links
        <5>2. ShownIn(db'[l.to], l.from, l.convo) = ShownIn(db[l.to], l.from, l.convo)
          BY <2>1, <2>2, <5>1 DEF SameShown
        <5> QED
          BY <5>2, LinkEnds
      <4> QED
        BY <4>1
    <3>2. UNCHANGED <<typedOnLinks, shownOnLinks>>
      BY <2>1, <3>1, LinkEnds, SameOnLinks
    <3> QED
      BY <1>1, <3>2
  <2>3. ASSUME NEW q \in Clients, NEW x \in Draws, NEW t \in Texts,
               Shows(c, db[c], db'[c], q, x, t, sent)
        PROVE  [Lossy!Next]_<<typedOnLinks, shownOnLinks>>
    BY <1>1, <2>1, <2>3, ShowsOnLink
  <2> QED
    BY <2>1, <2>2, <2>3 DEF StepOK
<1>4. ASSUME NEW c \in Clients, NEW w \in Workers, Ask(c, w)
      PROVE  [Lossy!Next]_<<typedOnLinks, shownOnLinks>>
  <2> DEFINE ask == op[c][w].ask
  <2>1. ask = op[c][w].ask /\ UNCHANGED db
    BY <1>4 DEF Ask
  <2> HIDE DEF ask
  <2>2. \/ ~Texting(ask) /\ UNCHANGED sent
        \/ /\ Texting(ask)
           /\ ask.content \in Ciphertexts
           /\ sent' = [sent EXCEPT ![c] = Append(sent[c], ask.content)]
           /\ Backed(c, draws[c], db[c], ask.content)
           /\ \A i \in DOMAIN sent[c] : Follows(sent[c][i], ask.content)
    BY <1>4, <2>1, AskSends
  <2> QED
    BY <1>1, <1>2, <2>1, <2>2, SendsOnLink
<1>5. CASE Next
  <2>1. ASSUME NEW c \in Clients, NEW w \in Workers, NEW p \in Clients,
               \/ aliceAddContact(c, w, p)
               \/ bobAcceptContact(c, w, p)
               \/ doDeleteContact(c, w, p)
               \/ \E size \in Sizes :
                     \/ sendNewThread(c, w, p, size)
                     \/ \E id \in Draws : sendInConvo(c, w, id, p, size)
               \/ getNextMessage(c, w)
        PROVE  UNCHANGED <<db, sent>>
    <3>1. \E call : Begin(c, w, call)
      BY <2>1 DEF aliceAddContact, bobAcceptContact, doDeleteContact, sendNewThread,
                  sendInConvo, getNextMessage
    <3> QED
      BY <3>1 DEF Begin
  <2>2. ASSUME NEW c \in Clients,
               \/ \E w \in Workers : Receive(c, w) \/ ConnError(c, w) \/ ConnReset(c, w)
               \/ Crash(c)
        PROVE  UNCHANGED <<db, sent>>
    BY <2>2, EndDelivery
  <2>3. ASSUME \/ \E k \in Conns : handleClient(k) \/ hangUp(k)
               \/ hubRestart
        PROVE  UNCHANGED <<db, sent>>
    BY <2>3, HubDelivery
  <2>4. \/ UNCHANGED <<db, sent>>
        \/ \E c \in Clients, w \in Workers : Write(c, w) \/ Ask(c, w)
    BY <1>5, <2>1, <2>2, <2>3 DEF Next
  <2> QED
    BY <1>1, <1>2, <1>3, <1>4, <2>4
<1>6. CASE UNCHANGED vars
  BY <1>1, <1>2, <1>6 DEF vars
<1> QED
  BY <1>5, <1>6

\* Whatever fails, whoever is killed and whoever deletes contacts: nothing is
\* shown twice, out of order, in another conversation, or without having been
\* sent, if a client can tell its contact's texts from its own (storeMessage of
\* storage.go).  The client implements what Conversations promises.
THEOREM ShowsInOrder ==
    ASSUME "roles" \in Mended, "title" \in Mended, "address" \in Mended
    PROVE  Spec => DeliversInOrder
<1>1. Init => Lossy!Init
  <2> SUFFICES ASSUME Init PROVE Lossy!Init
    OBVIOUS
  <2>1. \A l \in Links : l.from \in Clients /\ l.to \in Clients /\ l.convo \in Draws
    BY DEF Links
  <2>2. \A c \in Clients : sent[c] = <<>> /\ db[c] = EmptyDatabase
    BY DEF Init
  <2>3. \A x \in Draws : EmptyDatabase.convos[x] = Null
    BY DEF EmptyDatabase
  <2>4. \A l \in Links : shownOn(l) = <<>>
    BY <2>1, <2>2, <2>3 DEF shownOn
  <2>5. \A l \in Links : typedOn(l) = <<>>
    <3>1. ASSUME NEW I PROVE TextsAt(<<>>, I) = <<>>
      <4>1. Len(<<>>) = 0
        OBVIOUS
      <4>2. PICK g : Collects(g, 0, <<>>, I) /\ TextsAt(<<>>, I) = g[0]
        BY <4>1, TextsAtForm
      <4>3. g[0] = <<>>
        BY <4>2 DEF Collects
      <4> QED
        BY <4>2, <4>3
    <3>2. ASSUME NEW l \in Links PROVE typedOn(l) = <<>>
      <4>1. sent[l.from] = <<>>
        BY <2>1, <2>2
      <4>2. \E I : typedOn(l) = TextsAt(sent[l.from], I)
        BY DEF typedOn
      <4> QED
        BY <3>1, <4>1, <4>2
    <3> QED
      BY <3>2
  <2> QED
    BY <2>4, <2>5 DEF Lossy!Init, typedOnLinks, shownOnLinks
<1>2. IInv /\ IInv' /\ Secrets /\ Keys /\ Delivery /\ [Next]_vars
         => [Lossy!Next]_<<typedOnLinks, shownOnLinks>>
  BY StepShows
<1> QED
  BY <1>1, <1>2, TypeInvariant, SecretsInvariant, KeysInvariant, DeliveryInvariant, PTL
     DEF Spec, DeliversInOrder, Lossy!Spec
=============================================================================
