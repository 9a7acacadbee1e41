------------------------------ MODULE Storage ------------------------------
(***************************************************************************)
(* The storage service (storage.go): the rows of the local database and    *)
(* what each statement reads or changes.  A statement that changes rows is *)
(* a record (what the handler is about to execute); Executed gives the     *)
(* database after it.  Each statement commits on its own: the code opens   *)
(* no transaction.                                                         *)
(***************************************************************************)
EXTENDS Encryption, Sequences

CONSTANT Mended   \* the places at which a run follows the comment, not the code

\* Places where what the code executes falls short of what its own comments
\* say it does.  Mended = {} is the committed text; README.md quotes each.
Places == {"scan", "ready", "todo", "forward", "delete", "roles", "title",
           "address", "hex"}

ASSUME MendedAssumption == Mended \subseteq Places

-----------------------------------------------------------------------------
(* Rows *)

\* contacts: tag is the first byte of contacts.state, blob the rest (the comment
\* above the schema lists the three forms); c1 and c2 create threads.
ContactRows ==
    [tag : {0}, blob : Draws,
     c1 : ThreadStates \cup {Null}, c2 : ThreadStates \cup {Null}]
    \cup [tag : {1}, blob : Contents,
          c1 : ThreadStates \cup {Null}, c2 : ThreadStates \cup {Null}]
    \cup [tag : {2}, blob : {Null}, c1 : ThreadStates, c2 : ThreadStates]

\* conversations, by id: publickey, title and the two session keys.
ConvoRows == [peer : Clients, title : Texts \cup {Null},
              c1 : SessionKeys, c2 : SessionKeys]

MessageRows == [convo : Draws, mine : BOOLEAN, text : Texts]

Databases == [contacts : [Clients -> ContactRows \cup {Null}],
              convos   : [Draws -> ConvoRows \cup {Null}],
              messages : Seq(MessageRows)]

\* A row that was found is told from no row.
ASSUME RowAssumption == Null \notin ConvoRows /\ Null \notin ContactRows

EmptyDatabase == [contacts |-> [p \in Clients |-> Null],
                  convos   |-> [x \in Draws |-> Null],
                  messages |-> <<>>]

-----------------------------------------------------------------------------
(* Queries *)

\* getStateContact.  rows.Scan is handed the slice and not its address, so the
\* committed code panics on every row it finds.
getStateContact(d, bob) ==
    IF d.contacts[bob] = Null THEN "noContact"
    ELSE IF "scan" \notin Mended THEN "panic"
    ELSE IF d.contacts[bob].tag = 0 THEN "waitingForAccept"
    ELSE IF d.contacts[bob].tag = 1 THEN "waitingToAccept"
    ELSE "contactAdded"

\* getThreadRatchetStates returns no error.  It tests for the one byte 1 where
\* a finished contact holds the one byte 2.
threadRatchetStatesReady(d, bob) ==
    /\ d.contacts[bob] # Null
    /\ "scan" \in Mended
    /\ IF "ready" \in Mended
       THEN d.contacts[bob].tag = 2
       ELSE d.contacts[bob].tag = 1 /\ d.contacts[bob].blob = Null

\* getSessionKeys returns no error.
sessionKeysFound(d, id, bob) ==
    /\ d.convos[id] # Null
    /\ d.convos[id].peer = bob
    /\ "scan" \in Mended

ConvoExist(d, id) == d.convos[id] # Null

-----------------------------------------------------------------------------
(* Statements *)

addContact(bob, hs) == [do |-> "addContact", who |-> bob, blob |-> hs]
addContactFromReq(alice, content) ==
    [do |-> "addContactFromReq", who |-> alice, blob |-> content]
finalizeContact(bob, ts1, ts2) ==
    [do |-> "finalizeContact", who |-> bob, c1 |-> ts1, c2 |-> ts2]
deleteContact(bob) == [do |-> "deleteContact", who |-> bob]
updateThreadRatchetStates(bob, ts1, ts2) ==
    [do |-> "updateThreadRatchetStates", who |-> bob, c1 |-> ts1, c2 |-> ts2]
createConvo(id, bob, title, s1, s2) ==
    [do |-> "createConvo", id |-> id, who |-> bob, title |-> title,
     c1 |-> s1, c2 |-> s2]
updateSessionKeys(id, bob, s1, s2) ==
    [do |-> "updateSessionKeys", id |-> id, who |-> bob, c1 |-> s1, c2 |-> s2]
updateTitle(id, bob, title) ==
    [do |-> "updateTitle", id |-> id, who |-> bob, title |-> title]

\* Mutation: every message is taken for the contact's.
storedAsTheirs(id, own, text) ==
    [do |-> "storeMessage", id |-> id, mine |-> FALSE, text |-> text]

\* senderIsMe tells whether FromAddress, which is the client's if it is its own
\* message, is ssyk.myAddress.  The committed code sets that address nowhere.
storeMessage(id, own, text) ==
    [do |-> "storeMessage", id |-> id, mine |-> own /\ "address" \in Mended,
     text |-> text]

Statements ==
    [do : {"addContact"}, who : Clients, blob : Draws]
    \cup [do : {"addContactFromReq"}, who : Clients, blob : Contents]
    \cup [do : {"finalizeContact"}, who : Clients,
          c1 : ThreadStates, c2 : ThreadStates]
    \cup [do : {"deleteContact"}, who : Clients]
    \cup [do : {"updateThreadRatchetStates"}, who : Clients,
          c1 : ThreadStates \cup {Null}, c2 : ThreadStates]
    \cup [do : {"updateThreadRatchetStates"}, who : Clients,
          c1 : ThreadStates, c2 : {Null}]
    \cup [do : {"createConvo"}, id : Draws, who : Clients,
          title : Texts \cup {Null}, c1 : SessionKeys, c2 : SessionKeys]
    \cup [do : {"updateSessionKeys"}, id : Draws, who : Clients,
          c1 : SessionKeys \cup {Null}, c2 : SessionKeys]
    \cup [do : {"updateSessionKeys"}, id : Draws, who : Clients,
          c1 : SessionKeys, c2 : {Null}]
    \cup [do : {"updateTitle"}, id : Draws, who : Clients, title : Texts]
    \cup [do : {"storeMessage"}, id : Draws, mine : BOOLEAN, text : Texts]

\* An INSERT into contacts breaks UNIQUE(publickey): the code panics.
Violates(d, st) ==
    /\ st.do \in {"addContact", "addContactFromReq"}
    /\ d.contacts[st.who] # Null

\* Mutation: the query is not switched to c2.
SetC1(row, st) == [row EXCEPT !.c1 = IF st.c1 # Null THEN st.c1 ELSE st.c2]

\* UPDATE ... SET c1, or c2 when the first argument is nil.
SetOne(row, st) ==
    IF st.c1 # Null THEN [row EXCEPT !.c1 = st.c1] ELSE [row EXCEPT !.c2 = st.c2]

\* The rows an UPDATE's WHERE clause selects exist.
Matches(d, st) ==
    CASE st.do \in {"finalizeContact", "updateThreadRatchetStates"} ->
            d.contacts[st.who] # Null
      [] st.do \in {"updateSessionKeys", "updateTitle"} ->
            /\ d.convos[st.id] # Null
            /\ d.convos[st.id].peer = st.who
      [] OTHER -> TRUE

\* UPDATE contacts SET state=[2], c1, c2; mutation: the blob is kept.
KeepsBlob(row, st) == [row EXCEPT !.tag = 2, !.c1 = st.c1, !.c2 = st.c2]
Finalized(row, st) == [tag |-> 2, blob |-> Null, c1 |-> st.c1, c2 |-> st.c2]

\* DELETE FROM contacts; mutation: what the contact wrote goes as well.
ForgetContact(d, p) ==
    [d EXCEPT !.contacts[p] = Null,
              !.messages = SelectSeq(@, LAMBDA mr : mr.mine),
              !.convos = [x \in Draws |->
                  IF d.convos[x] # Null /\ d.convos[x].peer = p
                  THEN Null ELSE d.convos[x]]]
RemoveContact(d, p) == [d EXCEPT !.contacts[p] = Null]

NewContact(tag, blob) == [tag |-> tag, blob |-> blob, c1 |-> Null, c2 |-> Null]

\* The database after a statement that violates no constraint.
Executed(d, st) ==
    IF ~Matches(d, st) THEN d ELSE
    CASE st.do = "addContact" ->
            [d EXCEPT !.contacts[st.who] = NewContact(0, st.blob)]
      [] st.do = "addContactFromReq" ->
            [d EXCEPT !.contacts[st.who] = NewContact(1, st.blob)]
      [] st.do = "finalizeContact" ->
            [d EXCEPT !.contacts[st.who] = Finalized(@, st)]
      [] st.do = "deleteContact" -> RemoveContact(d, st.who)
      [] st.do = "updateThreadRatchetStates" ->
            [d EXCEPT !.contacts[st.who] = SetOne(@, st)]
      [] st.do = "createConvo" ->
            [d EXCEPT !.convos[st.id] = [peer |-> st.who, title |-> st.title,
                                         c1 |-> st.c1, c2 |-> st.c2]]
      [] st.do = "updateSessionKeys" ->
            [d EXCEPT !.convos[st.id] = SetOne(@, st)]
      [] st.do = "updateTitle" -> [d EXCEPT !.convos[st.id].title = st.title]
      [] st.do = "storeMessage" ->
            [d EXCEPT !.messages =
                Append(@, [convo |-> st.id, mine |-> st.mine, text |-> st.text])]
=============================================================================
