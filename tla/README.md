# Sasayaki in TLA+

Sasayaki is an end-to-end encrypted messenger in Go: client programs with a
local web UI and a local database, and one hub that queues ciphertexts. This
directory models its clients, its hub and what they promise together, checks
the models with TLC and proves theorems about them with TLAPS.

Paths below are relative to the repository.

## 1. The system

| component | state | operations | talks to |
|---|---|---|---|
| core state machine, `sasayaki.go` | `queryMutex`; everything else is in storage | `aliceAddContact`, `bobAcceptContact`, `aliceAckAcceptContact`, `deleteContact`, `sendMessage`, `getNextMessage` + `handleNewMessage` | calls storage, encryption and hub proxy, all under the mutex |
| storage, `storage.go` | SQLite: `contacts` (handshake state, two thread states), `conversations` (title, two session keys), `messages` | one statement per method, no transaction | called by the core |
| encryption, `crypto.go` | none; takes and returns serialized strobe states | `encryptMessage`, `decryptMessage`, `createNewConvo`, `createConvoFromMessage`, `addContact`, `acceptContact`, `finishAddContact` | called by the core |
| hub proxy, `hub.go` | `hub.conn` | `isHubReady`, `sendMessage`, `getNextMessage`: one request, one answer | a connection to the hub |
| hub RPC service, `server/client.go` | a goroutine per connection | `handleSendMessage`, `handleGetNextMessage` | `server/memory.go` under `mm.queryMutex` |
| hub memory, `server/memory.go` | recipient -> queue of messages; lost on restart | | |
| web server, `webserver.go` | `web.ssyk`, `keyPair`, the token | one handler per call, each in a goroutine | the core; `setPassphrase` and `setConfiguration` call init and replace the hub proxy |
| init and configuration, `init.go` | `~/.sasayaki/keys/keypair`, `~/.sasayaki/configuration.json` | `initSasayaki` = folders, `initConfiguration`, `initKeyPair`; `updateConfiguration` | called by the web server and the command line |
| command line, `main.go` | | with `-cli`: asks for the passphrase and for what is missing in the configuration, and ends; without: starts the web server | init and configuration |
| notification and delivery, `server/notification.go`, `server/delivery.go` | | empty loops | |
| messages, `serialization/`, `types.go` | | | |

How two users come to talk. Alice's `aliceAddContact` draws an ephemeral key,
stores `[0|handshake]` and sends the first message of a Noise IK handshake
through the hub. Bob's `getNextMessage` stores it as `[1|message]`;
`bobAcceptContact` finishes the handshake on his side, stores `[2]` with two
*thread states* (one per direction) and answers. Alice's next `getNextMessage`
finishes hers. To open a conversation a sender derives two *session keys* from
its thread state, ratchets the thread state, stores all of it and sends the
title; the receiver derives the same keys when it sees an unknown conversation
id. Every message then advances the session key of its direction on both sides.

What is hard about it:

- **Two ends of a ratchet.** Each text must be encrypted under a state that was
  never used before, and decrypted under the same one. Nothing is acknowledged
  or repeated: every failure leaves the two ends a step apart for good.
- **Statements commit one by one.** A client killed between two of them
  restarts with half of an operation done.
- **The web server is concurrent**; between reading a state and storing its
  successor only `queryMutex` helps.
- **The proxy gives connections up without closing them**, so the hub can hold
  several connections of one client, and an old request can be served late.
- **The hub pops a message before it delivers it**, and its memory is volatile.
- **The hub's goroutines share one map**, read and written back in two steps.
- **Messages are frames on byte streams**, read by a length of 8 bits, with
  Reads that may be short and errors that keep or drop the connection.
- **The program is initialised by requests** that run side by side, from files
  that are rewritten in place.

What makes each component correct: the core never encrypts twice under one
state and keeps both ends in step (`NoKeyReuse`, `PeersAgree`, `ConvosAgree`,
`NextDecrypts`); storage never puts an older secret back
(`SecretsOnlyAdvance`); the proxy returns from every call (`CallsReturn`), with
the hub's answer to that very call or an error (`GetsOwnAnswer`); a program that
was opened stays open, and opens again after a restart (`OpenedIsSeen`,
`NotLockedOut`); the hub serves each request as if in one step and keeps order
(`ServesAtomically`, `MailboxInOrder`); and all of them together show every reader what was typed,
at most once and in order (`Conversations`).

## 2. How the source is read

The committed source does not compile: it is a program in the middle of a
rewrite. The models translate what is written; where that cannot be done
literally they take one of two ways, and both are listed here.

**Names that do not resolve** are read as what the surrounding code asks for.

| written | read as |
|---|---|
| `storage.updateContact` (`sasayaki.go:322,353`) | `storage.finalizeContact`, same arguments |
| `addContactFromReq(encryptedMsg)` (`sasayaki.go:74`) | `storage.addContactFromReq` with the sender and the content |
| `finalizeContact(encryptedMsg)` (`sasayaki.go:77`) | the body of `aliceAckAcceptContact` under the mutex that the caller already holds |
| `bobAddress` in `getNextMessage` (`sasayaki.go:72`) | `encryptedMsg.GetFromAddress()` |
| `storage.queryMutex` | one mutex per client program (`sasayaki.go:28`) |
| missing or extra return values | the value that is there |
| the package variables `e2e`, `hub`, `storage`, `ssyk` in `sasayaki.go` and `crypto.go` | the parts that `initSasayakiState` set up. As written they are empty: `sasayaki.go:46` builds another `encryptionState` than the `e2e` of `crypto.go:37`, whose nil `keyPair` lines 74 and 107 would dereference. `ssyk.myAddress` alone changes what is stored and is the place `address` below |
| `hub.conn` after a failed `Dial` (`hub.go:65`) | nil, as `isHubReady` and the other error paths expect; a nil `*Conn` in the interface would not compare equal to it |
| `web.addContact`, `web.acceptContactRequest` | `aliceAddContact`, `bobAcceptContact` |
| `keyPair` in `setPassphrase` (`webserver.go:255`), `ssyk.keyPair` in `main` | one package variable |
| `initHubManager` (`webserver.go:311`) | the hub proxy starts over with that address and key; a call in progress ends on the old one |
| `rows` never closed | closed: the connection pool of `database/sql` is outside the repository |

**Places where the code stops or contradicts its own comment** are members of
the constant `Mended` (`Storage.tla`, `LocalApp.tla`). `Mended = {}` is the
committed text, a place in `Mended` follows the comment instead. With `Mended = {}` no client
gets past its first contact row, so the runs mend most places; each run's
`.cfg` says which. A place as committed is often also the mutant that shows that
a property depends on it.

| place | committed | what the comment or the schema says |
|---|---|---|
| `scan` | `rows.Scan(state)` is handed the slice, not its address, and fails on every row (`storage.go:106,134,269`) | "returns the state" (`storage.go:254`) |
| `ready` | `state[0] != 1` (`storage.go:111`) | "[2\|empty] : we are done with the handshake" (`storage.go:38`) |
| `todo` | `panic("todo")` before the request (`sasayaki.go:189,208`) | "send to hub" (`sasayaki.go:191,209`) |
| `forward` | `panic("no hub support")` (`sasayaki.go:325`) | "forward second handshake message to hub" (`sasayaki.go:324`) |
| `delete` | `panic("not implemented")` (`sasayaki.go:365`) | "deleteContact is used to delete a contact from storage" (`sasayaki.go:361`) |
| `roles` | the receiver stores `s1` as `c1` (`sasayaki.go:108`) | c1 is "to send messages", c2 "to receive messages" (`storage.go:65-66`) |
| `title` | the state after decrypting the title is dropped (`sasayaki.go:114`) | "store new state" (`sasayaki.go:136`), as for every other message |
| `address` | `storeMessage` compares with the package's `ssyk.myAddress`, which nothing assigns: `senderIsMe` is false for every message (`storage.go:215`) | "who sent it?" (`storage.go:213`) |
| `hex` | the handshake message goes out in hexadecimal (`sasayaki.go:265`), and nothing decodes it at 74, 303 or 316 | `bytes content` (`serialization/messages.proto:19`) |
| `receiver` | `web` is a value receiver, bound at registration: what a handler assigns to `web.ssyk` no other handler sees (`webserver.go:262`, `91-101`) | "Sasayaki is already initialized" (`webserver.go:241`) |

With `ready` as committed a finished contact is refused as not ready, with
`roles` the receiver of a thread keeps its peer's sending state as its own, and
with `receiver` no handler but `setPassphrase` ever gets past its first test.
`receiver` is in `LocalApp` only; `Sasayaki` begins where the program is open.

With `address` as committed a client's own texts are stored like its contact's
(the mutant `storedAsTheirs` of `DeliversAll`). The comment of the column says "0: I sent the message, 1: I
received the message" (`storage.go:72`), the reverse of the column's name and of
the code. The models go by the name and the code: `mine` is `senderIsMe`, and a
reader (`shownOn`) tells its contact's texts by it. Read by the comment, all that
is said here holds with the flag turned round.

With `hex` as committed the first handshake message (96 bytes, written as 192)
makes a request of 300 bytes, of which the hub reads 44 (`Framing`): it is the
size `over`, and `aliceAddContact` reaches no one. Mended, the 96 bytes go out as
they are, in a request of 204 bytes, and arrive as what `acceptContact` reads.

**Frames.** In `Sasayaki` and `HubServer` a request or an answer arrives whole
or not at all, and a call returns the hub's answer to itself or an error. That
is module `Exchanges`, which `Framing` implements with all the code does to
lengths, but for one thing: a Read that returns only a part of a response makes a
call, and those after it on that connection, return what is no answer of the hub
to them. These calls are `misled` in `Exchanges`; `Sasayaki` does not have them,
so what it shows is shown for Reads of responses that are whole. `Framing` also
shows that a text of some 130 characters is already one that cannot be sent. For
the core that is a call that fails after the ratchet was advanced, the case that
`Sasayaki` has as the size `over` and as `ConnError`.

**Outside the repository**, read from how it is used: `conn.Read` of libdisco
returns bytes of one `Write` (one encrypted record), as many as there are and
fit, possibly fewer (the ends in `ShortAt`), blocks if there are none, and returns at
once for an empty buffer; `proto.Unmarshal` accepts a message cut at the end of
a field; writing the key file is atomic, and a wrong passphrase is noticed; a
panic in a handler ends that request (`net/http` recovers).

## 3. The modules

| module | models | remarks |
|---|---|---|
| `Encryption` | `crypto.go` | operators on symbolic strobe states |
| `Storage` | `storage.go` | rows, queries, and `Executed`, the database after a statement |
| `Hub` | the two handlers of `server/client.go` on `server/memory.go` | operators on the mailboxes |
| `Sasayaki` | `sasayaki.go` + `hub.go` + the hub, for all clients | composes the three above |
| `Conversations` | nothing in the source | what `Sasayaki` promises; `Sasayaki` is shown to implement it |
| `HubServer` | goroutines, map and mutex of `server/client.go` | uses `Hub` for the records |
| `MessageQueues` | nothing in the source | the hub that serves each request in one step, as `Sasayaki` assumes; `HubServer` is shown to implement it |
| `Wire` | `serialization/messages.proto`, the frame header | sizes, cuts, and `LengthRead` |
| `Framing` | `hub.go` and the loop of `server/client.go`, down to Reads | uses `Wire` |
| `Exchanges` | nothing in the source | what a client's core may expect of a call; `Framing` is shown to implement it |
| `LocalApp` | `init.go`, `main.go`, `setPassphrase` and `setConfiguration` | one machine: files, one program at a time, its goroutines |
| `MCSasayaki`, `MCLocalApp` | | constants and symmetry for TLC |
| `SasayakiProofs`, `SasayakiDelivery`, `SasayakiAgreement`, `SasayakiLockstep`, `SasayakiInStep`, `HubServerProofs`, `FramingProofs`, `LocalAppProofs` | | the theorems; of the first five each extends the one before it |

**Encryption.** A strobe state is a record of how it was derived and how often
it was used: `ThreadStates` by the two ephemerals of the handshake, whose
threads it makes and how often it was ratcheted; `SessionKeys` by the thread
state, the label (`initiatorThread` / `responderThread`) and the number of
AEADs. Two records are equal exactly when the code's bytes would be. A
ciphertext carries the state that made it and the associated data, and
`decryptMessage` succeeds when the receiver's state and data are the same:
cryptography is perfect. Drawn values (conversation ids, ephemerals) are pairs
of client and counter, never drawn twice. A typed text is numbered by the same
counter, and is of size `fits` or `over`: accepted by the web server and refused by
the hub. A ciphertext is a MAC longer than its text, so a text at the limit of
10000 passes `webserver.go:44` and not `server/client.go:18`.

**Storage.** A statement that changes rows is a record; `Executed` is the
database after it, `Violates` says that it breaks `UNIQUE(publickey)` and
panics.

**Sasayaki.** `db[c]` is the database, all that survives `Crash(c)`. A call is
`op[c][w]`: the statements before the request, the request, and the statements
after a success. `Begin` is the part of a call up to its first effect (mutex,
queries, guards, random values), with all that is computed from what was read,
so that stale reads would be seen. `Write` executes one statement, `Ask` writes
the request (dialing first if there is no connection), `Receive` reads the
answer; for `getNextMessage` it computes the statements the message calls for
(`Dispatch`). `ConnError` is a failed dial, write or read at any moment: the
proxy drops the connection (`hubConn[c]`), which stays at the hub with whatever
request is on it (`conn[k]`), until `hangUp(k)`. `handleClient(k)` serves a
request in one step, which `HubServer` justifies. `hubRestart` empties the
mailboxes and breaks all connections; `ConnReset` is the client seeing that.
`sent` is a history variable: the ciphertexts a client has put on the wire.

Not in the model: a client that adds itself; forged messages (the hub is honest
in `threatmodel.md`); names and dates.

**HubServer.** A goroutine per connection: `readRequest`, the field checks,
`lock`, `load` (read the slice from the map), `store` (write it back),
`unlock`, `writeResponse`; `breakSession` is the loop's `break session`
wherever it occurs outside the lock, and the client closing. `MaxReqs` bounds
the requests written in all.

**Wire and Framing.** A message is a record with its encoded `Size`; `LengthRead`
is what `(header[0] << 8) | header[1]` makes of the two bytes that were written,
in a byte: the length modulo 256. A stream is a sequence of frames and how many
bytes of the first are read (`Drop`). A call of the proxy goes through `asking`,
`header` and `data`: `ask` (`isHubReady` and `Write`), `readHeader`, `readData`;
each Read may return fewer bytes than asked for, `Unmarshaled` says what the code
makes of what it got, and only errors of Dial, Write and Read (`connError`,
`connClosed`) or a short header drop the connection, not an error of
`Unmarshal`. The hub's goroutine goes through `hubReadHeader`, `hubReadData`
(which serves the request and writes the answer) and `hubBreak`, its
`break session`; `hangUp` is the end of an abandoned connection. Off a frame's
boundary a header says any of `StrayLengths`. One client stands for all: it
finds its own messages in its mailbox, so every response can be as long as
requests make it. `asked`, `answers`, `results` are history variables, numbered
by call; `of` in a message is that number and is on no wire. `misled` is one too:
the call whose Read of data returned less than the header said, and each later
call that finds the same connection in use.

**LocalApp.** The disk is `keyFile` (a key pair under a passphrase) and
`configFile` (the text written last, and where its last byte stands that is no
white space). `Rewritten` is opening without truncating, by the lengths of the
two JSON texts; `Parsed` is `json.Unmarshal` with its error dropped. Saving is one
step because it is one in the code: `os.OpenFile` with `O_WRONLY` alone leaves the
file as it was, and `Encode` writes the whole text with one `Write`, so that no
reader and no kill finds an empty file. (A file that is truncated first, the
obvious repair, would have that moment.) `tailed` is a history variable: a save of
this program has left more than white space behind its text. A request
goes through `config` (`initConfiguration`), `stat` and `generate` or `load`
(`initKeyPair`: the test and the act are two steps), `state`
(`initSasayakiState` and the assignment to `web.ssyk`); `setConfiguration`
replaces the hub, and `updateConfiguration` writes the file, in two steps.
`stop` kills the program anywhere; `startCLI` and `prompt` are `main -cli`.
Without a hub configuration nothing can be opened and nothing configured from
the web UI (`webserver.go:291` needs `web.ssyk`): only the command line leads
out. Two texts that differ by one in length show that a single byte left behind
is white space.

## 4. Properties and runs

Client runs have two clients, `a` and `b`; `LimitXY` allows `a` X and `b` Y
random values and texts. Three for one client are a handshake, a thread and a
reply in it (or two threads); less than that, some interleavings of two
directions never happen. The limits are mostly asymmetric (3/2) because every
role (initiator, responder, first to write) can still be played by either
client. Three connections are the least with which an abandoned connection of
one client can be served after a later request on a new one while the other
client has one too. A connection or a goroutine is interchangeable with any
other of its kind, hence the symmetry sets; the run with liveness has none.
One fault of any allowed kind, at any moment, is enough to put the two ends a
step apart, and everything that follows is explored.

| run | instance | what it shows |
|---|---|---|
| `healthy` | 2 goroutines per client, limits 3/3, no fault | with every interleaving of calls: types, `NoKeyReuse`, `PeersAgree`, `ConvosAgree`, `NextDecrypts`, `MailboxInOrder`, and `DeliversAll` (implements `Conversations` without loss) |
| `lossy` | limits 3/2, one connection failure or hub restart, 3 connections | no state is used twice, threads come from fresh states, and `DeliversAll`: a reader is shown the texts up to the first lost one |
| `crash` | limits 3/2, one client killed at any statement | the initiator of a thread reuses no state, secrets only advance, `DeliversInOrder` (implements `Conversations` with loss: a text may be missing between two that are shown) |
| `delete` | limits 3/2, contacts deleted and added again, oversize texts | `NoKeyReuse`, `DeliversAll` |
| `live` | limits 3/1 (a contact, a thread, a message in it), any one fault, fairness | calls return; acceptances and texts, title and message, arrive unless something failed |
| `hub_server` | 2 connections, 2 addresses, 3 requests, fairness | `LoadedIsCurrent`, implements `MessageQueues`, every request is served |
| `framing` | 2 connections, 3 calls, 1 failed connection; contents of 147, 148 and 300 bytes; the Reads of both ends may return 1 byte; fairness | `QuietBetweenCalls`, `HubAligned`, `ResponsesFit`, implements `Exchanges`, every call returns that is not `misled` |
| `local_app` | 2 goroutines, 2 passphrases, 3 starts, 2 wrong passphrases; place `receiver` mended; fairness | but for a tail left in the file, `OpenedIsSeen` and `NotLockedOut`; `SaveFindsFile`, `IdentityIsKept`, `ConfiguredIsOpened` |
| `long_texts` | as `framing`, no failure | violated: `AllowedIsSent` |
| `short_header` | Reads of both ends may return 1, 2 or 66 bytes, no failure | violated: `SuccessIsServed` |
| `key_reuse` | as `crash` | violated: `ThreadsAreFresh` |
| `late_request` | as `lossy`, connections only | violated: `MailboxInOrder` |

`DeliversAll` and `DeliversInOrder` map each direction of each conversation to
the texts whose ciphertexts went out (`typedOn`) and to what the other side's
database shows of them, title first (`shownOn`).

The contents in `framing` are the ones at the limit: with 147 bytes a request
has 255 bytes, with 148 it has 256, with 300 its low byte is that of another
legal length. Three calls are the least in which a message goes up, comes down,
and a third call sees what they left. One byte is the short header, and a cut of
any message. At the hub a short Read ends the session. At the client a short header
drops the connection (and may return no error, `short_header`), while short data is
not noticed: `QuietBetweenCalls`, `GetsOwnAnswer` and `CallsReturn` say that what
follows from it stays with the calls of that connection, and that nothing else has
such consequences. In `local_app` three starts are a command line that configures, a web server that changes the
configuration and one that reads it; two goroutines, because every race in this
code is between two. The lengths of the addresses are those that leave nothing,
one byte, or more than one byte behind; the text that is no public key is longer
than one (66), so that it can be written over one and leave no tail.

`IdentityIsKept` says what is left of "if it already exists, load it"
(`init.go:112`): `initKeyPair` looks and generates in two steps, so two first
requests of a new user can generate two key pairs, of which the second stays.
From the moment no request is about to generate one, it is safe.

**Findings.** (1) A receiver killed between `sasayaki.go:108` and `111` builds
two conversations on one thread state, so its later replies in both are
encrypted under the same states; the sender's own order of statements (176 before
178) does not have this. (2) After a failed read the old connection's request
may be served after newer ones, and the mailbox is out of order; the receiver
then skips what it cannot decrypt, so order is kept (`DeliversAll` holds in
`lossy`) but texts are lost. (3) `long_texts`: a request of 256 bytes or more is cut by the hub's 8-bit length,
the session ends, and the text is lost after the ratchet advanced; the limit of
10000 is never reached. (4) `short_header`: one byte of a header makes
`sendMessage` return nil.

More observations that no run reports: as committed, the flag that tells who sent
a message is the same for both sides (`storage.go:215`); the first fields of a
response parse as one, so that a short Read of its data makes `getNextMessage`
return a message without content that the hub never answered, and no error
(`hub.go:157`); a configuration shorter by two bytes or more than the one in the
file does not parse at the next start, which drops the error (`init.go:50,70`): that
is the tail that `OpenedIsSeen` and `NotLockedOut` except; a response is never longer than the
request that brought it, so the proxy's own 8-bit length never cuts anything
(`ResponsesFit`) as long as the hub's does; a new user of the web UI alone can
never start (above); the second of two first `set_passphrase` requests replaces
the key pair, and with it the address, that the first one made; the command line
stores a mistyped hub key and never asks again (`main.go:58-71`). And when both
sides delete and add each other again, each may accept the other's old request,
and they finish different handshakes (why `PeersAgree` is not in run `delete`; the TODO at
`sasayaki.go:291` concedes it); and when two clients add each other at the same
time, both wait for ever.

**Fairness** (`live`): a goroutine that can execute a statement, dial, or read
an answer does so, and the hub serves and closes its connections (goroutines
are scheduled; an abandoned connection is closed by Go's finalizer of the
socket). That leaves out a hub that keeps a connection open in silence: `hub.go`
sets no deadline, such a call never returns, and every later one waits for the
mutex behind it. `getNextMessage` is called again and again, as its comment asks ("you
need to call it several time", `webserver.go:167`); no other call ever has to
be made and no fault ever has to happen. In `HubServer` `lock` is strongly fair,
since Go's `sync.Mutex` starves no waiter. In `Framing` each end's goroutine
goes on when it can, a Read on a connection that the other end closed returns,
and abandoned connections end (here because `Conns` is a bound: the hub does not
run out of connections). In `LocalApp` a goroutine goes on, and a user with the
right passphrase types it until the program is open: `ConfiguredIsOpened` says
that he gets in once the wrong ones, of which there are `MaxWrong`, have stopped. As
long as they go on, each may undo what a right one has put into `keyPair`
(`webserver.go:255`), and nothing says that he does. Nobody has to configure, start or stop
anything.

## 5. Proofs

All results hold for every value of the constants that satisfies the named
assumptions: any number of clients, goroutines, connections and draws.

**`SasayakiProofs`**, in its first part, proves `Spec => []TypeOK` for `Sasayaki`. `TypeOK` is more
than the shape of the variables: rows of `contacts` have three forms and no
statement turns one into something else, every pending statement and every
ciphertext carries the keys it needs, and what a client does with a message is
well formed whatever the message and whatever the database (`DispatchType`).
It is not inductive by itself: `handleClient` writes the connection's owner into
the message it queues, so the invariant adds `RequestsOwned`, a connection that
carries a request has an owner. The lemmas go bottom-up: what the operators of
`Encryption` return, what a row says about its blob and its states
(`RowFields`, `ReadyHasStates`, `WaitingBlobs`, `FoundHasKeys`), that every
statement is typed and leaves a typed database (`ExecutedType`), then one step
per action. It rests on `LimitAssumption`, `MaxDrawsAssumption`,
`FaultsAssumption` and `NullAssumption` (nil is none of the blobs a column may
hold), and holds for every subset of mended places, the committed text included.

Its second part proves `SecretsAdvance`, `Spec => SecretsOnlyAdvance`: no
step, a crash between two statements included, puts an older strobe state back
or undoes a finished handshake. A step changes a database only when a call
executes a statement, but the statement was computed when the call began or
when its answer came, from the database of that moment. The invariant `Secrets`
closes this gap, on top of `IInv`:

- `WritesSafe`: each statement that a call has yet to execute would, in the
  database as it is now, move forward what it changes (`Advances`), and no two
  of them change the same thing (`Clash`), so that executing one leaves the
  others safe (`StillAdvances`, `SafeTail`);
- `OneCall`: no other call of that client can change the database meanwhile.
  This is where `queryMutex` is needed;
- `DrawnOnly`: whatever names a conversation, in a row, a pending statement, a
  request, an answer or a mailbox, names one whose id was already drawn. So the
  `createConvo` of a new thread cannot replace a conversation. On the receiving
  side that is `handleNewMessage`'s own test (`ConvoExist`), by `DispatchSafe`;
- `AfterStores`: what waits for the hub's answer is a `storeMessage` at most,
  which is safe in any database, so nothing has to be known of the database
  that the answer finds.

It needs `RowAssumption` as well (a row of `contacts` or `conversations` that was
found is not nil).

Its third part proves that no strobe state makes two ciphertexts, if the
place `roles` is mended:

- `InitiatorKeysOnce`: `Spec => []NoInitiatorKeyReuse`, whatever fails, clients
  killed between any two statements included;
- `KeysOnce`: `Spec => []NoKeyReuse`, if no client is killed (`"crash" \notin
  Faults`). With a crash it is false, which is finding (1).

A strobe state can come up again in two ways: its contact creates a thread from
the same thread state once more, or the conversation on its chain goes back. The
invariant `Keys` excludes both for each client, on top of `Secrets`:

- `Half(s)`: the ephemeral of the handshake's side that sends with `s`. A client
  draws its own, and no two of its contacts have the same (`ContactsClean`). This
  ties a state to one client and one contact, and is where `roles` is needed: as
  committed the receiver keeps its peer's sending state as its own;
- `Spent`: the contact with that half, if there still is one, is finished, and
  its thread state was ratcheted past the one that `s` comes from;
- `Clean`, of a database: beside `ContactsClean`, the sending state of every
  conversation is spent and no two conversations send on the same chain
  (`ConvosClean`), and every state that made a ciphertext of `sent` is spent and
  behind what the conversation on its chain sends with next (`Passed`);
- `Planned`: what a call has yet to execute leads from its database to a clean
  one in which the state of the ciphertext that the call is about to send counts
  as used. Each statement advances one state, and the ciphertext comes after all
  of them;
- `Watched`: with crashes, the same of the initiator's states only. The sender of
  a new thread ratchets first (`sasayaki.go:176`) and creates the conversation
  afterwards (178), so a crash between loses a state and reuses none.

It also has `ConnsOwned` (the connection that a client uses is its own, so what
arrives on it was asked by it) and `AskedOnce` (what a call has asked is not
asked again), and rests on `WireAssumption`: nil is no client, no connection, no
answer and nothing that is sent.

**`SasayakiDelivery`** proves `ShowsInOrder`, `Spec => DeliversInOrder`: with the
places `roles`, `title` and `address` mended, `Sasayaki` implements the lossy
`Conversations`, whatever fails. The initial states map to initial states, and
each step maps to a step of `Conversations` or to a stutter: `Ask` appends a text
to `typedOn`, a `Write` of a title or of a received text appends it to `shownOn`,
and deleting a contact takes nothing back. What has to be shown is that the text
appended is one that went out after every text already shown. The invariant
`Delivery` gets this from turns alone, on top of `Keys`: the turn of the state
that made a ciphertext says which one of its conversation it is.

- `SendersOK`: on each conversation the ciphertexts of `sent` have increasing
  turns, all below the turn of the sender's row;
- `ReceiversOK`: what a row shows is a subsequence of what was sent, and ends
  before the turn of the receiving state;
- `CallsOK` and `AsksFollow`: the same of what calls have yet to execute and to
  ask, with the ciphertext that they are about to send or have just decrypted;
- `WiresOK`: every ciphertext in a request, an answer or a mailbox is one of
  `sent`, so that what is decrypted was sent, on the conversation in which it is
  stored.

`typedOn` and `shownOn` are defined by a recursive function over the history
(`TextsAt`). What it returns is proved by least counterexample (`Least`, from
`WFMin` of `WellFoundedInduction`), since the library's induction theorems take
an operator. `NullAssumption` is used in full here: nil is no text either, or an
untitled conversation could pass for a titled one. The title needs its place
mended because the state after it would otherwise decrypt, and show, the title's
successor under the title's turn.

**`SasayakiAgreement`** proves what two clients have in common:

- `EndsAgree`: `Spec => []PeersAgree`, whatever fails, crashes included, as long as
  contacts are not deleted (`"delete" \notin Mended`). With deletion it is false
  (end of section 4).
- `FreshThreads`: `Spec => []ThreadsAreFresh`, with `roles` mended, if no client is
  killed; contacts may be deleted. With a crash it is false: finding (1).
- `HandsOutInOrder`: `Spec => []MailboxInOrder`, if no exchange fails at a client
  and no client is killed; the hub may restart. It is false with either, since
  both leave a request behind that is served late: finding (2).

The last one needs `Ordered` alone: a request that can still be served is on the
connection in use, and a text about to be asked or served is newer than all texts
of its sender in the mailboxes. The other two need:

- `Once`: the ephemeral of a handshake message is in one place only, which is a
  call about to ask, a connection's request or answer, a mailbox, or the row of
  the contact that has heard it. Requests are neither repeated by the proxy nor
  kept by the hub after they are served, so no contact hears a handshake message
  twice. A second one could otherwise put back the turns of a finished contact;
- `Agreement`: whatever a client has, or is on its way to it, goes back to what
  its sender's database holds now. A waiting or finished contact has its
  counterpart in the peer's row (`ContactAgrees`), a conversation was drawn by one
  of the two, and the other one has it (`ConvoAgrees`), and each message in a call,
  on a connection or in a mailbox is one that its sender's database accounts for
  (`Sendable`). This works because both ends store before they send;
  `AgreesAlong` says it for each database that a call passes through, since a
  crash may leave any of them. `Onward` is the other half: no statement takes back
  what others know of a database;
- `Counted`, a part of it: a client has at most as many own threads with a peer as
  it ratcheted its thread state, and ratcheted the peer's at most as often as it
  has threads of the peer. Those threads are among the peer's own (`ConvoAgrees`),
  so the turns are ordered through the cardinalities of the two sets
  (`DrawnWith`). That is `theirs.turn <= mine.turn` of `PeersAgree`, which no
  comparison of two rows would give, as the turns change on each side alone.

`PeersAgree` follows from `Agreement` (and the types), `ThreadsAreFresh` from
`Agreement` and `Keys`: the two ephemerals of a thread state belong to two clients
(`ConvoAgrees`), so its half, which is this client's, tells the direction, and two
conversations on it would send on one chain. Within a call that is known of the
database it leads to (`Planned`), which has every conversation of this one with
the same thread state (`Onward`). The theorems rest on the assumptions named
above, `RowAssumption` and `WireAssumption` among them.

**`SasayakiLockstep`** and **`SasayakiInStep`** prove what holds if nothing fails,
and then what holds as long as no client is killed:

- `ConvosInStep`: `Spec => []ConvosAgree`, the two states of each direction of a
  conversation are one, moved on more or less often, the reader's not more often;
- `NextReads`: `Spec => []NextDecrypts`, what the hub hands out next decrypts;
- `ShowsAll`: `Spec => DeliversAll`, `Sasayaki` implements the `Conversations` that
  lose nothing between two texts that are shown.

The hypotheses of the first two are `Faults = {}`, `Sizes \subseteq {"fits"}` and
`Mended = Places \ {"delete"}`, those of the run `healthy`, for any number of
clients, goroutines, connections and draws. After the first message that is lost,
or too long to go out, the reader's state no longer opens what follows in that
conversation, and a lost title loses the threads after it as well (finding (3),
`long_texts`); a contact that was deleted starts again at turn 0; with `title` or
`roles` as committed the reader keeps a wrong state without any failure. No
assumption is made on the order in which goroutines or clients run.

`ShowsAll` assumes only that `roles`, `title` and `address` are mended and that `"crash"` is
not in `Faults`: connections may fail, the hub may restart, texts may be too long
and contacts may be deleted. So of a conversation the reader has at any time a
beginning, with no text missing in it; the price is that nothing behind a lost text
is ever shown. A reader that is killed between the new state and the text
(`sasayaki.go:137`) is the one case in which a text in the middle is missing, and
what is left then is `ShowsInOrder`.

The invariant of the first two, on top of all those above, is `InStep`, about a
client *seen from afar*, so that a call in several steps counts as one:

- `Settled`: the database that the statements left of its call will leave;
- `Outs`: the message that it has asked its proxy to send and that the hub has
  not served yet, of which there is at most one;
- `Lines`: what the hub has handed out to it and it has not read, then its
  mailbox, as one queue;
- `Made`: its ciphertexts, the one of the call that is about to ask included.

`Synced` says that this view is right: the connection in use is up, and what is on
it belongs to the call that runs. Then for every writer `c` and reader `p`, with
`M` what is on its way between them (`PairInStep`):

- `LineOrdered`, `OutOrdered`: the queue is in the order of `Before`: handshake
  first, the texts of a conversation by the turns of their states, titles by the
  turns of their threads, and the message that is out after all of them;
- `ContactsMatch`, `ConvosMatch`: writer and reader have the same state, moved on
  more or less often, and the reader is not ahead;
- `ThreadsMatch`: each turn of the writer's thread state made exactly one
  conversation, and the reader has it if and only if its own thread state is past
  that turn. So a title that comes next finds no conversation at the reader, and
  is opened with the reader's next thread;
- `NoneTwice`, `NoneLost`: the turns of a conversation between the reader's state
  and the writer's are just those of the ciphertexts in `M`, and a handshake that
  the writer finished and the reader has not is in `M`. With `LineOrdered` this
  makes the first message of the line the one at the reader's turn
  (`OldestDecrypts`), which is `NextDecrypts`;
- `TextsMatch`: the writer's turn counts what it typed in a conversation, the
  reader's what it is shown, which is the beginning of it. With `NoneLost`: what
  was typed and is not shown yet is still on its way.

`SasayakiLockstep` knows of databases, queues and messages only. It proves that
`PairInStep` is kept by the changes there can be: a writer that begins a thread,
goes on in one, adds or accepts a contact; a message that goes from `Outs` to the
end of a line; a reader that takes the first message of its line and stores what
it calls for; and that a pair does not notice what a third client does.
`SasayakiInStep` proves that each action of `Sasayaki` changes the view in one of
these ways or not at all: a `Write`, an `Ask`, a `hangUp` and the serving of a
`getNextMessage` leave it alone, and the answer to a sender adds its own text to its
own database only (`OwnTexts`). This is where `OneCall`, `ConnsOwned` and
`Agreement` (every message on a wire is one that its sender's database accounts
for) are used again.

The third theorem uses none of that, since nothing of it survives a loss. Its
invariant is `NoGaps`, on top of those of `SasayakiDelivery`: the turn of the state
with which a reader receives counts what it is shown of the conversation, and the
k-th text shown was sent with the state of turn k - 1. It holds of the database
of a client that rests, and of the one to which the statements left of its call
lead (`After4`); in between the state is ahead of the texts, which is why it must not
be killed there. Each call keeps it (`ReadsOn`): it decrypts, if at all, the
ciphertext of exactly the turn that comes next, and shows its text behind the
others. By `Delivery` the texts of a conversation go out with growing turns and
growing numbers, so the text with turn k - 1 cannot have k or more before it, and
all those before it have smaller turns, which are shown (`GaplessStarts`): what is
shown is a prefix of what was sent. In the middle of a call it is part of what the
call will show, of which no statement takes anything back (`ReaderStarts`).
`SasayakiDelivery` says that a step that appends to `shownOn` is a `Show` of the
lossy `Conversations`; as what is shown is a prefix before and after the step, it
is the `Show` that passes nothing over (`StepDelivers`).

**`HubServerProofs`** proves of `HubServer`, from `NullAssumption` and
`MaxReqsAssumption`:

- `TypeCorrect`: `Spec => []TypeOK`, which says for every place of a goroutine
  which of its variables are set.
- `MutexCorrect`: `Spec => [](LockHeld /\ LoadedIsCurrent /\ CheckedFits)`.
  `LockHeld` says that a goroutine between `lock` and `unlock` is the one that
  `queryMutex` names; without it `LoadedIsCurrent` (the slice
  that was loaded is still the mailbox) is not inductive, since another
  goroutine's `store` could make it stale. `CheckedFits` says that a message
  past the checks fits.
- `AtomicHub`: `Spec => ServesAtomically`, the refinement of `MessageQueues`.
  A goroutine's steps are invisible there, except `rejectFields` and `store`,
  which serve the request: by `MutexCorrect` `store` writes back what the mailbox
  is now, plus one message or minus its oldest.

**`FramingProofs`** proves of `Framing`, from `ContentsAssumption` and the named
assumptions of `Framing`:

- `TypeCorrect` and `StaysAligned`: `Spec => [](TypeOK /\ HubAligned)`,
  whatever Reads return. The two are inductive together (`Typed`): a goroutine
  that reads data has a frame to read, which is what its types need, and it
  leaves `data` only at the end of that frame or by closing.
- `LeavesNothing`, `ResponsesAreShort` and `CallsGetTheirAnswers`:
  `[]QuietBetweenCalls`, `[]ResponsesFit`, and the refinement of `Exchanges`, for
  any contents up to 10000 bytes, Reads of any count at either end, and any number
  of connections, calls and faults. A step that returns what is no answer is a
  `Mislead` of `Exchanges` (`MisleadRefines`).
  The invariant is `Exact`, on top of `Typed`. `Numbered`, `Results` and
  `Answered` tie messages to calls. `InUse` is the heart: on the connection in
  use there is one frame at most in both directions together, that of the call in
  progress, read as far as `place` and `at` say, for as long as that call is not
  `misled`. `OpenUp`, `Once` and `Older` are
  about all connections: each has one request at most, one that has no answer
  yet, no two have the same, and none that was given up has that of the call in
  progress; so no call is served twice. `PendingFits` is why `ResponsesFit` is
  inductive: a content gets into the mailbox only through a request that was read
  whole, which is below 256 bytes, and the response with it is shorter
  (`LongerUp`).

**`LocalAppProofs`** proves of `LocalApp`, from its named assumptions:

- `TypeCorrect` and `SaveWorks`: `Spec => []TypeOK`, `Spec => []SaveFindsFile`.
  For the second, `FilesThere` adds that every place after `initConfiguration`,
  and a set `web.ssyk`, mean that there is a file.
- `StaysOpen`: with `receiver` mended, `Spec => []OpenedIsSeen`; and
  `OpensAgain`: `Spec => []NotLockedOut`, whatever is mended. Both are about the
  file as it is written, in place. `Coherent` is what makes them inductive: until a
  save leaves a tail, `web.ssyk` is set if and only if the program was opened, the
  file then has a valid hub key, and a request under way has read one if and only
  if the file has it now. So a request that comes to `initSasayakiState` after
  another one succeeded succeeds too, and does not put nil over what the other has
  set. After a tail only the file is known: it has a valid key, or a tail.
- `KeyPairKept`: `Spec => IdentityIsKept`, whatever is mended: `initKeyPair` of
  any number of requests finds the key pair once none of them has missed it.

Only model-checked: the liveness properties (`CallsReturn` of both modules,
`AcceptanceArrives`, `EventuallyShown`, `RequestsServed`,
`ConfiguredIsOpened`), which are out of the prover's reach. Every other property
of a run that passes is stated by a theorem.

## 6. Not modelled, and why

- **Notification and delivery services**: empty in the source.
- **The hub's main program, web pages, token check, JSON, templates**: I/O
  without protocol state.
- **`resetConfiguration`**: nothing calls it. **`getConfiguration`**: changes
  nothing.
- **Two programs at a time** on one `~/.sasayaki`: the web server and the command
  line are started one after the other.
- **Cryptography**: perfect; the repository only calls it.
- **Groups, gossip, organisations** (`docs/`): no code.

## 7. Plan

1. `Encryption`, `Storage`, `Hub`, `Sasayaki` with `Conversations`, and
   `HubServer` with `MessageQueues` — done, with their runs; types, the hub's
   mutex and refinement, and `SecretsOnlyAdvance` proved.
2. `Wire`, `Framing` with `Exchanges`, and `LocalApp` — done, with their runs;
   types, alignment, the refinement, and what keeps a program open proved.
3. Proofs on `Sasayaki`: `NoInitiatorKeyReuse`, `NoKeyReuse` and the lossy
   refinement of `Conversations` — done.
4. Proofs about two clients: `PeersAgree`, `ThreadsAreFresh`, `MailboxInOrder` —
   done.
5. The properties of the run without faults: `ConvosAgree` and `NextDecrypts`, from
   an invariant that lines up the queue between two clients, on top of `Agreement`
   and `Ordered` — done.
6. The lossless refinement (`DeliversAll`) whatever gets lost, and with it in the
   runs `lossy` and `delete` — done.
