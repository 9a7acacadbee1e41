------------------------------ MODULE LocalApp ------------------------------
(***************************************************************************)
(* How the client starts and is configured: the handlers of the local web  *)
(* server that do it (webserver.go), the command line (main.go), and the   *)
(* two files that they share under ~/.sasayaki (init.go).                  *)
(*                                                                         *)
(* A worker is a goroutine that serves a request of the web UI, or the     *)
(* main goroutine of the command line.  One program runs at a time; it can *)
(* be killed at any point, and only the files remain.                      *)
(***************************************************************************)
EXTENDS Naturals, FiniteSets

CONSTANTS
    Null,
    Workers,        \* goroutines
    Passphrases,    \* what users type
    HubAddresses,   \* addresses of hubs; NoAddress is the empty string
    NoAddress,
    AddressLength,  \* address -> its length
    BadKeyLength,   \* length of a text that is no public key
    Debug,          \* the flag -debug
    DebugConfig,    \* what it fills an empty configuration with
    Mended,         \* places that follow their comment (see README)
    MaxStarts,      \* bound: how often a program is started
    MaxWrong        \* bound: wrong passphrases typed

VARIABLES
    keyFile,        \* keys/keypair: a key pair under a passphrase
    configFile,     \* configuration.json
    running,        \* the program that runs: the web server, the command line
    ssyk,           \* web.ssyk
    keyPair,        \* the variable that setPassphrase and main assign
    worker,         \* goroutine -> what it is doing
    opened,         \* history: a set_passphrase of this program succeeded
    tailed,         \* history: a save of this program left bytes behind its text
    made,           \* how many key pairs were generated
    starts, wrong

disk   == <<keyFile, configFile, made>>
memory == <<ssyk, keyPair, opened, tailed>>
bounds == <<starts, wrong>>
vars   == <<disk, running, memory, worker, bounds>>

-----------------------------------------------------------------------------
(* configuration.json *)

\* The public key is 32 bytes in hexadecimal, another text, or missing.
HubKeys == {"valid", "bad", "none"}
Configurations == [address : HubAddresses \cup {NoAddress}, key : HubKeys]
NoConfiguration == [address |-> NoAddress, key |-> "none"]

KeyLength(key) ==
    IF key = "valid" THEN 64 ELSE IF key = "bad" THEN BadKeyLength ELSE 0

\* Where the closing brace of the JSON text stands.  A newline follows it.
Brace(cfg) == 37 + AddressLength[cfg.address] + KeyLength(cfg.key)

ASSUME LengthAssumption ==
    /\ AddressLength \in [HubAddresses \cup {NoAddress} -> Nat]
    /\ BadKeyLength \in Nat
ASSUME BoundsAssumption == MaxStarts \in Nat /\ MaxWrong \in Nat
ASSUME DebugAssumption ==
    Debug \in BOOLEAN /\ DebugConfig \in [address : HubAddresses, key : {"valid"}]
ASSUME MendedAssumption == Mended \subseteq {"receiver"}

\* A file is the text that was written to it last and, in "end", where its last
\* byte stands that is no white space.
Files == [cfg : Configurations, end : Nat]
EmptyFile == [cfg |-> NoConfiguration, end |-> 0]

\* nil, or a file that is not there, is nothing that is.
ASSUME NullAssumption ==
    /\ Null \notin Files
    /\ Null \notin [key : Nat, pass : Passphrases]
    /\ Null \notin [key : Nat, hub : Configurations]

\* Does text that is written over the file leave more of it than white space?
LeavesTail(file, cfg) == file.end > Brace(cfg) + 1

\* Mutation: the text is written behind what is there (O_APPEND).
RewrittenAfter(file, cfg) == [cfg |-> cfg, end |-> file.end + Brace(cfg)]

\* os.OpenFile(configFile, os.O_WRONLY, 0600) and Encode, which is one write: the
\* text replaces the first bytes, and what is behind them stays.
Rewritten(file, cfg) ==
    [cfg |-> cfg, end |-> IF LeavesTail(file, cfg) THEN file.end ELSE Brace(cfg)]

\* json.Unmarshal, whose error is dropped: it leaves the configuration empty if
\* anything but white space follows the text.
Whole(file) == file.end = Brace(file.cfg)
Parsed(file) == IF Whole(file) THEN file.cfg ELSE NoConfiguration

\* Under -debug each missing field gets a default.
WithDefaults(cfg) ==
    IF ~Debug THEN cfg
    ELSE [address |-> IF cfg.address = NoAddress THEN DebugConfig.address
                                                 ELSE cfg.address,
          key     |-> IF cfg.key = "none" THEN DebugConfig.key ELSE cfg.key]

-----------------------------------------------------------------------------
Idle == [at |-> "idle", pass |-> Null, cfg |-> NoConfiguration]
Places == {"idle", "config", "stat", "generate", "load", "state", "saving", "prompt"}

ClearMemory ==
    /\ ssyk' = Null
    /\ keyPair' = Null
    /\ opened' = FALSE
    /\ tailed' = FALSE
    /\ worker' = [w \in Workers |-> Idle]

Init ==
    /\ keyFile = Null
    /\ configFile = Null
    /\ running = "none"
    /\ ssyk = Null
    /\ keyPair = Null
    /\ worker = [w \in Workers |-> Idle]
    /\ opened = FALSE
    /\ tailed = FALSE
    /\ made = 0
    /\ starts = 0
    /\ wrong = 0

Goto(w, from, to) ==
    /\ worker[w].at = from
    /\ worker' = [worker EXCEPT ![w].at = to]

\* The value receivers of the handlers are copies of the variable web, made when
\* the handlers were registered, so that none ever sees what another assigned.
Seen == IF "receiver" \in Mended THEN ssyk ELSE Null

\* A user types a passphrase; only so many are wrong.
Right == IF keyFile = Null THEN Passphrases ELSE {keyFile.pass}
Type(pass) ==
    IF pass \in Right THEN UNCHANGED wrong
    ELSE wrong < MaxWrong /\ wrong' = wrong + 1

-----------------------------------------------------------------------------
(* main *)

\* serveLocalWebPage
startWeb ==
    /\ running = "none"
    /\ starts < MaxStarts
    /\ starts' = starts + 1
    /\ running' = "web"
    /\ ClearMemory
    /\ UNCHANGED <<disk, wrong>>

\* main with -cli: the passphrase is read, and initSasayaki called.
startCLI(w, pass) ==
    /\ running = "none"
    /\ starts < MaxStarts
    /\ starts' = starts + 1
    /\ Type(pass)
    /\ running' = "cli"
    /\ worker' = [worker EXCEPT ![w] = [at |-> "config", pass |-> pass,
                                        cfg |-> NoConfiguration]]
    /\ UNCHANGED <<disk, memory>>

\* What is missing in the configuration is asked for, and stored as it was typed.
\* initSasayakiState follows, of which nothing is kept, and the program ends.
prompt(w, address, key) ==
    LET cfg == [address |-> IF worker[w].cfg.address = NoAddress THEN address
                            ELSE worker[w].cfg.address,
                key     |-> IF worker[w].cfg.key = "none" THEN key
                            ELSE worker[w].cfg.key]
    IN  /\ worker[w].at = "prompt"
        /\ IF cfg = worker[w].cfg
           THEN UNCHANGED configFile
           ELSE configFile' = Rewritten(configFile, cfg)
        /\ running' = "none"
        /\ ClearMemory
        /\ UNCHANGED <<keyFile, made, bounds>>

\* The program is killed, or the user ends it.
stop ==
    /\ running # "none"
    /\ running' = "none"
    /\ ClearMemory
    /\ UNCHANGED <<disk, bounds>>

-----------------------------------------------------------------------------
(* setPassphrase, initSasayaki *)

setPassphrase(w, pass) ==
    /\ running = "web"
    /\ worker[w].at = "idle"
    /\ Seen = Null
    /\ Type(pass)
    /\ worker' = [worker EXCEPT ![w] = [at |-> "config", pass |-> pass,
                                        cfg |-> NoConfiguration]]
    /\ UNCHANGED <<disk, running, memory, starts>>

\* Mutation: a file that is not there is not created.
initConfigurationNoCreate(w) ==
    LET file == IF configFile = Null THEN EmptyFile ELSE configFile IN
    /\ worker[w].at = "config"
    /\ worker' = [worker EXCEPT ![w].at = "stat",
                                ![w].cfg = WithDefaults(Parsed(file))]
    /\ UNCHANGED <<disk, running, memory, bounds>>

initConfiguration(w) ==
    LET file == IF configFile = Null THEN EmptyFile ELSE configFile IN
    /\ worker[w].at = "config"
    /\ configFile' = file
    /\ worker' = [worker EXCEPT ![w].at = "stat",
                                ![w].cfg = WithDefaults(Parsed(file))]
    /\ UNCHANGED <<keyFile, made, running, memory, bounds>>

\* Mutation: a key pair that is there does not matter.
initKeyPairAnew(w) ==
    /\ Goto(w, "stat", "generate")
    /\ UNCHANGED <<disk, running, memory, bounds>>

\* initKeyPair looks whether there is a key pair.
initKeyPair(w) ==
    /\ Goto(w, "stat", IF keyFile = Null THEN "generate" ELSE "load")
    /\ UNCHANGED <<disk, running, memory, bounds>>

\* Where initSasayaki returns to.
Returned == IF running = "web" THEN "state" ELSE "prompt"

\* disco.GenerateAndSaveDiscoKeyPair
generate(w) ==
    /\ Goto(w, "generate", Returned)
    /\ made' = made + 1
    /\ keyFile' = [key |-> made + 1, pass |-> worker[w].pass]
    /\ keyPair' = made + 1
    /\ UNCHANGED <<configFile, running, ssyk, opened, tailed, bounds>>

\* Mutation: with := the key pair is assigned to a variable of the handler.
loadShadowed(w) ==
    /\ Goto(w, "load", Returned)
    /\ keyFile.pass = worker[w].pass
    /\ UNCHANGED <<disk, running, memory, bounds>>

\* disco.LoadDiscoKeyPair.
load(w) ==
    /\ Goto(w, "load", Returned)
    /\ keyFile.pass = worker[w].pass
    /\ keyPair' = keyFile.key
    /\ UNCHANGED <<disk, running, ssyk, opened, tailed, bounds>>

\* The same with the wrong passphrase: nil is assigned too, and the error
\* returned.  The command line ends.
loadWrong(w) ==
    /\ worker[w].at = "load"
    /\ keyFile.pass # worker[w].pass
    /\ running' = IF running = "web" THEN "web" ELSE "none"
    /\ worker' = [worker EXCEPT ![w] = Idle]
    /\ keyPair' = Null
    /\ UNCHANGED <<disk, ssyk, opened, tailed, bounds>>

\* Mutation: any public key will do.
initSasayakiStateUnchecked(w) ==
    /\ worker[w].at = "state"
    /\ worker' = [worker EXCEPT ![w] = Idle]
    /\ IF keyPair = Null
       THEN UNCHANGED <<ssyk, opened>>
       ELSE /\ ssyk' = [key |-> keyPair, hub |-> worker[w].cfg]
            /\ opened' = TRUE
    /\ UNCHANGED <<disk, running, keyPair, tailed, bounds>>

\* initSasayakiState: what it returns is assigned, also if that is nil and an
\* error.  Without a key pair it panics, which ends the request.
initSasayakiState(w) ==
    /\ worker[w].at = "state"
    /\ worker' = [worker EXCEPT ![w] = Idle]
    /\ IF worker[w].cfg.key # "valid"
       THEN /\ ssyk' = Null
            /\ UNCHANGED opened
       ELSE IF keyPair = Null
       THEN UNCHANGED <<ssyk, opened>>
       ELSE /\ ssyk' = [key |-> keyPair, hub |-> worker[w].cfg]
            /\ opened' = TRUE
    /\ UNCHANGED <<disk, running, keyPair, tailed, bounds>>

-----------------------------------------------------------------------------
(* setConfiguration *)

\* Mutation: the public key is taken as it is.
setConfigurationUnchecked(w, cfg) ==
    /\ running = "web"
    /\ worker[w].at = "idle"
    /\ Seen # Null
    /\ ssyk' = [ssyk EXCEPT !.hub = cfg]
    /\ worker' = [worker EXCEPT ![w] = [at |-> "saving", pass |-> Null, cfg |-> cfg]]
    /\ UNCHANGED <<disk, running, keyPair, opened, tailed, bounds>>

\* initHubManager: the hub's state is replaced, whoever is using it.
setConfiguration(w, cfg) ==
    /\ running = "web"
    /\ worker[w].at = "idle"
    /\ Seen # Null
    /\ cfg.key = "valid"
    /\ ssyk' = [ssyk EXCEPT !.hub = cfg]
    /\ worker' = [worker EXCEPT ![w] = [at |-> "saving", pass |-> Null, cfg |-> cfg]]
    /\ UNCHANGED <<disk, running, keyPair, opened, tailed, bounds>>

\* updateConfiguration, which panics if there is no file.
updateConfiguration(w) ==
    /\ worker[w].at = "saving"
    /\ worker' = [worker EXCEPT ![w] = Idle]
    /\ IF configFile = Null
       THEN UNCHANGED <<configFile, tailed>>
       ELSE /\ configFile' = Rewritten(configFile, worker[w].cfg)
            /\ tailed' = (tailed \/ LeavesTail(configFile, worker[w].cfg))
    /\ UNCHANGED <<keyFile, made, running, ssyk, keyPair, opened, bounds>>

-----------------------------------------------------------------------------
Next ==
    \/ startWeb
    \/ stop
    \/ \E w \in Workers :
          \/ \E pass \in Passphrases : startCLI(w, pass) \/ setPassphrase(w, pass)
          \/ \E address \in HubAddresses, key \in HubKeys \ {"none"} :
                prompt(w, address, key)
          \/ \E cfg \in Configurations : setConfiguration(w, cfg)
          \/ initConfiguration(w)
          \/ initKeyPair(w)
          \/ generate(w)
          \/ load(w)
          \/ loadWrong(w)
          \/ initSasayakiState(w)
          \/ updateConfiguration(w)

Spec == Init /\ [][Next]_vars

\* A goroutine goes on, and a user who has the passphrase types it until it is
\* taken.  Nobody has to configure, start or stop anything.
Fairness ==
    /\ \A w \in Workers :
          WF_vars(\/ initConfiguration(w) \/ initKeyPair(w) \/ generate(w)
                  \/ load(w) \/ loadWrong(w) \/ initSasayakiState(w)
                  \/ updateConfiguration(w))
    /\ WF_vars(\E w \in Workers, pass \in Right : setPassphrase(w, pass))

FairSpec == Spec /\ Fairness

-----------------------------------------------------------------------------
(* Properties *)

Nullable(S) == S \cup {Null}

\* Every variable has its type.  What handlers find in web.ssyk has a key pair
\* that was generated and a hub whose public key is one.
TypeOK ==
    /\ keyFile \in Nullable([key : 1 .. made, pass : Passphrases])
    /\ configFile \in Nullable(Files)
    /\ running \in {"none", "web", "cli"}
    /\ ssyk \in Nullable([key : 1 .. made, hub : Configurations])
    /\ ssyk # Null => ssyk.hub.key = "valid"
    /\ keyPair \in Nullable(1 .. made)
    /\ worker \in [Workers -> [at : Places, pass : Nullable(Passphrases),
                               cfg : Configurations]]
    /\ opened \in BOOLEAN
    /\ tailed \in BOOLEAN
    /\ made \in Nat
    /\ starts \in 0 .. MaxStarts
    /\ wrong \in 0 .. MaxWrong

\* Once a set_passphrase was answered with success, the other handlers work, and
\* another set_passphrase is refused: no request that ends with an error, and no
\* two at a time, make the program forget, unless updateConfiguration has left a
\* tail for one of them to read.
OpenedIsSeen == opened => Seen # Null \/ tailed

\* What initSasayakiState will take from the file.
Usable ==
    configFile # Null /\ WithDefaults(Parsed(configFile)).key = "valid"

\* A user who has got in once will get in again after a restart: initSasayakiState
\* takes the public key in the file, or the file has a tail.  Nothing in the web
\* UI could change a key that it does not take.
NotLockedOut == opened => Usable \/ ~Whole(configFile)

\* updateConfiguration opens the file without O_CREATE and panics if it is
\* missing: whoever gets there, from the web UI or the command line, has had it
\* created.
SaveFindsFile ==
    \A w \in Workers : worker[w].at \in {"saving", "prompt"} => configFile # Null

\* Once no wrong passphrase is typed any more (MaxWrong), the right one opens a
\* program that keeps finding a usable configuration.  Until then each wrong one
\* may undo what a right one has put into keyPair.
ConfiguredIsOpened ==
    (running = "web" /\ Usable) ~> (ssyk # Null \/ running # "web" \/ ~Usable)

\* The key pair in the file is number n, and no request is about to put another
\* in its place.  Two requests of a new user can both be (initKeyPair).
Settled(n) ==
    /\ keyFile # Null /\ keyFile.key = n
    /\ \A w \in Workers : worker[w].at # "generate"

\* From then on the user keeps this key pair, and the address that goes with it,
\* whatever is typed, killed and started again.
IdentityIsKept ==
    \A n \in 1 .. MaxStarts * Cardinality(Workers) : [](Settled(n) => []Settled(n))
=============================================================================
