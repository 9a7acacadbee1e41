--------------------------- MODULE LocalAppProofs ---------------------------
(***************************************************************************)
(* Proofs about LocalApp for any number of goroutines, any passphrases and *)
(* any configurations: what is opened stays open, and a restart opens it   *)
(* again with the key pair that was there, for as long as no save leaves   *)
(* bytes of a longer text in the file.                                     *)
(***************************************************************************)
EXTENDS LocalApp, TLAPS

\* What a worker that is past initConfiguration has read.
Reading == {"stat", "generate", "load", "state"}

InFile == WithDefaults(Parsed(configFile))

\* Files are never removed: whoever works on one finds it, and whoever works on
\* the key pair has a passphrase.
FilesThere ==
    /\ \A w \in Workers :
          /\ worker[w].at \in Reading \cup {"config"} => worker[w].pass \in Passphrases
          /\ worker[w].at \in Reading \cup {"prompt", "saving"} => configFile # Null
          /\ worker[w].at = "load" => keyFile # Null
    /\ opened => configFile # Null

\* Until a save leaves a tail, all that is in memory agrees with what is in the
\* file about whether there is a public key; after it, a file without a tail has
\* one.  Only the web server opens anything.
Coherent ==
    /\ opened => ssyk # Null \/ tailed
    /\ ssyk # Null \/ tailed => opened
    /\ opened => InFile.key = "valid" \/ (tailed /\ ~Whole(configFile))
    /\ \A w \in Workers :
          /\ worker[w].at = "saving" => opened /\ worker[w].cfg.key = "valid"
          /\ (running = "web" /\ worker[w].at \in Reading /\ ~tailed) =>
                (worker[w].cfg.key = "valid" <=> InFile.key = "valid")
          /\ running # "web" => worker[w].at # "state"
    /\ running # "web" => ~opened

WorkerTypes ==
    [Workers -> [at : Places, pass : Nullable(Passphrases), cfg : Configurations]]

IInv == TypeOK /\ FilesThere /\ Coherent

-----------------------------------------------------------------------------
(* configuration.json *)

LEMMA BraceType ==
    ASSUME NEW cfg \in Configurations PROVE Brace(cfg) \in Nat
<1>1. cfg.address \in HubAddresses \cup {NoAddress}
  BY DEF Configurations
<1>2. KeyLength(cfg.key) \in Nat
  BY LengthAssumption DEF KeyLength
<1> QED
  BY <1>1, <1>2, LengthAssumption DEF Brace

LEMMA FileTypes ==
    /\ EmptyFile \in Files
    /\ NoConfiguration \in Configurations
    /\ \A file \in Files : WithDefaults(Parsed(file)) \in Configurations
    /\ \A file \in Files, cfg \in Configurations : Rewritten(file, cfg) \in Files
<1>1. NoConfiguration \in Configurations
  BY DEF NoConfiguration, Configurations, HubKeys
<1>2. EmptyFile \in Files
  BY <1>1 DEF EmptyFile, Files
<1>3. ASSUME NEW cfg \in Configurations PROVE WithDefaults(cfg) \in Configurations
  BY DebugAssumption DEF WithDefaults, Configurations, HubKeys
<1>4. ASSUME NEW file \in Files PROVE Parsed(file) \in Configurations
  BY <1>1 DEF Parsed, Files
<1>5. ASSUME NEW file \in Files, NEW cfg \in Configurations
      PROVE  Rewritten(file, cfg) \in Files
  BY BraceType DEF Rewritten, Files
<1> QED
  BY <1>1, <1>2, <1>3, <1>4, <1>5

\* What leaves no tail is read back, and keeps its public key.
LEMMA ReadBack ==
    ASSUME NEW file, NEW cfg \in Configurations, cfg.key = "valid"
    PROVE  IF LeavesTail(file, cfg)
           THEN file \in Files => ~Whole(Rewritten(file, cfg))
           ELSE WithDefaults(Parsed(Rewritten(file, cfg))).key = "valid"
<1>1. CASE LeavesTail(file, cfg)
  <2>1. Rewritten(file, cfg) = [cfg |-> cfg, end |-> file.end]
    BY <1>1 DEF Rewritten
  <2>2. ASSUME file \in Files PROVE file.end # Brace(cfg)
    BY <1>1, <2>2, BraceType DEF LeavesTail, Files
  <2> QED
    BY <1>1, <2>1, <2>2 DEF Whole
<1>2. CASE ~LeavesTail(file, cfg)
  <2>1. Parsed(Rewritten(file, cfg)) = cfg
    BY <1>2 DEF Parsed, Rewritten, Whole
  <2> QED
    BY <1>2, <2>1 DEF WithDefaults
<1> QED
  BY <1>1, <1>2

-----------------------------------------------------------------------------
(* The steps *)

\* A program that starts or ends has forgotten everything.
LEMMA Forgotten ==
    ASSUME ClearMemory
    PROVE  worker' \in WorkerTypes /\ FilesThere' /\ Coherent'
<1>1. worker' \in WorkerTypes
  BY FileTypes DEF ClearMemory, Idle, Places, Nullable, WorkerTypes
<1>2. \A w \in Workers : worker'[w].at = "idle"
  BY DEF ClearMemory, Idle
<1>3. ssyk' = Null /\ opened' = FALSE /\ tailed' = FALSE
  BY DEF ClearMemory
<1> QED
  BY <1>1, <1>2, <1>3 DEF FilesThere, Coherent, Reading

LEMMA StartStep ==
    ASSUME IInv,
           \/ startWeb
           \/ stop
           \/ \E w \in Workers, pass \in Passphrases : startCLI(w, pass)
    PROVE  IInv'
<1>1. CASE startWeb
  <2>1. ClearMemory /\ UNCHANGED <<keyFile, configFile, made, wrong>>
    BY <1>1 DEF startWeb, disk
  <2>2. running' = "web" /\ starts' \in 0 .. MaxStarts
    BY <1>1, BoundsAssumption DEF startWeb, IInv, TypeOK
  <2>3. worker' \in WorkerTypes /\ FilesThere' /\ Coherent'
    BY <2>1, <2>2, Forgotten
  <2>4. ssyk' = Null /\ keyPair' = Null /\ opened' = FALSE /\ tailed' = FALSE
    BY <2>1 DEF ClearMemory
  <2>5. TypeOK'
    BY <2>1, <2>2, <2>3, <2>4 DEF IInv, TypeOK, Nullable, WorkerTypes
  <2> QED
    BY <2>3, <2>5 DEF IInv
<1>2. CASE stop
  <2>1. ClearMemory /\ UNCHANGED <<keyFile, configFile, made, starts, wrong>>
    BY <1>2 DEF stop, disk, bounds
  <2>2. running' = "none"
    BY <1>2 DEF stop
  <2>3. worker' \in WorkerTypes /\ FilesThere' /\ Coherent'
    BY <2>1, <2>2, Forgotten
  <2>4. ssyk' = Null /\ keyPair' = Null /\ opened' = FALSE /\ tailed' = FALSE
    BY <2>1 DEF ClearMemory
  <2>5. TypeOK'
    BY <2>1, <2>2, <2>3, <2>4 DEF IInv, TypeOK, Nullable, WorkerTypes
  <2> QED
    BY <2>3, <2>5 DEF IInv
<1>3. ASSUME NEW w \in Workers, NEW pass \in Passphrases, startCLI(w, pass)
      PROVE  IInv'
  <2>1. UNCHANGED <<keyFile, configFile, made, ssyk, keyPair, opened, tailed>>
    BY <1>3 DEF startCLI, disk, memory
  <2>2. running' = "cli" /\ starts' \in 0 .. MaxStarts /\ running = "none"
    BY <1>3, BoundsAssumption DEF startCLI, IInv, TypeOK
  <2>3. wrong' \in 0 .. MaxWrong
    BY <1>3, BoundsAssumption DEF startCLI, Type, IInv, TypeOK
  <2>4. worker' = [worker EXCEPT ![w] = [at |-> "config", pass |-> pass,
                                         cfg |-> NoConfiguration]]
    BY <1>3 DEF startCLI
  <2>5. worker' \in WorkerTypes
    BY <2>4, FileTypes DEF IInv, TypeOK, Places, Nullable, WorkerTypes
  <2>6. TypeOK'
    BY <2>1, <2>2, <2>3, <2>5 DEF IInv, TypeOK, WorkerTypes
  <2>7. FilesThere'
    BY <2>1, <2>4 DEF IInv, TypeOK, FilesThere, Reading
  <2>8. Coherent'
    BY <2>1, <2>2, <2>4 DEF IInv, TypeOK, Coherent, Reading, InFile
  <2> QED
    BY <2>6, <2>7, <2>8 DEF IInv
<1> QED
  BY <1>1, <1>2, <1>3

LEMMA PromptStep ==
    ASSUME IInv, NEW w \in Workers, NEW address \in HubAddresses,
           NEW key \in HubKeys \ {"none"}, prompt(w, address, key)
    PROVE  IInv'
<1> DEFINE cfg == [address |-> IF worker[w].cfg.address = NoAddress THEN address
                               ELSE worker[w].cfg.address,
                   key     |-> IF worker[w].cfg.key = "none" THEN key
                               ELSE worker[w].cfg.key]
<1>1. cfg \in Configurations
  BY DEF IInv, TypeOK, Configurations
<1>2. configFile \in Files
  BY DEF IInv, TypeOK, FilesThere, prompt, Nullable
<1>3. configFile' \in Files
  <2>1. CASE cfg = worker[w].cfg
    BY <2>1, <1>2 DEF IInv, TypeOK, prompt
  <2>2. CASE cfg # worker[w].cfg
    BY <2>2, <1>1, <1>2, FileTypes DEF prompt, Nullable
  <2> QED
    BY <2>1, <2>2
<1>4. ClearMemory /\ UNCHANGED <<keyFile, made, starts, wrong>> /\ running' = "none"
  BY DEF prompt, bounds
<1>5. worker' \in WorkerTypes /\ FilesThere' /\ Coherent'
  BY <1>4, Forgotten
<1>6. ssyk' = Null /\ keyPair' = Null /\ opened' = FALSE /\ tailed' = FALSE
  BY <1>4 DEF ClearMemory
<1>7. TypeOK'
  BY <1>3, <1>4, <1>5, <1>6 DEF IInv, TypeOK, Nullable, WorkerTypes
<1> QED
  BY <1>5, <1>7 DEF IInv

\* A passphrase is typed, and initKeyPair looks for the file.
LEMMA HandlerStep ==
    ASSUME IInv, NEW w \in Workers,
           \/ \E pass \in Passphrases : setPassphrase(w, pass)
           \/ initKeyPair(w)
    PROVE  IInv'
<1>1. ASSUME NEW pass \in Passphrases, setPassphrase(w, pass) PROVE IInv'
  <2>1. UNCHANGED <<keyFile, configFile, made, running, ssyk, keyPair, opened,
                    tailed, starts>>
    BY <1>1 DEF setPassphrase, disk, memory
  <2>2. wrong' \in 0 .. MaxWrong
    BY <1>1, BoundsAssumption DEF setPassphrase, Type, IInv, TypeOK
  <2>3. worker' = [worker EXCEPT ![w] = [at |-> "config", pass |-> pass,
                                         cfg |-> NoConfiguration]]
    BY <1>1 DEF setPassphrase
  <2>4. worker' \in WorkerTypes
    BY <2>3, FileTypes DEF IInv, TypeOK, Places, Nullable, WorkerTypes
  <2>5. TypeOK'
    BY <2>1, <2>2, <2>4 DEF IInv, TypeOK, WorkerTypes
  <2>6. FilesThere'
    BY <2>1, <2>3 DEF IInv, TypeOK, FilesThere, Reading
  <2>7. Coherent'
    BY <2>1, <2>3 DEF IInv, TypeOK, Coherent, Reading, InFile
  <2> QED
    BY <2>5, <2>6, <2>7 DEF IInv
<1>2. CASE initKeyPair(w)
  <2>1. UNCHANGED <<keyFile, configFile, made, running, ssyk, keyPair, opened,
                    tailed, starts, wrong>>
    BY <1>2 DEF initKeyPair, disk, memory, bounds
  <2> DEFINE to == IF keyFile = Null THEN "generate" ELSE "load"
  <2>2. worker[w].at = "stat" /\ worker' = [worker EXCEPT ![w].at = to]
    BY <1>2 DEF initKeyPair, Goto
  <2>3. worker' \in WorkerTypes
    BY <2>2 DEF IInv, TypeOK, Places, WorkerTypes
  <2>4. TypeOK'
    BY <2>1, <2>3 DEF IInv, TypeOK, WorkerTypes
  <2>5. FilesThere'
    BY <2>1, <2>2 DEF IInv, TypeOK, FilesThere, Reading
  <2>6. Coherent'
    BY <2>1, <2>2 DEF IInv, TypeOK, Coherent, Reading, InFile
  <2> QED
    BY <2>4, <2>5, <2>6 DEF IInv
<1> QED
  BY <1>1, <1>2

\* The end of initKeyPair: a key pair was made, or read, or not.
LEMMA KeyStep ==
    ASSUME IInv, NEW w \in Workers,
           generate(w) \/ load(w) \/ loadWrong(w)
    PROVE  IInv'
<1>1. CASE generate(w)
  <2>1. UNCHANGED <<configFile, running, ssyk, opened, tailed, starts, wrong>>
    BY <1>1 DEF generate, bounds
  <2>2. worker[w].at = "generate" /\ worker' = [worker EXCEPT ![w].at = Returned]
    BY <1>1 DEF generate, Goto
  <2>3. worker' \in WorkerTypes
    BY <2>2 DEF IInv, TypeOK, Places, Returned, WorkerTypes
  <2>4. made' \in Nat /\ made' = made + 1 /\ keyPair' \in 1 .. made'
    BY <1>1 DEF IInv, TypeOK, generate
  <2>5. keyFile' \in [key : 1 .. made', pass : Passphrases]
    <3>1. worker[w].pass \in Passphrases
      BY <2>2 DEF IInv, FilesThere, Reading
    <3> QED
      BY <1>1, <2>4, <3>1 DEF generate
  <2>6. ssyk' \in Nullable([key : 1 .. made', hub : Configurations])
    BY <2>1, <2>4 DEF IInv, TypeOK, Nullable
  <2>7. TypeOK'
    BY <2>1, <2>3, <2>4, <2>5, <2>6 DEF IInv, TypeOK, Nullable, WorkerTypes
  <2>8. keyFile' # Null
    BY <2>5, <2>4, NullAssumption
  <2>9. FilesThere'
    BY <2>1, <2>2, <2>8 DEF IInv, TypeOK, FilesThere, Reading, Returned
  <2>10. Coherent'
    BY <2>1, <2>2 DEF IInv, TypeOK, Coherent, Reading, InFile, Returned
  <2> QED
    BY <2>7, <2>9, <2>10 DEF IInv
<1>2. CASE load(w)
  <2>1. UNCHANGED <<keyFile, configFile, made, running, ssyk, opened, tailed,
                    starts, wrong>>
    BY <1>2 DEF load, disk, bounds
  <2>2. worker[w].at = "load" /\ worker' = [worker EXCEPT ![w].at = Returned]
    BY <1>2 DEF load, Goto
  <2>3. worker' \in WorkerTypes
    BY <2>2 DEF IInv, TypeOK, Places, Returned, WorkerTypes
  <2>4. keyPair' \in 1 .. made
    BY <1>2, <2>2 DEF IInv, TypeOK, FilesThere, load, Nullable
  <2>5. TypeOK'
    BY <2>1, <2>3, <2>4 DEF IInv, TypeOK, Nullable, WorkerTypes
  <2>6. FilesThere'
    BY <2>1, <2>2 DEF IInv, TypeOK, FilesThere, Reading, Returned
  <2>7. Coherent'
    BY <2>1, <2>2 DEF IInv, TypeOK, Coherent, Reading, InFile, Returned
  <2> QED
    BY <2>5, <2>6, <2>7 DEF IInv
<1>3. CASE loadWrong(w)
  <2>1. UNCHANGED <<keyFile, configFile, made, ssyk, opened, tailed, starts, wrong>>
    BY <1>3 DEF loadWrong, disk, bounds
  <2>2. /\ worker' = [worker EXCEPT ![w] = Idle]
        /\ running' = IF running = "web" THEN "web" ELSE "none"
        /\ keyPair' = Null
    BY <1>3 DEF loadWrong
  <2>3. worker' \in WorkerTypes
    BY <2>2, FileTypes DEF IInv, TypeOK, Places, Idle, Nullable, WorkerTypes
  <2>4. TypeOK'
    BY <2>1, <2>2, <2>3 DEF IInv, TypeOK, Nullable, WorkerTypes
  <2>5. FilesThere'
    BY <2>1, <2>2 DEF IInv, TypeOK, FilesThere, Reading, Idle
  <2>6. Coherent'
    BY <2>1, <2>2 DEF IInv, TypeOK, Coherent, Reading, InFile, Idle
  <2> QED
    BY <2>4, <2>5, <2>6 DEF IInv
<1> QED
  BY <1>1, <1>2, <1>3

LEMMA ConfigurationStep ==
    ASSUME IInv, NEW w \in Workers, initConfiguration(w)
    PROVE  IInv'
<1> DEFINE file == IF configFile = Null THEN EmptyFile ELSE configFile
<1>1. UNCHANGED <<keyFile, made, running, ssyk, keyPair, opened, tailed, starts,
                  wrong>>
  BY DEF initConfiguration, memory, bounds
<1>2. /\ worker[w].at = "config"
      /\ configFile' = file
      /\ worker' = [worker EXCEPT ![w].at = "stat",
                                  ![w].cfg = WithDefaults(Parsed(file))]
  BY DEF initConfiguration
<1>3. file \in Files
  BY FileTypes DEF IInv, TypeOK, Nullable
<1>4. configFile' # Null /\ WithDefaults(Parsed(file)) \in Configurations
  BY <1>2, <1>3, FileTypes, NullAssumption
<1>5. worker' \in WorkerTypes
  BY <1>2, <1>4 DEF IInv, TypeOK, Places, WorkerTypes
<1>6. TypeOK'
  BY <1>1, <1>2, <1>3, <1>5 DEF IInv, TypeOK, Nullable, WorkerTypes
<1>7. FilesThere'
  BY <1>1, <1>2, <1>4 DEF IInv, TypeOK, FilesThere, Reading
<1>8. Coherent'
  <2>1. CASE configFile # Null
    <3>1. file = configFile /\ UNCHANGED configFile
      BY <2>1, <1>2
    <3> QED
      BY <1>1, <1>2, <3>1 DEF IInv, TypeOK, Coherent, Reading, InFile
  <2>2. CASE configFile = Null
    <3>1. ~opened /\ ssyk = Null /\ ~tailed
      BY <2>2 DEF IInv, FilesThere, Coherent
    <3>2. \A v \in Workers : worker[v].at \notin Reading \cup {"prompt", "saving"}
      BY <2>2 DEF IInv, FilesThere
    <3>3. InFile' = WithDefaults(Parsed(file))
      BY <1>2 DEF InFile
    <3> HIDE DEF file
    <3> QED
      BY <1>1, <1>2, <3>1, <3>2, <3>3 DEF IInv, TypeOK, Coherent, Reading
  <2> QED
    BY <2>1, <2>2
<1> QED
  BY <1>6, <1>7, <1>8 DEF IInv

LEMMA StateStep ==
    ASSUME IInv, NEW w \in Workers, initSasayakiState(w)
    PROVE  IInv'
<1>1. UNCHANGED <<keyFile, configFile, made, running, keyPair, tailed, starts,
                  wrong>>
  BY DEF initSasayakiState, disk, bounds
<1>2. worker[w].at = "state" /\ worker' = [worker EXCEPT ![w] = Idle]
  BY DEF initSasayakiState
<1>3. worker' \in WorkerTypes
  BY <1>2, FileTypes DEF IInv, TypeOK, Places, Idle, Nullable, WorkerTypes
<1>4. configFile # Null
  BY <1>2 DEF IInv, FilesThere, Reading
<1>5. CASE worker[w].cfg.key # "valid"
  <2>1. ssyk' = Null /\ opened' = opened
    BY <1>5 DEF initSasayakiState
  <2>2. TypeOK'
    BY <1>1, <1>3, <2>1 DEF IInv, TypeOK, Nullable, WorkerTypes
  <2>3. FilesThere'
    BY <1>1, <1>2, <2>1 DEF IInv, TypeOK, FilesThere, Reading, Idle
  <2>4. Coherent'
    <3>1. opened => tailed
      BY <1>2, <1>5 DEF IInv, Coherent, Reading
    <3>2. running = "web"
      BY <1>2, <1>5 DEF IInv, TypeOK, Coherent
    <3> QED
      BY <1>1, <1>2, <2>1, <3>1, <3>2 DEF IInv, TypeOK, Coherent, Reading, InFile, Idle
  <2> QED
    BY <2>2, <2>3, <2>4 DEF IInv
<1>6. CASE worker[w].cfg.key = "valid" /\ keyPair = Null
  <2>1. UNCHANGED <<ssyk, opened>>
    BY <1>6 DEF initSasayakiState
  <2>2. TypeOK'
    BY <1>1, <1>3, <2>1 DEF IInv, TypeOK, WorkerTypes
  <2>3. FilesThere'
    BY <1>1, <1>2, <2>1 DEF IInv, TypeOK, FilesThere, Reading, Idle
  <2>4. Coherent'
    BY <1>1, <1>2, <2>1 DEF IInv, TypeOK, Coherent, Reading, InFile, Idle
  <2> QED
    BY <2>2, <2>3, <2>4 DEF IInv
<1>7. CASE worker[w].cfg.key = "valid" /\ keyPair # Null
  <2>1. ssyk' = [key |-> keyPair, hub |-> worker[w].cfg] /\ opened' = TRUE
    BY <1>7 DEF initSasayakiState
  <2>2. ssyk' \in [key : 1 .. made, hub : Configurations] /\ ssyk'.hub.key = "valid"
    BY <1>7, <2>1 DEF IInv, TypeOK, Nullable
  <2>3. TypeOK'
    BY <1>1, <1>3, <2>1, <2>2 DEF IInv, TypeOK, Nullable, WorkerTypes
  <2>4. ssyk' # Null
    BY <2>2, NullAssumption DEF IInv, TypeOK
  <2>5. FilesThere'
    BY <1>1, <1>2, <1>4 DEF IInv, TypeOK, FilesThere, Reading, Idle
  <2>6. Coherent'
    <3>1. running = "web"
      BY <1>2 DEF IInv, TypeOK, Coherent
    <3>2. InFile.key = "valid" \/ (tailed /\ ~Whole(configFile))
      <4>1. CASE tailed
        BY <4>1 DEF IInv, Coherent
      <4>2. CASE ~tailed
        BY <1>2, <1>7, <3>1, <4>2 DEF IInv, Coherent, Reading
      <4> QED
        BY <4>1, <4>2
    <3> QED
      BY <1>1, <1>2, <2>1, <2>4, <3>1, <3>2
         DEF IInv, TypeOK, Coherent, Reading, InFile, Idle
  <2> QED
    BY <2>3, <2>5, <2>6 DEF IInv
<1> QED
  BY <1>5, <1>6, <1>7

LEMMA SetConfigurationStep ==
    ASSUME IInv, NEW w \in Workers, NEW cfg \in Configurations,
           setConfiguration(w, cfg)
    PROVE  IInv'
<1>1. UNCHANGED <<keyFile, configFile, made, running, keyPair, opened, tailed,
                  starts, wrong>>
  BY DEF setConfiguration, disk, bounds
<1>2. /\ worker[w].at = "idle"
      /\ worker' = [worker EXCEPT ![w] = [at |-> "saving", pass |-> Null, cfg |-> cfg]]
      /\ ssyk' = [ssyk EXCEPT !.hub = cfg]
      /\ cfg.key = "valid"
  BY DEF setConfiguration
<1>3. ssyk # Null
  BY DEF setConfiguration, Seen
<1>4. ssyk' \in [key : 1 .. made, hub : Configurations] /\ ssyk'.hub.key = "valid"
  BY <1>2, <1>3 DEF IInv, TypeOK, Nullable
<1>5. worker' \in WorkerTypes
  BY <1>2 DEF IInv, TypeOK, Places, Nullable, WorkerTypes
<1>6. TypeOK'
  BY <1>1, <1>4, <1>5 DEF IInv, TypeOK, Nullable, WorkerTypes
<1>7. ssyk' # Null
  BY <1>4, NullAssumption DEF IInv, TypeOK
<1>8. configFile # Null
  BY <1>3 DEF IInv, FilesThere, Coherent
<1>9. FilesThere'
  BY <1>1, <1>2, <1>8 DEF IInv, TypeOK, FilesThere, Reading
<1>10. Coherent'
  <2>1. running = "web" /\ opened = TRUE
    BY <1>3 DEF IInv, TypeOK, Coherent
  <2> QED
    BY <1>1, <1>2, <1>7, <2>1 DEF IInv, TypeOK, Coherent, Reading, InFile
<1> QED
  BY <1>6, <1>9, <1>10 DEF IInv

LEMMA SaveStep ==
    ASSUME IInv, NEW w \in Workers, updateConfiguration(w)
    PROVE  IInv'
<1>1. UNCHANGED <<keyFile, made, running, ssyk, keyPair, opened, starts, wrong>>
  BY DEF updateConfiguration, bounds
<1>2. worker[w].at = "saving" /\ worker' = [worker EXCEPT ![w] = Idle]
  BY DEF updateConfiguration
<1>3. configFile # Null
  BY <1>2 DEF IInv, FilesThere
<1>4. /\ configFile' = Rewritten(configFile, worker[w].cfg)
      /\ tailed' = (tailed \/ LeavesTail(configFile, worker[w].cfg))
  BY <1>3 DEF updateConfiguration
<1>5. configFile \in Files /\ worker[w].cfg \in Configurations
  BY <1>3 DEF IInv, TypeOK, Nullable
<1>6. configFile' \in Files
  BY <1>4, <1>5, FileTypes
<1>7. worker' \in WorkerTypes
  BY <1>2, FileTypes DEF IInv, TypeOK, Places, Idle, Nullable, WorkerTypes
<1>8. TypeOK'
  BY <1>1, <1>4, <1>5, <1>6, <1>7 DEF IInv, TypeOK, Nullable, WorkerTypes
<1>9. configFile' # Null
  BY <1>6, NullAssumption
<1>10. FilesThere'
  BY <1>1, <1>2, <1>9 DEF IInv, TypeOK, FilesThere, Reading, Idle
<1>11. Coherent'
  <2>1. opened /\ worker[w].cfg.key = "valid"
    BY <1>2 DEF IInv, Coherent
  <2>2. CASE LeavesTail(configFile, worker[w].cfg)
    <3>1. tailed' /\ ~Whole(configFile')
      BY <1>4, <1>5, <2>1, <2>2, ReadBack
    <3> QED
      BY <1>1, <1>2, <2>1, <3>1 DEF IInv, TypeOK, Coherent, Reading, Idle
  <2>3. CASE ~LeavesTail(configFile, worker[w].cfg)
    <3>1. tailed' = tailed
      BY <1>4, <2>3 DEF IInv, TypeOK
    <3>2. InFile'.key = "valid"
      BY <1>4, <1>5, <2>1, <2>3, ReadBack DEF InFile
    <3>3. ~tailed => InFile.key = "valid"
      BY <2>1 DEF IInv, Coherent
    <3> QED
      BY <1>1, <1>2, <2>1, <3>1, <3>2, <3>3 DEF IInv, TypeOK, Coherent, Reading, Idle
  <2> QED
    BY <2>2, <2>3
<1> QED
  BY <1>8, <1>10, <1>11 DEF IInv

-----------------------------------------------------------------------------
(* The theorems *)

LEMMA InitIInv == Init => IInv
<1> SUFFICES ASSUME Init PROVE IInv
  OBVIOUS
<1>1. worker \in WorkerTypes /\ \A w \in Workers : worker[w].at = "idle"
  BY FileTypes DEF Init, Idle, Places, Nullable, WorkerTypes
<1>2. /\ keyFile = Null /\ configFile = Null /\ made = 0
      /\ running = "none" /\ ssyk = Null /\ keyPair = Null /\ opened = FALSE /\ tailed = FALSE
      /\ starts \in 0 .. MaxStarts /\ wrong \in 0 .. MaxWrong
  BY BoundsAssumption DEF Init
<1>3. TypeOK
  BY <1>1, <1>2 DEF TypeOK, Nullable, WorkerTypes
<1>4. FilesThere /\ Coherent
  BY <1>1 DEF Init, FilesThere, Coherent, Reading
<1> QED
  BY <1>3, <1>4 DEF IInv

LEMMA NextIInv == IInv /\ [Next]_vars => IInv'
<1> SUFFICES ASSUME IInv, [Next]_vars PROVE IInv'
  OBVIOUS
<1>1. CASE UNCHANGED vars
  BY <1>1 DEF vars, disk, memory, bounds, IInv, TypeOK, FilesThere, Coherent, InFile
<1>2. ASSUME NEW w \in Workers,
             \/ \E address \in HubAddresses, key \in HubKeys \ {"none"} :
                   prompt(w, address, key)
             \/ \E cfg \in Configurations : setConfiguration(w, cfg)
      PROVE  IInv'
  BY <1>2, PromptStep, SetConfigurationStep
<1>3. ASSUME NEW w \in Workers,
             \/ initConfiguration(w)
             \/ initSasayakiState(w)
             \/ updateConfiguration(w)
      PROVE  IInv'
  BY <1>3, ConfigurationStep, StateStep, SaveStep
<1> QED
  BY <1>1, <1>2, <1>3, StartStep, HandlerStep, KeyStep DEF Next

\* Every variable has its type, and what the handlers find in web.ssyk has a key
\* pair and a usable hub, whatever is mended in the code (initSasayakiState,
\* setConfiguration).
THEOREM TypeCorrect == Spec => []TypeOK
<1>1. IInv => TypeOK
  BY DEF IInv
<1> QED
  BY <1>1, InitIInv, NextIInv, PTL DEF Spec

\* updateConfiguration finds the file that it opens without O_CREATE, for any
\* number of requests at a time and whenever the program is killed.
THEOREM SaveWorks == Spec => []SaveFindsFile
<1>1. IInv => SaveFindsFile
  BY DEF IInv, FilesThere, SaveFindsFile
<1> QED
  BY <1>1, InitIInv, NextIInv, PTL DEF Spec

\* If the handlers see what one of them assigns, a program that was opened stays
\* open until updateConfiguration leaves a tail: no request of setPassphrase,
\* failed or interleaved, puts nil over what initSasayaki returned to another one
\* (webserver.go:262) unless it has read such a file.
THEOREM StaysOpen ==
    ASSUME "receiver" \in Mended PROVE Spec => []OpenedIsSeen
<1>1. IInv => OpenedIsSeen
  BY DEF IInv, Coherent, OpenedIsSeen, Seen
<1> QED
  BY <1>1, InitIInv, NextIInv, PTL DEF Spec

\* And it opens again after a restart: of all that setConfiguration and a prompt
\* write, in any order and whenever the program is killed, only a tail can keep
\* the hub's key from being read (init.go:70).
THEOREM OpensAgain == Spec => []NotLockedOut
<1>1. IInv => NotLockedOut
  BY DEF IInv, FilesThere, Coherent, NotLockedOut, Usable, InFile
<1> QED
  BY <1>1, InitIInv, NextIInv, PTL DEF Spec

-----------------------------------------------------------------------------
(* The key pair *)

LEMMA SettledStep ==
    ASSUME IInv, [Next]_vars, NEW n, Settled(n)
    PROVE  Settled(n)'
<1>1. keyFile # Null /\ keyFile.key = n /\ \A w \in Workers : worker[w].at # "generate"
  BY DEF Settled
<1>2. keyFile' = keyFile
  BY <1>1 DEF Next, vars, disk, startWeb, stop, startCLI, prompt, setPassphrase,
     initConfiguration, initKeyPair, Goto, generate, load, loadWrong,
     initSasayakiState, setConfiguration, updateConfiguration
<1>3. ASSUME NEW v \in Workers PROVE worker'[v].at # "generate"
  <2>1. worker \in WorkerTypes /\ worker[v].at # "generate"
    BY <1>1 DEF IInv, TypeOK, WorkerTypes
  <2>2. CASE startWeb \/ stop
    BY <2>2 DEF startWeb, stop, ClearMemory, Idle
  <2>3. CASE UNCHANGED vars
    BY <2>1, <2>3 DEF vars
  <2>4. ASSUME NEW w \in Workers,
               \/ \E pass \in Passphrases : startCLI(w, pass) \/ setPassphrase(w, pass)
               \/ \E cfg \in Configurations : setConfiguration(w, cfg)
               \/ initConfiguration(w)
        PROVE  worker'[v].at # "generate"
    BY <2>1, <2>4 DEF startCLI, setPassphrase, setConfiguration, initConfiguration,
                      WorkerTypes
  <2>5. ASSUME NEW w \in Workers,
               \/ \E address \in HubAddresses, key \in HubKeys \ {"none"} :
                     prompt(w, address, key)
               \/ loadWrong(w) \/ initSasayakiState(w) \/ updateConfiguration(w)
        PROVE  worker'[v].at # "generate"
    <3>1. \/ worker' = [u \in Workers |-> Idle]
          \/ worker' = [worker EXCEPT ![w] = Idle]
      BY <2>5 DEF prompt, ClearMemory, loadWrong, initSasayakiState, updateConfiguration
    <3>2. Idle.at = "idle"
      BY DEF Idle
    <3> QED
      BY <2>1, <3>1, <3>2 DEF WorkerTypes
  <2>6. ASSUME NEW w \in Workers, initKeyPair(w) \/ generate(w) \/ load(w)
        PROVE  worker'[v].at # "generate"
    BY <1>1, <2>1, <2>6 DEF initKeyPair, generate, load, Goto, Returned, WorkerTypes
  <2> QED
    BY <2>2, <2>3, <2>4, <2>5, <2>6 DEF Next
<1> QED
  BY <1>1, <1>2, <1>3 DEF Settled

\* A key pair that no request is about to replace is never replaced (initKeyPair,
\* GenerateAndSaveDiscoKeyPair), for any number of requests, kills and starts.
THEOREM KeyPairKept == Spec => IdentityIsKept
<1>1. ASSUME NEW n \in 1 .. MaxStarts * Cardinality(Workers)
      PROVE  Spec => [](Settled(n) => []Settled(n))
  <2>1. IInv /\ [Next]_vars /\ Settled(n) => Settled(n)'
    BY SettledStep
  <2> QED
    BY <2>1, InitIInv, NextIInv, PTL DEF Spec
<1> QED
  BY <1>1 DEF IdentityIsKept
=============================================================================
