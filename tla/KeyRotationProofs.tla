-------------------------- MODULE KeyRotationProofs --------------------------
(***************************************************************************)
(* For any group of keys, any passwords and any number of rotations,       *)
(* disconnected clients, crashes and failed file operations: a key is      *)
(* never a torn file, and without rotations beside each other no group is  *)
(* left half rotated.                                                      *)
(***************************************************************************)
EXTENDS KeyRotation, TLAPS

\* Files that were written whole, and the journals a rotation publishes.
Whole == {Encrypted(p, t) : p \in Passwords, t \in 0..MaxTransactions}
Published == {Entries(t, p) : t \in 1..MaxTransactions, p \in Passwords}

Reading == [at : {"apply"}, journal : Published, done : SUBSET Keys, then : Callers]
States == Idle \union Loading \union Requested \union Staging \union Reading

\* The disk and the rotations: a key is a whole file, and a journal, on the disk or
\* read by a rotation, names the files of one rotation under one password.
RotationTyped ==
    /\ keyFile \in [Keys -> Whole]
    /\ staged \in [1..MaxTransactions -> [Keys -> Files \union {NoFile}]]
    /\ journal \in Published \union {NoFile}
    /\ rotation \in [Slots -> States]
    /\ transactions \in 0..MaxTransactions
    /\ faults \in 0..MaxFaults
    /\ overlap \in BOOLEAN

\* The process is being started.
Starting(state) ==
    \/ state.at \in {"stopped", "load"}
    \/ state.at = "apply" /\ state.then.at = "load"

\* Only rotations go on without their client, and none survives the process.
Processes ==
    /\ \A w \in Slots \ {0} : rotation[w] = Ready \/ Threaded(rotation[w])
    /\ Starting(rotation[0]) => Alone(0)

\* What a rotation may rely on when no other is at work: no journal appears before
\* its own, its verified files stay, and what it has replaced stays replaced.
Worker(w) ==
    LET state == rotation[w]
    IN  /\ state.at \in {"decrypt", "stage", "publish"} => journal = NoFile
        /\ state.at \in {"stage", "publish"} =>
              \A k \in state.verified : staged[state.tx][k] = Encrypted(state.new, state.tx)
        /\ state.at = "publish" => state.verified = Keys
        /\ state.at = "apply" =>
              /\ journal = state.journal
              /\ \A k \in state.done : Renamed(journal, k)

Undivided == OnePassword /\ JournalCanComplete

\* Rotations one after another.
InTurn == ~overlap => Undivided /\ \E a \in Slots : Alone(a) /\ Worker(a)

RotationInv == RotationTyped /\ Processes /\ InTurn

-----------------------------------------------------------------------------
(* Files and journals.                                                      *)

\* An encrypted file is a file, and none of them is absent.
LEMMA EncryptedFile ==
    ASSUME NEW p \in Passwords, NEW t \in 0..MaxTransactions + 1
    PROVE  /\ Encrypted(p, t) \in Files
           /\ Encrypted(p, t) # NoFile
           /\ Encrypted(p, t).password = p
           /\ Encrypted(p, t).tx = t
  BY RotationConstants DEF Encrypted, Files

\* A torn file is one too.
LEMMA TornFile == Torn \in Files
  BY RotationConstants, EncryptedFile DEF Torn

\* A whole file is a file, and is not torn.
LEMMA WholeFile ==
    ASSUME NEW file \in Whole
    PROVE  file \in Files /\ file # Torn
<1>1. PICK p \in Passwords, t \in 0..MaxTransactions : file = Encrypted(p, t)
  BY DEF Whole
<1>2. t \in 0..MaxTransactions + 1 /\ t # MaxTransactions + 1
  BY RotationConstants
<1>3. Encrypted(p, t) \in Files /\ Encrypted(p, t).tx = t
  BY <1>2, EncryptedFile
<1>4. Torn.tx = MaxTransactions + 1
  BY RotationConstants, EncryptedFile DEF Torn
<1>. QED BY <1>1, <1>2, <1>3, <1>4

\* The fields of a journal.
LEMMA EntriesFields ==
    ASSUME NEW t \in 1..MaxTransactions, NEW p \in Passwords
    PROVE  /\ Entries(t, p) # NoFile
           /\ Entries(t, p).tx = t
           /\ \A k \in Keys : /\ Entries(t, p).hash[k] = Encrypted(p, t)
                              /\ Encrypted(p, t) \in Whole
                              /\ Encrypted(p, t) \in Files
                              /\ Encrypted(p, t) # NoFile
<1>1. t \in 0..MaxTransactions /\ t \in 0..MaxTransactions + 1
  BY RotationConstants
<1>. QED BY <1>1, RotationConstants, EncryptedFile DEF Entries, Whole

\* A journal is one of the kind TypeOK names.
LEMMA PublishedKind ==
    ASSUME NEW read \in Published
    PROVE  read \in Journals
<1>1. PICK t \in 1..MaxTransactions, p \in Passwords : read = Entries(t, p)
  BY DEF Published
<1>2. \A k \in Keys : Encrypted(p, t) \in Files
  BY EntriesFields
<1>. QED BY <1>1, <1>2 DEF Entries, Journals

-----------------------------------------------------------------------------
(* What a rotation is doing.                                                *)

\* A state is of the kind its step says.
LEMMA StateKinds ==
    ASSUME NEW state \in States
    PROVE  /\ state.at = "load" => state \in Loading
           /\ state.at = "decrypt" => state \in Requested
           /\ state.at \in {"stage", "publish"} => state \in Staging
           /\ state.at = "apply" => state \in Reading
           /\ state.at = "stopped" => state = Stopped
           /\ state.at = "ready" => state = Ready
  BY DEF States, Idle, Stopped, Ready, Loading, Requested, Staging, Reading

\* The states without data.
LEMMA PlainStates ==
    /\ Ready \in States /\ Ready.at = "ready"
    /\ Stopped \in States /\ Stopped.at = "stopped"
    /\ ~Starting(Ready) /\ Starting(Stopped)
  BY DEF States, Idle, Ready, Stopped, Starting

\* What a recovery goes on with.
LEMMA CallerKinds ==
    ASSUME NEW then \in Callers
    PROVE  /\ then.at \in {"ready", "rotated", "load", "decrypt"}
           /\ then.at = "ready" => then = Ready
           /\ then.at = "rotated" => then = Answered
           /\ then.at # "rotated" => then # Answered /\ then \in States
  BY DEF Callers, Ready, Answered, Loading, Requested, States, Idle

\* One rotation moves, and the others stay where they are.
LEMMA GoesTo ==
    ASSUME RotationTyped, NEW w \in Slots, NEW state \in States, Goes(w, state)
    PROVE  /\ rotation' \in [Slots -> States]
           /\ rotation'[w] = state
           /\ \A v \in Slots \ {w} : rotation'[v] = rotation[v]
           /\ Alone(w)' <=> Alone(w)
  BY DEF RotationTyped, Goes, Alone

\* It moves within what goes on without a client, or belongs to the process.
LEMMA GoesOn ==
    ASSUME RotationTyped, Processes, NEW w \in Slots, NEW state \in States,
           Goes(w, state),
           w # 0 => rotation[w] # Ready /\ (state = Ready \/ Threaded(state)),
           w = 0 /\ Starting(state) => Starting(rotation[0])
    PROVE  Processes'
<1>1. \A v \in Slots \ {0} : rotation'[v] = Ready \/ Threaded(rotation'[v])
  BY GoesTo DEF Processes
<1>2. 0 \in Slots
  BY RotationConstants DEF Slots
<1>3. CASE w = 0
  BY <1>1, <1>2, <1>3, GoesTo DEF Processes
<1>4. CASE w # 0
  <2>1. ~Starting(rotation[0])
    BY <1>4 DEF Processes, Alone
  <2>2. rotation'[0] = rotation[0]
    BY <1>2, <1>4, GoesTo
  <2>. QED BY <1>1, <2>1, <2>2 DEF Processes
<1>. QED BY <1>3, <1>4

\* A rotation at work that follows no overlap is the only one.
LEMMA OnlyWorker ==
    ASSUME RotationInv, ~overlap, NEW w \in Slots, rotation[w] # Ready
    PROVE  Alone(w) /\ Worker(w) /\ Undivided
<1>1. PICK a \in Slots : Alone(a) /\ Worker(a)
  BY DEF RotationInv, InTurn
<1>2. a = w
  BY <1>1 DEF Alone
<1>. QED BY <1>1, <1>2 DEF RotationInv, InTurn

\* A rotation that has nothing to do relies on nothing.
LEMMA IdleWorker ==
    ASSUME NEW w \in Slots,
           rotation[w].at \in {"ready", "stopped", "load"}
    PROVE  Worker(w)
  BY DEF Worker
-----------------------------------------------------------------------------
(* The steps of the process.                                                *)

\* What is left to show of a step that leaves the disk as it is.
LEMMA DiskKept ==
    ASSUME RotationInv, UNCHANGED <<keyFile, staged, journal>>,
           transactions' \in 0..MaxTransactions, faults' \in 0..MaxFaults,
           overlap' \in BOOLEAN, rotation' \in [Slots -> States],
           Processes',
           ~overlap' => Undivided /\ \E w \in Slots : Alone(w)' /\ Worker(w)'
    PROVE  RotationInv'
<1>1. RotationTyped'
  BY DEF RotationInv, RotationTyped
<1>2. Undivided => Undivided'
  BY DEF Undivided, OnePassword, JournalCanComplete, Decrypts, Renamed
<1>. QED BY <1>1, <1>2 DEF RotationInv, InTurn

\* A new group has one password and no journal.
LEMMA RotationInvInit == Init => RotationInv
<1>. SUFFICES ASSUME Init PROVE RotationInv
  OBVIOUS
<1>1. Encrypted(FirstPassword, 0) \in Whole
  BY RotationConstants DEF Whole
<1>2. RotationTyped
  <2>1. rotation \in [Slots -> States]
    BY PlainStates DEF Init
  <2>2. keyFile \in [Keys -> Whole]
    BY <1>1 DEF Init
  <2>3. staged \in [1..MaxTransactions -> [Keys -> Files \union {NoFile}]]
    BY DEF Init
  <2>4. journal = NoFile /\ transactions = 0 /\ faults = 0 /\ overlap = FALSE
    BY DEF Init
  <2>5. 0 \in 0..MaxTransactions /\ 0 \in 0..MaxFaults
    BY RotationConstants
  <2>. QED BY <2>1, <2>2, <2>3, <2>4, <2>5 DEF RotationTyped
<1>3. 0 \in Slots /\ rotation[0] = Stopped /\ Alone(0)
  BY RotationConstants DEF Init, Slots, Alone
<1>4. Processes
  BY <1>3 DEF Init, Processes
<1>5. Worker(0)
  BY <1>3, PlainStates, IdleWorker
<1>6. \A k \in Keys : keyFile[k].password = FirstPassword
  BY RotationConstants, EncryptedFile DEF Init
<1>7. Undivided
  BY <1>6, RotationConstants
  DEF Init, Undivided, OnePassword, Decrypts, JournalCanComplete
<1>. QED BY <1>2, <1>3, <1>4, <1>5, <1>7 DEF RotationInv, InTurn

\* A recovery reads the journal, or there is none and its caller goes on.
LEMMA RecoverState ==
    ASSUME RotationTyped, NEW then \in Callers \cap States
    PROVE  /\ Recover(then) \in States
           /\ journal = NoFile => Recover(then) = then
           /\ journal # NoFile =>
                 /\ Recover(then).at = "apply" /\ Recover(then).then = then
                 /\ Recover(then).journal = journal /\ Recover(then).done = {}
<1>1. CASE journal = NoFile
  BY <1>1 DEF Recover
<1>2. CASE journal # NoFile
  <2>1. journal \in Published
    BY <1>2 DEF RotationTyped
  <2>2. Apply(journal, then) \in Reading
    BY <2>1 DEF Reading, Apply
  <2>. QED BY <1>2, <2>2 DEF Recover, Apply, States
<1>. QED BY <1>1, <1>2

\* Whoever recovers alone has read the journal that is there.
LEMMA RecoverWorker ==
    ASSUME RotationTyped, NEW w \in Slots, NEW then \in Callers \cap States,
           Goes(w, Recover(then)), UNCHANGED journal
    PROVE  Worker(w)'
<1>1. rotation'[w] = Recover(then)
  BY RecoverState, GoesTo
<1>2. CASE journal = NoFile
  <2>1. rotation'[w] = then /\ journal' = NoFile
    BY <1>1, <1>2, RecoverState
  <2>2. then.at \in {"ready", "load", "decrypt"}
    BY CallerKinds DEF States, Idle, Stopped, Ready, Loading, Requested, Staging, Reading
  <2>. QED BY <2>1, <2>2 DEF Worker
<1>3. CASE journal # NoFile
  <2>1. /\ rotation'[w].at = "apply" /\ rotation'[w].journal = journal'
        /\ rotation'[w].done = {}
    BY <1>1, <1>3, RecoverState
  <2>. QED BY <2>1 DEF Worker
<1>. QED BY <1>2, <1>3

\* A recovery starts the process when its caller does.
LEMMA RecoverStarts ==
    ASSUME RotationTyped, NEW then \in Callers \cap States,
           then.at # "load"
    PROVE  ~Starting(Recover(then))
<1>1. then.at \in {"ready", "decrypt"}
  BY CallerKinds DEF States, Idle, Stopped, Ready, Loading, Requested, Staging, Reading
<1>. QED BY <1>1, RecoverState DEF Starting

\* Any state the process starts from is one nothing goes on beside.
LEMMA RotationInvStart ==
    ASSUME RotationInv, Start
    PROVE  RotationInv'
<1>. DEFINE then == [at |-> "load"]
<1>1. then \in Callers \cap States /\ 0 \in Slots
  BY RotationConstants DEF Callers, States, Loading, Slots
<1>2. Goes(0, Recover(then)) /\ Recover(then) \in States /\ Starting(rotation[0])
  BY <1>1, RecoverState, PlainStates DEF Start, RotationInv
<1>3. Processes' /\ rotation' \in [Slots -> States]
  BY <1>1, <1>2, GoesOn, GoesTo DEF RotationInv
<1>4. Alone(0)'
  BY <1>1, <1>2, GoesTo DEF RotationInv, Processes
<1>5. Worker(0)'
  BY <1>1, <1>2, RecoverWorker DEF Start, RotationInv
<1>6. UNCHANGED <<keyFile, staged, journal, transactions, faults, overlap>>
  BY DEF Start
<1>. QED
  BY <1>1, <1>3, <1>4, <1>5, <1>6, DiskKept DEF RotationInv, RotationTyped, InTurn

\* Keys that all open with one password end what an overlap has left.
LEMMA RotationInvLoad ==
    ASSUME RotationInv, NEW p \in Passwords, LoadKeys(p)
    PROVE  RotationInv'
<1>1. PICK state \in Idle : Goes(0, state)
  BY DEF LoadKeys, Idle
<1>2. state \in States /\ 0 \in Slots /\ Starting(rotation[0]) /\ rotation[0].at = "load"
  BY RotationConstants DEF States, Slots, LoadKeys, Starting
<1>3. Processes' /\ rotation' \in [Slots -> States] /\ rotation'[0] = state
  BY <1>1, <1>2, GoesOn, GoesTo DEF RotationInv
<1>4. Alone(0)'
  BY <1>1, <1>2, GoesTo DEF RotationInv, Processes
<1>5. rotation'[0].at \in {"ready", "stopped"}
  BY <1>1, <1>3, PlainStates DEF Idle
<1>6. Worker(0)'
  BY <1>5 DEF Worker
<1>7. ~overlap' => Undivided
  <2>1. CASE ~overlap
    BY <2>1 DEF RotationInv, InTurn
  <2>2. CASE journal = NoFile /\ Decrypts(p)
    BY <2>2 DEF Undivided, OnePassword, JournalCanComplete
  <2>. QED BY <2>1, <2>2 DEF LoadKeys, RotationInv, RotationTyped
<1>8. UNCHANGED <<keyFile, staged, journal, transactions, faults>> /\ overlap' \in BOOLEAN
  BY DEF LoadKeys, RotationInv, RotationTyped
<1>. QED
  BY <1>2, <1>3, <1>4, <1>6, <1>7, <1>8, DiskKept DEF RotationInv, RotationTyped

\* A request that finds another rotation at work is an overlap, and else it is alone.
LEMMA RotationInvRequest ==
    ASSUME RotationInv, NEW then \in Callers \cap States,
           then.at # "load",
           Permitted, Goes(0, Recover(then)),
           overlap' = (overlap \/ ~Alone(0)),
           UNCHANGED <<keyFile, staged, journal, transactions, faults>>
    PROVE  RotationInv'
<1>1. 0 \in Slots /\ Recover(then) \in States
  BY RotationConstants, RecoverState DEF Slots, RotationInv
<1>2. ~Starting(Recover(then))
  BY RecoverStarts DEF RotationInv
<1>3. Processes' /\ rotation' \in [Slots -> States]
  BY <1>1, <1>2, GoesOn, GoesTo DEF RotationInv
<1>4. ~overlap' => Alone(0)' /\ ~overlap
  BY <1>1, GoesTo DEF RotationInv
<1>5. Worker(0)'
  BY <1>1, RecoverWorker DEF RotationInv
<1>6. overlap' \in BOOLEAN
  BY DEF RotationInv, RotationTyped
<1>. QED
  BY <1>1, <1>3, <1>4, <1>5, <1>6, DiskKept DEF RotationInv, RotationTyped, InTurn

\* An issuer completes the journal before it signs.
LEMMA RotationInvUse ==
    ASSUME RotationInv, UseKeys
    PROVE  RotationInv'
<1>1. Ready \in Callers \cap States /\ Ready.at # "load"
  BY PlainStates DEF Callers
<1>2. Recover(Ready) = Apply(journal, Ready)
  BY DEF Recover, UseKeys
<1>. QED BY <1>1, <1>2, RotationInvRequest DEF UseKeys

\* A rotation is asked for.
LEMMA RotationInvRotate ==
    ASSUME RotationInv, NEW old \in Passwords, NEW new \in Passwords, Rotate(old, new)
    PROVE  RotationInv'
<1>. DEFINE then == Request(old, new)
<1>1. then \in Requested
  BY DEF Request, Requested
<1>2. then \in Callers \cap States /\ then.at # "load"
  BY <1>1 DEF Request, Callers, States
<1>. QED BY <1>2, RotationInvRequest DEF Rotate

\* The client leaves: what it had begun moves on without it, and is still alone.
LEMMA RotationInvDisconnect ==
    ASSUME RotationInv, NEW w \in Slots, Disconnect(w)
    PROVE  RotationInv'
<1>1. /\ w # 0 /\ 0 \in Slots /\ rotation[w] = Ready /\ Threaded(rotation[0])
      /\ rotation \in [Slots -> States]
      /\ rotation' = [rotation EXCEPT ![0] = Ready, ![w] = rotation[0]]
  BY RotationConstants DEF Disconnect, Slots, RotationInv, RotationTyped
<1>2. /\ rotation' \in [Slots -> States]
      /\ rotation'[0] = Ready /\ rotation'[w] = rotation[0]
      /\ \A v \in Slots \ {0, w} : rotation'[v] = rotation[v]
  BY <1>1, PlainStates
<1>3. Processes'
  BY <1>1, <1>2, PlainStates DEF Processes, RotationInv
<1>4. rotation[0] # Ready
  BY <1>1 DEF Threaded, Ready
<1>5. ~overlap => Alone(w)' /\ Worker(w)' /\ Undivided
  <2>. SUFFICES ASSUME ~overlap PROVE Alone(w)' /\ Worker(w)' /\ Undivided
    OBVIOUS
  <2>1. Alone(0) /\ Worker(0) /\ Undivided
    BY <1>1, <1>4, OnlyWorker
  <2>2. Alone(w)'
    BY <1>1, <1>2, <2>1 DEF Alone
  <2>3. Worker(w)'
    BY <1>2, <2>1 DEF Worker, Disconnect, Renamed
  <2>. QED BY <2>1, <2>2, <2>3
<1>6. UNCHANGED <<keyFile, staged, journal, transactions, faults, overlap>>
  BY DEF Disconnect
<1>. QED BY <1>2, <1>3, <1>5, <1>6, DiskKept DEF RotationInv, RotationTyped

\* The process dies, and every rotation with it.
LEMMA RotationInvCrash ==
    ASSUME RotationInv, Crash
    PROVE  RotationInv'
<1>1. /\ 0 \in Slots
      /\ rotation' = [w \in Slots |-> IF w = 0 THEN Stopped ELSE Ready]
  BY RotationConstants DEF Slots, Crash
<1>2. /\ rotation' \in [Slots -> States] /\ rotation'[0] = Stopped
      /\ \A w \in Slots \ {0} : rotation'[w] = Ready
  BY <1>1, PlainStates
<1>3. Alone(0)' /\ Processes' /\ Worker(0)'
  BY <1>1, <1>2, PlainStates DEF Alone, Processes, Worker
<1>4. UNCHANGED <<keyFile, staged, journal, transactions, overlap>> /\ faults' \in 0..MaxFaults
  BY RotationConstants DEF Crash, Fault, RotationInv, RotationTyped
<1>. QED BY <1>1, <1>2, <1>3, <1>4, DiskKept DEF RotationInv, RotationTyped, InTurn

-----------------------------------------------------------------------------
(* The steps of a rotation.                                                 *)

\* What is left to show of a step of one rotation: where it goes, what becomes of
\* the files, and what it relies on when it is alone.
LEMMA WorkKept ==
    ASSUME RotationInv, NEW w \in Slots, rotation[w] # Ready,
           NEW state \in States, Goes(w, state),
           w # 0 => state = Ready \/ Threaded(state),
           w = 0 /\ Starting(state) => Starting(rotation[0]),
           keyFile' \in [Keys -> Whole],
           staged' \in [1..MaxTransactions -> [Keys -> Files \union {NoFile}]],
           journal' \in Published \union {NoFile},
           transactions' \in 0..MaxTransactions, faults' \in 0..MaxFaults,
           UNCHANGED overlap,
           ~overlap => Undivided' /\ Worker(w)'
    PROVE  RotationInv'
<1>1. rotation' \in [Slots -> States]
  BY GoesTo DEF RotationInv
<1>2. RotationTyped'
  BY <1>1 DEF RotationInv, RotationTyped
<1>3. Processes'
  BY GoesOn DEF RotationInv
<1>4. ~overlap => Alone(w)'
  BY OnlyWorker, GoesTo DEF RotationInv
<1>. QED BY <1>2, <1>3, <1>4 DEF RotationInv, InTurn

\* A rotation that stops leaves the disk and the journal to the next recovery.
LEMMA RotationInvEnds ==
    ASSUME RotationInv, NEW w \in Slots, rotation[w] # Ready,
           Goes(w, Ready) \/ (rotation[w].at = "apply" /\ Abandon(w)),
           UNCHANGED <<keyFile, staged, journal, transactions, overlap>>,
           faults' \in 0..MaxFaults
    PROVE  RotationInv'
<1>1. PICK state \in {Ready, Stopped} :
          /\ Goes(w, state)
          /\ state = Stopped => rotation[w].at = "apply" /\ rotation[w].then.at = "load"
  <2>1. Ready # Stopped
    BY PlainStates
  <2>2. CASE Goes(w, Ready)
    BY <2>1, <2>2
  <2>3. CASE rotation[w].at = "apply" /\ Abandon(w)
    BY <2>1, <2>3 DEF Abandon
  <2>. QED BY <2>2, <2>3
<1>2. state \in States
  BY PlainStates
<1>3. w # 0 => state = Ready
  BY <1>1 DEF Processes, RotationInv, Threaded
<1>4. w = 0 /\ Starting(state) => Starting(rotation[0])
  BY <1>1, PlainStates DEF Starting
<1>5. rotation'[w] = state
  BY <1>1, <1>2, GoesTo DEF RotationInv
<1>6. Worker(w)'
  BY <1>5, PlainStates DEF Worker
<1>7. Undivided => Undivided'
  BY DEF Undivided, OnePassword, JournalCanComplete, Decrypts, Renamed
<1>. QED
  BY <1>1, <1>2, <1>3, <1>4, <1>6, <1>7, OnlyWorker, WorkKept DEF RotationInv, RotationTyped

\* Every key is opened before the first is staged, and they have one password then.
LEMMA RotationInvOpen ==
    ASSUME RotationInv, NEW w \in Slots, NEW k \in Keys, OpenKey(w, k)
    PROVE  RotationInv'
<1>1. /\ rotation[w] \in Requested /\ rotation[w].at = "decrypt" /\ rotation[w] # Ready
      /\ UNCHANGED <<keyFile, staged, journal, transactions, faults, overlap>>
  BY StateKinds, PlainStates DEF OpenKey, RotationInv, RotationTyped
<1>2. CASE Goes(w, Ready)
  BY <1>1, <1>2, RotationInvEnds DEF RotationInv, RotationTyped
<1>3. CASE Goes(w, [rotation[w] EXCEPT !.opened = @ \union {k}])
  <2>. DEFINE state == [rotation[w] EXCEPT !.opened = @ \union {k}]
  <2>1. state \in Requested /\ state.at = "decrypt"
    BY <1>1 DEF Requested
  <2>2. state \in States /\ Threaded(state) /\ ~Starting(state)
    BY <2>1 DEF States, Threaded, Starting
  <2>3. rotation'[w] = state
    BY <1>3, <2>2, GoesTo DEF RotationInv
  <2>4. ~overlap => Undivided' /\ Worker(w)'
    <3>. SUFFICES ASSUME ~overlap PROVE Undivided' /\ Worker(w)'
      OBVIOUS
    <3>1. Worker(w) /\ Undivided
      BY <1>1, OnlyWorker
    <3>2. journal = NoFile
      BY <1>1, <3>1 DEF Worker
    <3>3. Worker(w)'
      BY <1>1, <2>1, <2>3, <3>2 DEF Worker
    <3>. QED
      BY <1>1, <3>1, <3>3
      DEF Undivided, OnePassword, JournalCanComplete, Decrypts, Renamed
  <2>. QED
    BY <1>1, <1>3, <2>2, <2>4, WorkKept DEF RotationInv, RotationTyped
<1>. QED BY <1>2, <1>3 DEF OpenKey

LEMMA RotationInvDecrypt ==
    ASSUME RotationInv, NEW w \in Slots, Decrypt(w)
    PROVE  RotationInv'
<1>. DEFINE state == [at |-> "stage", tx |-> transactions + 1,
                      new |-> rotation[w].new, verified |-> {}]
<1>1. /\ rotation[w] \in Requested /\ rotation[w].at = "decrypt" /\ rotation[w] # Ready
      /\ rotation[w].old \in Passwords /\ rotation[w].new \in Passwords
  BY StateKinds, PlainStates DEF Decrypt, RotationInv, RotationTyped, Requested
<1>2. transactions + 1 \in 1..MaxTransactions /\ transactions' \in 0..MaxTransactions
  BY RotationConstants DEF Decrypt, RotationInv, RotationTyped
<1>3. state \in Staging
  BY <1>1, <1>2 DEF Staging
<1>4. state \in States /\ Threaded(state) /\ ~Starting(state) /\ Goes(w, state)
  BY <1>3 DEF States, Threaded, Starting, Decrypt
<1>5. Processes' /\ rotation' \in [Slots -> States] /\ rotation'[w] = state
  BY <1>1, <1>4, GoesOn, GoesTo DEF RotationInv
<1>6. ~overlap' => Alone(w) /\ journal = NoFile /\ Undivided
  <2>1. CASE ~overlap
    BY <1>1, <2>1, OnlyWorker DEF Worker
  <2>2. CASE Alone(w) /\ journal = NoFile /\ Decrypts(rotation[w].old)
    BY <1>1, <2>2 DEF Undivided, OnePassword, JournalCanComplete
  <2>. QED BY <2>1, <2>2 DEF Decrypt, RotationInv, RotationTyped
<1>7. ~overlap' => Alone(w)'
  BY <1>4, <1>6, GoesTo DEF RotationInv
<1>8. ~overlap' => Worker(w)'
  BY <1>5, <1>6 DEF Worker, Decrypt
<1>9. UNCHANGED <<keyFile, staged, journal, faults>> /\ overlap' \in BOOLEAN
  BY DEF Decrypt, RotationInv, RotationTyped
<1>. QED
  BY <1>2, <1>5, <1>6, <1>7, <1>8, <1>9, DiskKept DEF RotationInv, RotationTyped

\* What a rotation that stages relies on when it is alone.
LEMMA StagingFacts ==
    ASSUME RotationInv, NEW w \in Slots, rotation[w].at \in {"stage", "publish"}
    PROVE  /\ rotation[w] \in Staging /\ rotation[w] # Ready
           /\ rotation[w].tx \in 1..MaxTransactions /\ rotation[w].new \in Passwords
           /\ rotation[w].verified \subseteq Keys
           /\ ~overlap => journal = NoFile /\ Undivided /\ Worker(w)
<1>1. rotation[w] \in Staging /\ rotation[w] # Ready
  BY StateKinds, PlainStates DEF RotationInv, RotationTyped
<1>. QED BY <1>1, OnlyWorker DEF Staging, Worker

\* Without a journal the staged files do not matter to the keys.
LEMMA StagedApart ==
    ASSUME Undivided, journal = NoFile, UNCHANGED <<keyFile, journal>>
    PROVE  Undivided'
  BY DEF Undivided, OnePassword, JournalCanComplete, Decrypts

LEMMA RotationInvStage ==
    ASSUME RotationInv, NEW w \in Slots, NEW k \in Keys, Stage(w, k)
    PROVE  RotationInv'
<1>. DEFINE t == rotation[w].tx
            new == rotation[w].new
<1>1. /\ rotation[w] \in Staging /\ rotation[w].at = "stage" /\ rotation[w] # Ready
      /\ t \in 1..MaxTransactions /\ new \in Passwords
      /\ rotation[w].verified \subseteq Keys /\ k \notin rotation[w].verified
      /\ ~overlap => journal = NoFile /\ Undivided /\ Worker(w)
  BY StagingFacts DEF Stage
<1>2. PICK file \in Files, state \in Staging :
          /\ staged' = [staged EXCEPT ![t][k] = file]
          /\ Goes(w, state) /\ state.at = "stage" /\ state.tx = t /\ state.new = new
          /\ \/ state.verified = rotation[w].verified
             \/ state.verified = rotation[w].verified \union {k} /\ file = Encrypted(new, t)
  <2>1. Encrypted(new, t) \in Files
    BY <1>1, RotationConstants, EncryptedFile
  <2>2. [rotation[w] EXCEPT !.verified = @ \union {k}] \in Staging
    BY <1>1 DEF Staging
  <2>3. CASE staged' = [staged EXCEPT ![t][k] = Torn] /\ UNCHANGED rotation
    <3>1. Goes(w, rotation[w])
      BY <2>3 DEF Goes, RotationInv, RotationTyped
    <3>. QED BY <1>1, <2>3, <3>1, TornFile
  <2>4. CASE /\ staged' = [staged EXCEPT ![t][k] = Encrypted(new, t)]
             /\ Goes(w, [rotation[w] EXCEPT !.verified = @ \union {k}])
    <3>. DEFINE state == [rotation[w] EXCEPT !.verified = @ \union {k}]
    <3>1. /\ state.at = "stage" /\ state.tx = t /\ state.new = new
          /\ state.verified = rotation[w].verified \union {k}
      BY <1>1 DEF Staging
    <3>. QED BY <2>1, <2>2, <2>4, <3>1
  <2>. QED BY <2>3, <2>4 DEF Stage
<1>3. state \in States /\ Threaded(state) /\ ~Starting(state)
  BY <1>2 DEF States, Threaded, Starting
<1>4. /\ staged' \in [1..MaxTransactions -> [Keys -> Files \union {NoFile}]]
      /\ staged'[t][k] = file
      /\ \A j \in Keys \ {k} : staged'[t][j] = staged[t][j]
  BY <1>1, <1>2 DEF RotationInv, RotationTyped
<1>5. rotation'[w] = state
  BY <1>2, <1>3, GoesTo DEF RotationInv
<1>6. UNCHANGED <<keyFile, journal, transactions, faults, overlap>>
  BY DEF Stage
<1>7. ~overlap => Undivided' /\ Worker(w)'
  <2>. SUFFICES ASSUME ~overlap PROVE Undivided' /\ Worker(w)'
    OBVIOUS
  <2>1. Undivided'
    BY <1>1, <1>6, StagedApart
  <2>2. \A j \in rotation[w].verified : staged[t][j] = Encrypted(new, t)
    BY <1>1 DEF Worker
  <2>3. \A j \in state.verified : staged'[t][j] = Encrypted(new, t)
    BY <1>1, <1>2, <1>4, <2>2
  <2>. QED BY <1>1, <1>2, <1>5, <1>6, <2>1, <2>3 DEF Worker
<1>. QED
  BY <1>1, <1>2, <1>3, <1>4, <1>6, <1>7, WorkKept DEF RotationInv, RotationTyped

\* A rotation that ends before its journal takes away its own files at most.
LEMMA RotationInvUnstages ==
    ASSUME RotationInv, NEW w \in Slots, rotation[w].at \in {"stage", "publish"},
           Goes(w, Ready), staged' \in {staged, Unstaged(rotation[w].tx)},
           UNCHANGED <<keyFile, journal, transactions, overlap>>, faults' \in 0..MaxFaults
    PROVE  RotationInv'
<1>1. /\ rotation[w] # Ready /\ rotation[w].tx \in 1..MaxTransactions
      /\ ~overlap => journal = NoFile /\ Undivided
  BY StagingFacts
<1>2. staged' \in [1..MaxTransactions -> [Keys -> Files \union {NoFile}]]
  BY <1>1 DEF Unstaged, RotationInv, RotationTyped
<1>3. rotation'[w] = Ready
  BY PlainStates, GoesTo DEF RotationInv
<1>4. ~overlap => Undivided' /\ Worker(w)'
  BY <1>1, <1>3, PlainStates, StagedApart DEF Worker
<1>. QED
  BY <1>1, <1>2, <1>4, PlainStates, WorkKept DEF RotationInv, RotationTyped

LEMMA RotationInvFind ==
    ASSUME RotationInv, NEW w \in Slots, FindJournal(w)
    PROVE  RotationInv'
<1>1. /\ rotation[w] \in Staging /\ rotation[w] # Ready
      /\ rotation[w].at = "stage" /\ rotation[w].verified = Keys
      /\ ~overlap => journal = NoFile /\ Undivided /\ Worker(w)
      /\ UNCHANGED <<keyFile, journal, transactions, faults, overlap>>
  BY StagingFacts DEF FindJournal
<1>2. CASE journal # NoFile
  BY <1>1, <1>2, RotationInvUnstages DEF FindJournal, RotationInv, RotationTyped
<1>3. CASE journal = NoFile
  <2>. DEFINE state == [rotation[w] EXCEPT !.at = "publish"]
  <2>1. /\ state \in Staging /\ state.at = "publish" /\ state.verified = Keys
        /\ state.tx = rotation[w].tx /\ state.new = rotation[w].new
        /\ Goes(w, state) /\ UNCHANGED staged
    BY <1>1, <1>3 DEF Staging, FindJournal
  <2>2. state \in States /\ Threaded(state) /\ ~Starting(state)
    BY <2>1 DEF States, Threaded, Starting
  <2>3. rotation'[w] = state
    BY <2>1, <2>2, GoesTo DEF RotationInv
  <2>4. ~overlap => Undivided'
    BY <1>1, StagedApart
  <2>5. ~overlap => Worker(w)'
    BY <1>1, <2>1, <2>3 DEF Worker
  <2>. QED
    BY <1>1, <2>1, <2>2, <2>4, <2>5, WorkKept DEF RotationInv, RotationTyped
<1>. QED BY <1>2, <1>3

-----------------------------------------------------------------------------
(* Publishing a journal and applying it.                                    *)

\* A journal is published when every key is staged under the new password.
LEMMA RotationInvPublish ==
    ASSUME RotationInv, NEW w \in Slots, PublishJournal(w)
    PROVE  RotationInv'
<1>. DEFINE t == rotation[w].tx
            new == rotation[w].new
            state == Apply(Entries(t, new), Answered)
<1>1. /\ rotation[w] # Ready /\ rotation[w].at = "publish"
      /\ t \in 1..MaxTransactions /\ new \in Passwords
      /\ ~overlap => Worker(w)
  BY StagingFacts DEF PublishJournal
<1>2. /\ journal' = Entries(t, new) /\ Goes(w, state)
      /\ UNCHANGED <<keyFile, staged, transactions, faults, overlap>>
  BY DEF PublishJournal
<1>3. /\ Entries(t, new) \in Published /\ Entries(t, new) # NoFile
      /\ Entries(t, new).tx = t
      /\ \A k \in Keys : Entries(t, new).hash[k] = Encrypted(new, t)
  BY <1>1, EntriesFields DEF Published
<1>4. state \in Reading
  BY <1>3 DEF Reading, Apply, Callers
<1>5. /\ state \in States /\ Threaded(state) /\ ~Starting(state)
      /\ state.at = "apply" /\ state.journal = Entries(t, new) /\ state.done = {}
  BY <1>4 DEF States, Threaded, Starting, Apply, Answered
<1>6. rotation'[w] = state
  BY <1>2, <1>5, GoesTo DEF RotationInv
<1>7. Worker(w)'
  BY <1>2, <1>5, <1>6 DEF Worker
<1>8. ~overlap => Undivided'
  <2>. SUFFICES ASSUME ~overlap PROVE Undivided'
    OBVIOUS
  <2>1. \A k \in Keys : staged[t][k] = Encrypted(new, t)
    BY <1>1 DEF Worker
  <2>. QED
    BY <1>2, <1>3, <2>1 DEF Undivided, OnePassword, JournalCanComplete
<1>. QED
  BY <1>1, <1>2, <1>3, <1>5, <1>7, <1>8, WorkKept DEF RotationInv, RotationTyped

\* What a rotation that applies a journal knows of it.
LEMMA ApplyFacts ==
    ASSUME RotationInv, NEW w \in Slots, rotation[w].at = "apply"
    PROVE  /\ rotation[w] \in Reading /\ rotation[w] # Ready
           /\ rotation[w].then \in Callers /\ rotation[w].done \subseteq Keys
           /\ \E t \in 1..MaxTransactions, p \in Passwords :
                 rotation[w].journal = Entries(t, p)
           /\ ~overlap => Worker(w) /\ Undivided /\ journal = rotation[w].journal
<1>1. rotation[w] \in Reading /\ rotation[w] # Ready
  BY StateKinds, PlainStates DEF RotationInv, RotationTyped
<1>. QED BY <1>1, OnlyWorker DEF Reading, Published, Worker

\* One more entry is done.
LEMMA DoneState ==
    ASSUME RotationInv, NEW w \in Slots, NEW k \in Keys, rotation[w].at = "apply",
           Done(w, k)
    PROVE  \E state \in States :
              /\ Goes(w, state) /\ rotation'[w] = state
              /\ Threaded(state) <=> Threaded(rotation[w])
              /\ Starting(state) <=> Starting(rotation[w])
              /\ state.at = "apply" /\ state.journal = rotation[w].journal
              /\ state.done = rotation[w].done \union {k}
<1>. DEFINE state == [rotation[w] EXCEPT !.done = @ \union {k}]
<1>1. rotation[w] \in Reading
  BY ApplyFacts
<1>2. /\ state \in Reading /\ state.at = "apply"
      /\ state.journal = rotation[w].journal /\ state.then = rotation[w].then
      /\ state.done = rotation[w].done \union {k}
  BY <1>1 DEF Reading
<1>3. state \in States /\ Goes(w, state)
  BY <1>2 DEF States, Done
<1>4. rotation'[w] = state
  BY <1>3, GoesTo DEF RotationInv
<1>. QED BY <1>2, <1>3, <1>4 DEF Threaded, Starting

\* A slot other than the process's is at work on a rotation.
LEMMA GoesOnThreaded ==
    ASSUME RotationInv, NEW w \in Slots, rotation[w] # Ready
    PROVE  w # 0 => Threaded(rotation[w])
  BY DEF RotationInv, Processes

\* A replacement moves one staged file to the place of its key.
LEMMA RotationInvReplace ==
    ASSUME RotationInv, NEW w \in Slots, NEW k \in Keys, Replace(w, k)
    PROVE  RotationInv'
<1>1. PICK t \in 1..MaxTransactions, p \in Passwords : rotation[w].journal = Entries(t, p)
  BY ApplyFacts DEF Replace, Applying
<1>2. /\ Entries(t, p) # NoFile /\ Entries(t, p).tx = t
      /\ \A j \in Keys : Entries(t, p).hash[j] = Encrypted(p, t)
      /\ Encrypted(p, t) \in Whole /\ Encrypted(p, t) # NoFile
  BY EntriesFields
<1>3. /\ keyFile' = [keyFile EXCEPT ![k] = Encrypted(p, t)]
      /\ staged' = [staged EXCEPT ![t][k] = NoFile]
      /\ rotation[w].at = "apply" /\ Done(w, k)
      /\ UNCHANGED <<journal, transactions, faults, overlap>>
  BY <1>1, <1>2 DEF Replace, Applying
<1>4. /\ keyFile \in [Keys -> Whole]
      /\ staged \in [1..MaxTransactions -> [Keys -> Files \union {NoFile}]]
      /\ rotation[w] # Ready
  BY <1>3, ApplyFacts DEF RotationInv, RotationTyped
<1>5. /\ keyFile' \in [Keys -> Whole]
      /\ staged' \in [1..MaxTransactions -> [Keys -> Files \union {NoFile}]]
      /\ keyFile'[k] = Encrypted(p, t) /\ staged'[t][k] = NoFile
      /\ \A j \in Keys \ {k} : keyFile'[j] = keyFile[j] /\ staged'[t][j] = staged[t][j]
  BY <1>2, <1>3, <1>4
<1>6. PICK state \in States :
          /\ Goes(w, state) /\ rotation'[w] = state
          /\ Threaded(state) <=> Threaded(rotation[w])
          /\ Starting(state) <=> Starting(rotation[w])
          /\ state.at = "apply" /\ state.journal = rotation[w].journal
          /\ state.done = rotation[w].done \union {k}
  BY <1>3, DoneState
<1>7. ~overlap => Undivided' /\ Worker(w)'
  <2>. SUFFICES ASSUME ~overlap PROVE Undivided' /\ Worker(w)'
    OBVIOUS
  <2>1. Worker(w) /\ Undivided /\ journal = Entries(t, p)
    BY <1>1, <1>3, ApplyFacts
  <2>2. \A j \in Keys :
            \/ staged'[t][j] = Encrypted(p, t)
            \/ staged'[t][j] = NoFile /\ keyFile'[j] = Encrypted(p, t)
    BY <1>2, <1>5, <2>1 DEF Undivided, JournalCanComplete, Renamed
  <2>3. Undivided'
    BY <1>2, <1>3, <2>1, <2>2 DEF Undivided, OnePassword, JournalCanComplete, Renamed
  <2>4. \A j \in rotation[w].done : staged[t][j] = NoFile /\ keyFile[j] = Encrypted(p, t)
    <3>1. \A j \in rotation[w].done : j \in Keys /\ Renamed(journal, j)
      BY <1>3, <2>1, ApplyFacts DEF Worker
    <3>. QED BY <1>2, <2>1, <3>1 DEF Renamed
  <2>5. \A j \in state.done : j \in Keys /\ staged'[t][j] = NoFile
                                /\ keyFile'[j] = Encrypted(p, t)
    BY <1>3, <1>5, <1>6, <2>4, ApplyFacts
  <2>6. Worker(w)'
    BY <1>1, <1>2, <1>3, <1>6, <2>1, <2>5 DEF Worker, Renamed
  <2>. QED BY <2>3, <2>6
<1>. QED
  BY <1>3, <1>4, <1>5, <1>6, <1>7, GoesOnThreaded, WorkKept DEF RotationInv, RotationTyped

\* An entry that is in place already is counted as done.
LEMMA RotationInvConfirm ==
    ASSUME RotationInv, NEW w \in Slots, NEW k \in Keys, Confirm(w, k)
    PROVE  RotationInv'
<1>1. /\ rotation[w].at = "apply" /\ Done(w, k) /\ Renamed(rotation[w].journal, k)
      /\ UNCHANGED <<keyFile, staged, journal, transactions, faults, overlap>>
  BY DEF Confirm, Applying
<1>2. PICK state \in States :
          /\ Goes(w, state) /\ rotation'[w] = state
          /\ Threaded(state) <=> Threaded(rotation[w])
          /\ Starting(state) <=> Starting(rotation[w])
          /\ state.at = "apply" /\ state.journal = rotation[w].journal
          /\ state.done = rotation[w].done \union {k}
  BY <1>1, DoneState
<1>3. ~overlap => Undivided' /\ Worker(w)'
  <2>. SUFFICES ASSUME ~overlap PROVE Undivided' /\ Worker(w)'
    OBVIOUS
  <2>1. Worker(w) /\ Undivided /\ journal = rotation[w].journal
    BY <1>1, ApplyFacts
  <2>2. Undivided'
    BY <1>1, <2>1 DEF Undivided, OnePassword, JournalCanComplete, Decrypts, Renamed
  <2>3. \A j \in rotation[w].done \union {k} : Renamed(journal, j)
    BY <1>1, <2>1 DEF Worker
  <2>4. Worker(w)'
    BY <1>1, <1>2, <2>1, <2>3 DEF Worker, Renamed
  <2>. QED BY <2>2, <2>4
<1>. QED
  BY <1>1, <1>2, <1>3, ApplyFacts, GoesOnThreaded, WorkKept DEF RotationInv, RotationTyped

\* The journal goes when every key is the one it names, so all have its password.
LEMMA RotationInvRemove ==
    ASSUME RotationInv, NEW w \in Slots, RemoveJournal(w)
    PROVE  RotationInv'
<1>1. /\ rotation[w].at = "apply" /\ rotation[w].done = Keys /\ Resume(w)
      /\ journal' = NoFile
      /\ UNCHANGED <<keyFile, staged, transactions, faults, overlap>>
  BY DEF RemoveJournal
<1>2. rotation[w].then \in Callers /\ rotation[w] # Ready
  BY <1>1, ApplyFacts
<1>3. PICK state \in States :
          /\ Goes(w, state)
          /\ state.at \in {"ready", "load", "decrypt"}
          /\ state.at = "ready" => state = Ready
          /\ state # Ready => state = rotation[w].then
  BY <1>1, <1>2, CallerKinds, PlainStates DEF Resume
<1>4. rotation'[w] = state
  BY <1>3, GoesTo DEF RotationInv
<1>5. w # 0 => state = Ready \/ Threaded(state)
  BY <1>1, <1>2, <1>3, GoesOnThreaded DEF Threaded, Answered
<1>6. w = 0 /\ Starting(state) => Starting(rotation[0])
  <2>. SUFFICES ASSUME w = 0, Starting(state) PROVE Starting(rotation[0])
    OBVIOUS
  <2>1. state.at = "load" /\ state # Ready
    BY <1>3, PlainStates DEF Starting
  <2>. QED BY <1>1, <1>3, <2>1 DEF Starting
<1>7. Worker(w)'
  BY <1>1, <1>3, <1>4 DEF Worker
<1>8. ~overlap => Undivided'
  <2>. SUFFICES ASSUME ~overlap PROVE Undivided'
    OBVIOUS
  <2>1. PICK t \in 1..MaxTransactions, p \in Passwords : rotation[w].journal = Entries(t, p)
    BY <1>1, ApplyFacts
  <2>2. \A k \in Keys : Renamed(rotation[w].journal, k)
    BY <1>1, ApplyFacts DEF Worker
  <2>3. \A k \in Keys : keyFile[k] = Encrypted(p, t)
    BY <2>1, <2>2, EntriesFields DEF Renamed
  <2>4. \A k \in Keys : keyFile[k].password = p
    BY <2>3, RotationConstants, EncryptedFile
  <2>. QED
    BY <1>1, <2>4 DEF Undivided, OnePassword, JournalCanComplete, Decrypts
<1>. QED
  BY <1>1, <1>2, <1>3, <1>5, <1>6, <1>7, <1>8, WorkKept DEF RotationInv, RotationTyped

-----------------------------------------------------------------------------
(* The theorems.                                                            *)

LEMMA RotationInvWork ==
    ASSUME RotationInv, NEW w \in Slots, Work(w)
    PROVE  RotationInv'
<1>1. ASSUME StagingFails(w) PROVE RotationInv'
  BY <1>1, RotationConstants, RotationInvUnstages
  DEF StagingFails, Fault, RotationInv, RotationTyped
<1>2. ASSUME PublishFails(w) PROVE RotationInv'
  BY <1>2, RotationConstants, RotationInvUnstages
  DEF PublishFails, Fault, RotationInv, RotationTyped
<1>3. ASSUME ApplyFails(w) PROVE RotationInv'
  <2>1. faults' \in 0..MaxFaults
    BY <1>3, RotationConstants DEF ApplyFails, Fault, RotationInv, RotationTyped
  <2>. QED BY <1>3, <2>1, ApplyFacts, RotationInvEnds DEF ApplyFails
<1>4. ASSUME NEW k \in Keys, Undetermined(w, k) PROVE RotationInv'
  <2>1. faults' \in 0..MaxFaults
    BY <1>4 DEF Undetermined, RotationInv, RotationTyped
  <2>. QED BY <1>4, <2>1, ApplyFacts, RotationInvEnds DEF Undetermined, Applying
<1>. QED
  BY <1>1, <1>2, <1>3, <1>4, RotationInvDisconnect, RotationInvOpen, RotationInvDecrypt,
     RotationInvStage, RotationInvFind, RotationInvPublish, RotationInvReplace,
     RotationInvConfirm, RotationInvRemove DEF Work

\* Every step keeps the invariant.
LEMMA RotationInvNext ==
    ASSUME RotationInv, [Next]_vars
    PROVE  RotationInv'
<1>1. CASE UNCHANGED vars
  <2>1. UNCHANGED <<keyFile, staged, journal, rotation, transactions, faults, overlap>>
    BY <1>1 DEF vars
  <2>2. RotationTyped'
    BY <2>1 DEF RotationInv, RotationTyped
  <2>3. Processes'
    BY <2>1 DEF RotationInv, Processes, Alone
  <2>4. InTurn'
    BY <2>1
    DEF RotationInv, InTurn, Undivided, OnePassword, JournalCanComplete, Decrypts,
        Renamed, Alone, Worker
  <2>. QED BY <2>2, <2>3, <2>4 DEF RotationInv
<1>2. CASE Next
  BY <1>2, RotationInvStart, RotationInvUse, RotationInvCrash, RotationInvLoad,
     RotationInvRotate, RotationInvWork DEF Next
<1>. QED BY <1>1, <1>2

\* The invariant gives the property.
LEMMA RotationInvAtomic ==
    ASSUME RotationInv
    PROVE  RotationIsAtomic
<1>1. \A k \in Keys : keyFile[k] \in Whole
  BY DEF RotationInv, RotationTyped
<1>2. KeysAreWhole
  BY <1>1, WholeFile DEF KeysAreWhole
<1>. QED BY <1>2 DEF RotationIsAtomic, RotationInv, InTurn, Undivided

\* It gives the types too.
LEMMA RotationTypes ==
    ASSUME RotationInv
    PROVE  TypeOK
<1>1. keyFile \in [Keys -> Files]
  BY WholeFile DEF RotationInv, RotationTyped
<1>2. journal \in Journals \union {NoFile}
  BY PublishedKind DEF RotationInv, RotationTyped
<1>3. Reading \subseteq Recovering
  BY PublishedKind DEF Reading, Recovering
<1>4. rotation \in [Slots -> Idle \union Loading \union Requested \union Staging
                                  \union Recovering]
  BY <1>3 DEF RotationInv, RotationTyped, States
<1>. QED BY <1>1, <1>2, <1>4 DEF TypeOK, RotationInv, RotationTyped

\* Whatever is interrupted, and however many rotations run at once, a key is never a
\* torn file.  While no rotation has run beside one whose client had left, the keys
\* have one password when there is no journal, and a journal can be completed
\* (stage_rotation, publish_rotation_journal, apply_rotation_journal).
THEOREM RotationIsAtomicThm == Spec => []RotationIsAtomic
<1>1. Init => RotationInv
  BY RotationInvInit
<1>2. RotationInv /\ [Next]_vars => RotationInv'
  BY RotationInvNext
<1>3. RotationInv => RotationIsAtomic
  BY RotationInvAtomic
<1>. QED BY <1>1, <1>2, <1>3, PTL DEF Spec

\* The files, the journal and the rotations hold values of their kinds.
THEOREM RotationTypesOK == Spec => []TypeOK
<1>1. Init => RotationInv
  BY RotationInvInit
<1>2. RotationInv /\ [Next]_vars => RotationInv'
  BY RotationInvNext
<1>3. RotationInv => TypeOK
  BY RotationTypes
<1>. QED BY <1>1, <1>2, <1>3, PTL DEF Spec
=============================================================================
