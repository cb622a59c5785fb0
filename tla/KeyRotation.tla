----------------------------- MODULE KeyRotation -----------------------------
(***************************************************************************)
(* Changing the password of a group of private keys: a Home's authority    *)
(* keys, or the two keys of a Travel.  Every key is decrypted with the     *)
(* current password and staged under the new one before a journal with the *)
(* file names and hashes is published; then each staged file is renamed    *)
(* over its key, and the journal removed.  The process may die and a file  *)
(* operation may fail at every step.  The journal is completed when the    *)
(* process starts, before the next rotation and before a key is used.      *)
(*                                                                         *)
(* Permit and lock belong to the request, the work to a blocking thread: a *)
(* client that disconnects releases them while the rotation goes on, and   *)
(* the next one may run beside it.                                         *)
(*                                                                         *)
(* An encrypted file is its password and the transaction that wrote it:    *)
(* the salt is fresh, so the pair stands for the file's hash.              *)
(***************************************************************************)
EXTENDS Naturals, FiniteSets

CONSTANTS
    Keys,            \* the files of the group
    Passwords,       \* passwords an operator may type
    FirstPassword,   \* the password the keys were created with
    NoFile,          \* a file that is not there
    MaxLeft,         \* bound: rotations at work whose client has left
    MaxTransactions, \* bound: rotations that reach the staging of a key
    MaxFaults        \* bound: crashes and failed file operations

VARIABLES
    keyFile,      \* Keys -> the encrypted file
    staged,       \* transaction -> Keys -> the staged file, torn or NoFile
    journal,      \* the published journal: transaction and hashes, or NoFile
    rotation,     \* 0: the process, and what it does under the key lock; and the
                  \* rotations that go on without it
    transactions, \* transactions so far
    faults,       \* faults so far
    overlap       \* history: two were at work at once, and the keys have not been
                  \* found under one password since

vars == <<keyFile, staged, journal, rotation, transactions, faults, overlap>>

Encrypted(p, t) == [password |-> p, tx |-> t]
Torn == Encrypted(FirstPassword, MaxTransactions + 1)

Slots == 0..MaxLeft

Stopped == [at |-> "stopped"]
Ready == [at |-> "ready"]

Init ==
    /\ keyFile = [k \in Keys |-> Encrypted(FirstPassword, 0)]
    /\ staged = [t \in 1..MaxTransactions |-> [k \in Keys |-> NoFile]]
    /\ journal = NoFile
    /\ rotation = [w \in Slots |-> IF w = 0 THEN Stopped ELSE Ready]
    /\ transactions = 0
    /\ faults = 0
    /\ overlap = FALSE

Decrypts(p) == \A k \in Keys : keyFile[k].password = p

Goes(w, state) == rotation' = [rotation EXCEPT ![w] = state]

\* No other rotation is at work.
Alone(w) == \A v \in Slots \ {w} : rotation[v] = Ready

(***************************************************************************)
(* Recovery.  "apply" is apply_rotation_journal, whoever calls it: it has  *)
(* read a journal, and goes through its entries; then says what the caller *)
(* does after it.                                                          *)
(***************************************************************************)
Apply(read, then) == [at |-> "apply", journal |-> read, done |-> {}, then |-> then]

\* recover_resolved_rotation: nothing to do without a journal.
Recover(then) == IF journal = NoFile THEN then ELSE Apply(journal, then)

\* load_app_state and the Home's run: the journal is completed, then the keys
\* are decrypted with what the operator types.
Start ==
    /\ rotation[0] = Stopped
    /\ Goes(0, Recover([at |-> "load"]))
    /\ UNCHANGED <<keyFile, staged, journal, transactions, faults, overlap>>

LoadKeys(p) ==
    /\ rotation[0].at = "load"
    /\ Goes(0, IF Decrypts(p) THEN Ready ELSE Stopped)
    /\ overlap' = (overlap /\ ~(journal = NoFile /\ Decrypts(p)))
    /\ UNCHANGED <<keyFile, staged, journal, transactions, faults>>

\* A request has the permit for sensitive operations and the lock of the keys.
Permitted == rotation[0] = Ready

\* An issuing Home completes the journal before it signs with its keys.
UseKeys ==
    /\ Permitted
    /\ journal # NoFile
    /\ Goes(0, Apply(journal, Ready))
    /\ overlap' = (overlap \/ ~Alone(0))
    /\ UNCHANGED <<keyFile, staged, journal, transactions, faults>>

\* The operator is told that the keys are rotated.
Answered == [at |-> "rotated"]

Request(old, new) == [at |-> "decrypt", old |-> old, new |-> new, opened |-> {}]

\* rotate_private_key_passwords, up to the recovery.
Rotate(old, new) ==
    /\ Permitted
    /\ old # new
    /\ Goes(0, Recover(Request(old, new)))
    /\ overlap' = (overlap \/ ~Alone(0))
    /\ UNCHANGED <<keyFile, staged, journal, transactions, faults>>

\* A rotation runs in a blocking thread, whichever its step; a start and a use of
\* the keys complete the journal in their own.
Threaded(state) ==
    \/ state.at \in {"decrypt", "stage", "publish"}
    \/ state.at = "apply" /\ state.then.at \in {"decrypt", "rotated"}

\* The client disconnects: the request is dropped with its permit and lock.
Disconnect(w) ==
    /\ w # 0 /\ rotation[w] = Ready
    /\ Threaded(rotation[0])
    /\ rotation' = [rotation EXCEPT ![0] = Ready, ![w] = rotation[0]]
    /\ UNCHANGED <<keyFile, staged, journal, transactions, faults, overlap>>

(***************************************************************************)
(* Staging and publishing.                                                 *)
(***************************************************************************)
\* stage_rotation's first loop: every key is decrypted before a file is written.
OpenKey(w, k) ==
    LET state == rotation[w]
    IN  /\ state.at = "decrypt"
        /\ k \notin state.opened
        /\ Goes(w, IF keyFile[k].password = state.old
                   THEN [state EXCEPT !.opened = @ \union {k}] ELSE Ready)
        /\ UNCHANGED <<keyFile, staged, journal, transactions, faults, overlap>>

Decrypt(w) ==
    LET state == rotation[w]
    IN  /\ state.at = "decrypt"
        /\ state.opened = Keys
        /\ transactions < MaxTransactions
        /\ transactions' = transactions + 1
        /\ Goes(w, [at |-> "stage", tx |-> transactions + 1,
                    new |-> state.new, verified |-> {}])
        /\ overlap' = (overlap /\ ~(Alone(w) /\ journal = NoFile /\ Decrypts(state.old)))
        /\ UNCHANGED <<keyFile, staged, journal, faults>>

\* The second loop: one key's staged file is written, reopened and verified.
Stage(w, k) ==
    LET state == rotation[w]
    IN  /\ state.at = "stage"
        /\ k \notin state.verified
        /\ \/ /\ staged[state.tx][k] = NoFile
              /\ \A j \in Keys : staged[state.tx][j] # Torn
              /\ staged' = [staged EXCEPT ![state.tx][k] = Torn]
              /\ UNCHANGED rotation
           \/ /\ staged[state.tx][k] = Torn
              /\ staged' = [staged EXCEPT ![state.tx][k] = Encrypted(state.new, state.tx)]
              /\ Goes(w, [state EXCEPT !.verified = @ \union {k}])
        /\ UNCHANGED <<keyFile, journal, transactions, faults, overlap>>

\* remove_staged_files
Unstaged(t) == [staged EXCEPT ![t] = [k \in Keys |-> NoFile]]

Fault == faults < MaxFaults /\ faults' = faults + 1

\* A key cannot be staged: what was staged goes.
StagingFails(w) ==
    /\ rotation[w].at = "stage"
    /\ Fault
    /\ staged' = Unstaged(rotation[w].tx)
    /\ Goes(w, Ready)
    /\ UNCHANGED <<keyFile, journal, transactions, overlap>>

\* The hashes of the files as they were verified.
Entries(t, p) == [tx |-> t, hash |-> [k \in Keys |-> Encrypted(p, t)]]

\* The first password is one an operator may type, and an absent file is neither an
\* encrypted key nor a journal.
ASSUME RotationConstants ==
    /\ FirstPassword \in Passwords
    /\ MaxLeft \in Nat /\ MaxTransactions \in Nat /\ MaxFaults \in Nat
    /\ \A t \in 0..MaxTransactions + 1, p \in Passwords :
          NoFile # Encrypted(p, t) /\ NoFile # Entries(t, p)

\* Mutant: the journal is published while keys are still being staged.
PublishEarly(w) ==
    /\ rotation[w].at = "stage"
    /\ rotation[w].verified # {}
    /\ journal' = Entries(rotation[w].tx, rotation[w].new)
    /\ Goes(w, Apply(journal', Answered))
    /\ UNCHANGED <<keyFile, staged, transactions, faults, overlap>>

\* publish_rotation_journal refuses when it finds one, which only another rotation
\* can have left; what was staged goes if that is gone at a second look.
FindJournal(w) ==
    /\ rotation[w].at = "stage"
    /\ rotation[w].verified = Keys
    /\ IF journal = NoFile
       THEN /\ Goes(w, [rotation[w] EXCEPT !.at = "publish"])
            /\ UNCHANGED staged
       ELSE /\ Goes(w, Ready)
            /\ staged' \in {staged, Unstaged(rotation[w].tx)}
    /\ UNCHANGED <<keyFile, journal, transactions, faults, overlap>>

\* The temporary file is renamed, over whatever journal there is by then.
PublishJournal(w) ==
    /\ rotation[w].at = "publish"
    /\ journal' = Entries(rotation[w].tx, rotation[w].new)
    /\ Goes(w, Apply(journal', Answered))
    /\ UNCHANGED <<keyFile, staged, transactions, faults, overlap>>

\* A journal that cannot be written ends the rotation.
PublishFails(w) ==
    /\ rotation[w].at = "publish"
    /\ Fault
    /\ staged' = IF journal = NoFile THEN Unstaged(rotation[w].tx) ELSE staged
    /\ Goes(w, Ready)
    /\ UNCHANGED <<keyFile, journal, transactions, overlap>>

(***************************************************************************)
(* Applying a journal, entry by entry, as it was read.                     *)
(***************************************************************************)
\* The key already is the one the journal names.
Renamed(read, k) == staged[read.tx][k] = NoFile /\ keyFile[k] = read.hash[k]

Applying(w, k) == rotation[w].at = "apply" /\ k \notin rotation[w].done

Done(w, k) == Goes(w, [rotation[w] EXCEPT !.done = @ \union {k}])

\* One entry whose staged file is there: its hash is compared, and it replaces
\* the key by an atomic rename.
Replace(w, k) ==
    LET read == rotation[w].journal
    IN  /\ Applying(w, k)
        /\ staged[read.tx][k] = read.hash[k]
        /\ keyFile' = [keyFile EXCEPT ![k] = read.hash[k]]
        /\ staged' = [staged EXCEPT ![read.tx][k] = NoFile]
        /\ Done(w, k)
        /\ UNCHANGED <<journal, transactions, faults, overlap>>

Confirm(w, k) ==
    /\ Applying(w, k)
    /\ Renamed(rotation[w].journal, k)
    /\ Done(w, k)
    /\ UNCHANGED <<keyFile, staged, journal, transactions, faults, overlap>>

\* The caller gets an error, and the journal stays for the next recovery.
Abandon(w) == Goes(w, IF rotation[w].then.at = "load" THEN Stopped ELSE Ready)

\* "private-key rotation cannot determine a safe recovery state"
Undetermined(w, k) ==
    LET read == rotation[w].journal
    IN  /\ Applying(w, k)
        /\ staged[read.tx][k] # read.hash[k] /\ ~Renamed(read, k)
        /\ Abandon(w)
        /\ UNCHANGED <<keyFile, staged, journal, transactions, faults, overlap>>

\* What follows the journal's removal: the caller, or the answer to the operator.
Resume(w) == Goes(w, IF rotation[w].then = Answered THEN Ready ELSE rotation[w].then)

\* Mutant: the journal goes with the first replacement.
RemoveJournalEarly(w) ==
    /\ rotation[w].at = "apply"
    /\ rotation[w].done # {}
    /\ journal' = NoFile
    /\ Resume(w)
    /\ UNCHANGED <<keyFile, staged, transactions, faults, overlap>>

\* Every entry is in place: the journal that is there is removed and the caller
\* goes on.
RemoveJournal(w) ==
    /\ rotation[w].at = "apply"
    /\ rotation[w].done = Keys
    /\ journal' = NoFile
    /\ Resume(w)
    /\ UNCHANGED <<keyFile, staged, transactions, faults, overlap>>

\* A rename, a removal or the sync of the directory fails, or another rotation has
\* taken away a file that was there at the first look.
ApplyFails(w) ==
    /\ rotation[w].at = "apply"
    /\ Fault \/ (overlap /\ UNCHANGED faults)
    /\ Abandon(w)
    /\ UNCHANGED <<keyFile, staged, journal, transactions, overlap>>

\* The process dies, or is stopped.
Crash ==
    /\ rotation[0] # Stopped
    /\ Fault
    /\ rotation' = [w \in Slots |-> IF w = 0 THEN Stopped ELSE Ready]
    /\ UNCHANGED <<keyFile, staged, journal, transactions, overlap>>

Work(w) ==
    \/ Disconnect(w) \/ Decrypt(w) \/ StagingFails(w)
    \/ FindJournal(w) \/ PublishJournal(w) \/ PublishFails(w)
    \/ RemoveJournal(w) \/ ApplyFails(w)
    \/ \E k \in Keys : \/ OpenKey(w, k) \/ Stage(w, k)
                       \/ Replace(w, k) \/ Confirm(w, k) \/ Undetermined(w, k)

Next ==
    \/ Start \/ UseKeys \/ Crash
    \/ \E p \in Passwords : LoadKeys(p)
    \/ \E old, new \in Passwords : Rotate(old, new)
    \/ \E w \in Slots : Work(w)

Spec == Init /\ [][Next]_vars

(***************************************************************************)
(* Properties.                                                             *)
(***************************************************************************)
Files == [password : Passwords, tx : 0..MaxTransactions + 1]
Journals == [tx : 1..MaxTransactions, hash : [Keys -> Files]]
Idle == {Stopped, Ready}
Loading == [at : {"load"}]
Requested == [at : {"decrypt"}, old : Passwords, new : Passwords, opened : SUBSET Keys]
Staging == [at : {"stage", "publish"}, tx : 1..MaxTransactions, new : Passwords,
            verified : SUBSET Keys]
Callers == {Ready, Answered} \union Loading \union Requested
Recovering == [at : {"apply"}, journal : Journals, done : SUBSET Keys, then : Callers]

TypeOK ==
    /\ keyFile \in [Keys -> Files]
    /\ staged \in [1..MaxTransactions -> [Keys -> Files \union {NoFile}]]
    /\ journal \in Journals \union {NoFile}
    /\ rotation \in [Slots -> Idle \union Loading \union Requested \union Staging
                                   \union Recovering]
    /\ transactions \in 0..MaxTransactions
    /\ faults \in 0..MaxFaults
    /\ overlap \in BOOLEAN

\* A key is never a file that was written in part, whatever rotations run at once: a
\* staged file is compared with its hash before it is renamed.
KeysAreWhole == \A k \in Keys : keyFile[k] # Torn

\* Whatever was interrupted, without a journal every key of the group opens with
\* one password: a group half under the old and half under the new password is
\* never left to an operator (apply_rotation_journal, stage_rotation).
OnePassword ==
    journal = NoFile => \E p \in Passwords : Decrypts(p)

\* A published journal can always be completed: each of its files is still
\* staged with the recorded hash, or already in place, whichever rotation failed
\* and whichever recovery was interrupted.  Recovery never meets "cannot
\* determine a safe recovery state".
JournalCanComplete ==
    journal # NoFile =>
        \A k \in Keys : staged[journal.tx][k] = journal.hash[k] \/ Renamed(journal, k)

\* An interrupted rotation ends with every key whole and under one password, the
\* old or the new (rotate_private_key_passwords).  The passwords may be mixed, and a
\* journal be past completion, once a rotation ran beside one whose client had left,
\* until all keys have been opened with one password again.
RotationIsAtomic == KeysAreWhole /\ (~overlap => OnePassword /\ JournalCanComplete)
=============================================================================
