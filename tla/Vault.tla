-------------------------------- MODULE Vault --------------------------------
(***************************************************************************)
(* The vault of provider keys (crates/daemon/src/vault.rs), its opening by *)
(* main and the handlers that call it (routes/vault.rs).                   *)
(*                                                                         *)
(* The keys are one file, decrypted whole for every call and replaced      *)
(* whole for every change.  Changes hold write_lock; readers hold nothing. *)
(* Each read, write and rename of a file is a step, may fail, and may be   *)
(* the last before the process dies.  The machine keeps what was written.  *)
(***************************************************************************)
EXTENDS Naturals

CONSTANTS
  Client,      \* threads that call the vault: handlers and probe loops
  Main,        \* the thread that opens or creates it
  Provider, Key, NoKey,
  Passphrase,  \* what MODELSENTRY_VAULT_PASSPHRASE may be
  NoPass,      \* it is not set
  EmptyPass,   \* the empty passphrase
  NoThread

ASSUME VaultAssumption ==
  /\ NoKey \notin Key
  /\ EmptyPass \in Passphrase /\ NoPass \notin Passphrase
  /\ Main \notin Client /\ NoThread \notin Client

VARIABLES
  daemon,   \* "down", "starting" or "up"
  pass,     \* Vault.passphrase; NoPass while the daemon is down
  file,     \* the vault file
  tmp,      \* the file it is staged in
  lock,     \* who holds write_lock
  pc,       \* where each thread is in its call
  request,  \* the call
  seen,     \* what it has decrypted
  reply     \* its answer

disk == <<file, tmp>>
vars == <<daemon, pass, disk, lock, pc, request, seen, reply>>

Thread  == Client \cup {Main}
KeysMap == [Provider -> Key \cup {NoKey}]
NoKeys  == [p \in Provider |-> NoKey]

\* A file: whether it is there and whole, its passphrase and its keys.
File == [state  : {"absent", "torn", "whole"},
         pass   : Passphrase \cup {NoPass},
         keys   : KeysMap]
NoFile == [state |-> "absent", pass |-> NoPass, keys |-> NoKeys]
Torn   == [state |-> "torn", pass |-> NoPass, keys |-> NoKeys]

Request == [kind : {"read"}, provider : Provider, key : {NoKey}]    \* get_key, list_providers
           \cup [kind : {"set"}, provider : Provider, key : Key]
           \cup [kind : {"delete"}, provider : Provider, key : {NoKey}]
NoRequest == [kind |-> "none"]

Reply == [outcome : {"none", "read", "stored", "removed", "absent", "error"}, keys : KeysMap]
NoReply == [outcome |-> "none", keys |-> NoKeys]
Plain(outcome) == [NoReply EXCEPT !.outcome = outcome]

-----------------------------------------------------------------------------
(* Steps of a call *)

\* decrypt_vault succeeds: the file is whole and has this passphrase.
Decrypts(f, w) == f.state = "whole" /\ f.pass = w

\* set_key and delete_key wait for write_lock.
MutantMayLock == TRUE
MayLock == lock = NoThread

\* What the writer writes back; the new vault of main is empty, as seen is.
Changed(q, m) ==
  IF q.kind = "set" THEN [m EXCEPT ![q.provider] = q.key]
  ELSE IF q.kind = "delete" THEN [m EXCEPT ![q.provider] = NoKey]
  ELSE m

Answer(c, outcome) ==
  /\ pc' = [pc EXCEPT ![c] = "return"]
  /\ reply' = [reply EXCEPT ![c] = Plain(outcome)]

\* A handler or a probe loop calls; changes wait for the lock first.
Call(c, q) ==
  /\ daemon = "up"
  /\ pc[c] = "idle"
  /\ pc' = [pc EXCEPT ![c] = IF q.kind = "read" THEN "read" ELSE "lock"]
  /\ request' = [request EXCEPT ![c] = q]
  /\ UNCHANGED <<daemon, pass, disk, lock, seen, reply>>

TakeLock(c) ==
  /\ pc[c] = "lock"
  /\ MayLock
  /\ lock' = c
  /\ pc' = [pc EXCEPT ![c] = "read"]
  /\ UNCHANGED <<daemon, pass, disk, request, seen, reply>>

\* get_key and list_providers: the answer is the map read.
ReadForReader(c) ==
  /\ pc[c] = "read"
  /\ request[c].kind = "read"
  /\ Decrypts(file, pass)
  /\ pc' = [pc EXCEPT ![c] = "return"]
  /\ reply' = [reply EXCEPT ![c] = [outcome |-> "read", keys |-> file.keys]]
  /\ UNCHANGED <<daemon, pass, disk, lock, request, seen>>

\* A change goes on with the map read, unless it deletes a key that is not there.
ReadForWriter(c) ==
  /\ pc[c] = "read"
  /\ request[c].kind # "read"
  /\ Decrypts(file, pass)
  /\ IF request[c].kind = "delete" /\ file.keys[request[c].provider] = NoKey
     THEN Answer(c, "absent") /\ UNCHANGED seen
     ELSE /\ seen' = [seen EXCEPT ![c] = file.keys]
          /\ pc' = [pc EXCEPT ![c] = "stage"]
          /\ UNCHANGED reply
  /\ UNCHANGED <<daemon, pass, disk, lock, request>>

\* fs::write first truncates the staging file ...
MutantStage(c) ==
  /\ pc[c] = "stage"
  /\ file' = Torn
  /\ pc' = [pc EXCEPT ![c] = "fill"]
  /\ UNCHANGED <<daemon, pass, tmp, lock, request, seen, reply>>
Stage(c) ==
  /\ pc[c] = "stage"
  /\ tmp' = Torn
  /\ pc' = [pc EXCEPT ![c] = "fill"]
  /\ UNCHANGED <<daemon, pass, file, lock, request, seen, reply>>

\* ... and then writes it.
Fill(c) ==
  /\ pc[c] = "fill"
  /\ tmp' = [state |-> "whole", pass |-> pass, keys |-> Changed(request[c], seen[c])]
  /\ pc' = [pc EXCEPT ![c] = "commit"]
  /\ UNCHANGED <<daemon, pass, file, lock, request, seen, reply>>

\* The rename replaces the vault file.
Commit(c) ==
  /\ pc[c] = "commit"
  /\ file' = tmp
  /\ tmp' = NoFile
  /\ Answer(c, IF request[c].kind = "delete" THEN "removed" ELSE "stored")
  /\ UNCHANGED <<daemon, pass, lock, request, seen>>

\* A file cannot be read, written or renamed, or does not decrypt: `?` returns.
IoFails(c) ==
  /\ pc[c] \in {"read", "stage", "fill", "commit"}
  /\ Answer(c, "error")
  /\ UNCHANGED <<daemon, pass, disk, lock, request, seen>>

\* The guard is dropped with the call.
MutantUnlocked(c) == IF lock = c /\ reply[c].outcome # "error" THEN NoThread ELSE lock
Unlocked(c) == IF lock = c THEN NoThread ELSE lock

Return(c) ==
  /\ c \in Client
  /\ pc[c] = "return"
  /\ lock' = Unlocked(c)
  /\ pc' = [pc EXCEPT ![c] = "idle"]
  /\ request' = [request EXCEPT ![c] = NoRequest]
  /\ seen' = [seen EXCEPT ![c] = NoKeys]
  /\ reply' = [reply EXCEPT ![c] = NoReply]
  /\ UNCHANGED <<daemon, pass, disk>>

-----------------------------------------------------------------------------
(* The process *)

\* Every call under way is gone.
CallsEnd ==
  /\ lock' = NoThread
  /\ pc' = [c \in Thread |-> "idle"]
  /\ request' = [c \in Thread |-> NoRequest]
  /\ seen' = [c \in Thread |-> NoKeys]
  /\ reply' = [c \in Thread |-> NoReply]

\* main opens the vault that exists; without its passphrase the daemon does not start.
Open(w) ==
  /\ daemon = "down"
  /\ w # NoPass
  /\ file.state # "absent"
  /\ Decrypts(file, w)
  /\ daemon' = "up"
  /\ pass' = w
  /\ UNCHANGED <<disk, lock, pc, request, seen, reply>>

\* Otherwise it creates one, with the empty passphrase if none is set.
ToCreate(w) == file.state = "absent"

Create(w) ==
  /\ daemon = "down"
  /\ ToCreate(w)
  /\ daemon' = "starting"
  /\ pass' = IF w = NoPass THEN EmptyPass ELSE w
  /\ pc' = [pc EXCEPT ![Main] = "stage"]
  /\ UNCHANGED <<disk, lock, request, seen, reply>>

Created ==
  /\ pc[Main] = "return"
  /\ reply[Main].outcome = "stored"
  /\ daemon' = "up"
  /\ pc' = [pc EXCEPT ![Main] = "idle"]
  /\ reply' = [reply EXCEPT ![Main] = NoReply]
  /\ UNCHANGED <<pass, disk, lock, request, seen>>

NotCreated ==
  /\ pc[Main] = "return"
  /\ reply[Main].outcome = "error"
  /\ daemon' = "down"
  /\ pass' = NoPass
  /\ CallsEnd
  /\ UNCHANGED disk

Crash ==
  /\ daemon # "down"
  /\ daemon' = "down"
  /\ pass' = NoPass
  /\ CallsEnd
  /\ UNCHANGED disk

-----------------------------------------------------------------------------

Init ==
  /\ daemon = "down"
  /\ pass = NoPass
  /\ file = NoFile
  /\ tmp = NoFile
  /\ lock = NoThread
  /\ pc = [c \in Thread |-> "idle"]
  /\ request = [c \in Thread |-> NoRequest]
  /\ seen = [c \in Thread |-> NoKeys]
  /\ reply = [c \in Thread |-> NoReply]

\* A step of a thread in the middle of a call.
Step(c) ==
  \/ TakeLock(c) \/ ReadForReader(c) \/ ReadForWriter(c)
  \/ Stage(c) \/ Fill(c) \/ Commit(c) \/ IoFails(c) \/ Return(c)

Next ==
  \/ \E c \in Client, q \in Request : Call(c, q)
  \/ \E c \in Thread : Step(c)
  \/ \E w \in Passphrase \cup {NoPass} : Open(w) \/ Create(w)
  \/ Created \/ NotCreated
  \/ Crash

Spec == Init /\ [][Next]_vars

\* A thread in the middle of a call goes on.
FairSpec == Spec /\ \A c \in Client : WF_vars(Step(c))

-----------------------------------------------------------------------------
(* Properties *)

(* Every variable stays in its range, a thread that writes holds the lock, the lock is
   held by a thread in a call, and only main is in a call before the daemon is up. *)
TypeOK ==
  /\ daemon \in {"down", "starting", "up"}
  /\ pass \in Passphrase \cup {NoPass}
  /\ file \in File /\ tmp \in File
  /\ lock \in Client \cup {NoThread}
  /\ pc \in [Thread -> {"idle", "lock", "read", "stage", "fill", "commit", "return"}]
  /\ request \in [Thread -> Request \cup {NoRequest}]
  /\ seen \in [Thread -> KeysMap]
  /\ reply \in [Thread -> Reply]
  /\ \A c \in Client : pc[c] \in {"stage", "fill", "commit"} => lock = c
  /\ lock # NoThread => pc[lock] \notin {"idle", "lock"}
  /\ daemon # "up" => \A c \in Client : pc[c] = "idle"
  /\ daemon # "starting" => pc[Main] = "idle"

(* "A crash mid-write can only leave the (discarded) temp file - never a truncated or
   half-encrypted vault that would lose every key" (encrypt_and_write): whatever two
   writers do at once, whichever call fails and wherever the process dies, there is a
   whole vault or none yet; and it keeps the passphrase it was created with, as no start
   with another one, or with none, overwrites it, however the starts before went. *)
VaultIsKept ==
  [][/\ file'.state # "torn"
     /\ file.state = "whole" => file'.state = "whole" /\ file'.pass = file.pass]_vars

(* The vault is the atomic map of KeyMap: two changes at once are never merged wrongly
   or lost, a reader beside a writer gets the keys of before or after, a call that
   fails changes nothing, and a key whose storing was answered survives a crash. *)
KeyMapOf == INSTANCE KeyMap WITH
  keys    <- file.keys,
  status  <- [c \in Client |-> IF pc[c] = "idle" THEN "idle"
                               ELSE IF pc[c] = "return" THEN "answered" ELSE "pending"],
  request <- [c \in Client |-> request[c]],
  reply   <- [c \in Client |-> reply[c]]
IsAtomicKeyMap == KeyMapOf!Spec

(* The write lock comes free again and again, whatever fails under it: no early return
   keeps it. *)
LockIsReleased == []<>(lock = NoThread)
=============================================================================
