----------------------------- MODULE VaultProofs -----------------------------
(* Theorems about Vault, for every value of its constants. *)
EXTENDS Vault, TLAPS

Writing == {"stage", "fill", "commit"}

Types ==
  /\ daemon \in {"down", "starting", "up"}
  /\ pass \in Passphrase \cup {NoPass}
  /\ file \in File /\ tmp \in File
  /\ lock \in Client \cup {NoThread}
  /\ pc \in [Thread -> {"idle", "lock", "read", "return"} \cup Writing]
  /\ request \in [Thread -> Request \cup {NoRequest}]
  /\ seen \in [Thread -> KeysMap]
  /\ reply \in [Thread -> Reply]

(* A running daemon has its vault, and there is never a torn one. *)
FileInv ==
  /\ daemon = "up" => file.state = "whole" /\ file.pass = pass
  /\ file.state = "absent" => file.keys = NoKeys
  /\ file.state # "torn"

(* The lock excludes the writers from one another. *)
LockInv ==
  /\ \A c \in Client : pc[c] \in Writing => lock = c
  /\ \A c \in Client : pc[c] = "read" /\ request[c].kind # "read" => lock = c
  /\ lock # NoThread => pc[lock] \notin {"idle", "lock"}
  /\ daemon # "up" => \A c \in Client : pc[c] = "idle"

(* What a writer has read is what the file still holds, and what it has staged is
   that, changed. *)
CallInv ==
  \A c \in Client :
    /\ pc[c] = "idle" => request[c] = NoRequest /\ reply[c] = NoReply
    /\ pc[c] # "idle" => request[c] \in Request
    /\ pc[c] = "lock" => request[c].kind # "read"
    /\ pc[c] \in Writing =>
         /\ request[c].kind # "read"
         /\ seen[c] = file.keys
         /\ request[c].kind = "delete" => file.keys[request[c].provider] # NoKey
    /\ pc[c] = "commit" =>
         tmp.state = "whole" /\ tmp.pass = pass /\ tmp.keys = Changed(request[c], file.keys)

(* main writes an empty vault where there is none. *)
MainInv ==
  /\ pc[Main] \in {"idle", "return"} \cup Writing
  /\ pc[Main] # "idle" <=> daemon = "starting"
  /\ request[Main] = NoRequest /\ seen[Main] = NoKeys
  /\ pc[Main] \in Writing => file.state = "absent"
  /\ pc[Main] = "commit" => tmp.state = "whole" /\ tmp.pass = pass /\ tmp.keys = NoKeys
  /\ pc[Main] = "return" /\ reply[Main].outcome = "stored" =>
       file.state = "whole" /\ file.pass = pass

VInv == Types /\ FileInv /\ LockInv /\ CallInv /\ MainInv

USE VaultAssumption DEF Thread, Writing

-----------------------------------------------------------------------------

LEMMA NoKeysTyped == NoKeys \in KeysMap
BY DEF NoKeys, KeysMap

LEMMA PlainTyped ==
  ASSUME NEW o \in {"none", "read", "stored", "removed", "absent", "error"}
  PROVE  Plain(o) \in Reply /\ Plain(o).outcome = o /\ NoReply \in Reply
BY NoKeysTyped DEF Plain, NoReply, Reply

LEMMA ChangedTyped ==
  ASSUME NEW q \in Request \cup {NoRequest}, NEW m \in KeysMap
  PROVE  Changed(q, m) \in KeysMap
BY DEF Changed, Request, NoRequest, KeysMap

LEMMA VaultInit == Init => VInv
<1> SUFFICES ASSUME Init PROVE VInv
  OBVIOUS
<1>1. Types
  BY NoKeysTyped, PlainTyped DEF Init, Types, File, NoFile
<1>2. FileInv /\ LockInv /\ CallInv /\ MainInv
  BY DEF Init, FileInv, LockInv, CallInv, MainInv, NoFile
<1>. QED
  BY <1>1, <1>2 DEF VInv

-----------------------------------------------------------------------------
(* A step that leaves the files and the process alone. *)

LEMMA CallStep ==
  ASSUME VInv, NEW c \in Client, NEW q \in Request, Call(c, q)
  PROVE  VInv'
<1>1. c # Main /\ c \in Thread /\ q # NoRequest
  BY DEF Request, NoRequest
<1>2. Types'
  BY <1>1 DEF VInv, Types, Call, disk
<1>3. FileInv' /\ MainInv'
  BY <1>1 DEF VInv, Types, FileInv, MainInv, Call, disk
<1>4. LockInv'
  BY <1>1 DEF VInv, Types, LockInv, Call, disk
<1>5. CallInv'
  BY <1>1 DEF VInv, Types, CallInv, Call, disk
<1>. QED
  BY <1>2, <1>3, <1>4, <1>5 DEF VInv

LEMMA TakeLockStep ==
  ASSUME VInv, NEW c \in Thread, TakeLock(c)
  PROVE  VInv' /\ c \in Client
<1>1. c \in Client /\ c # Main /\ lock = NoThread
  BY DEF VInv, MainInv, TakeLock, MayLock
<1>2. Types'
  BY <1>1 DEF VInv, Types, TakeLock, disk
<1>3. FileInv' /\ MainInv'
  BY <1>1 DEF VInv, Types, FileInv, MainInv, TakeLock, disk
<1>4. LockInv'
  BY <1>1 DEF VInv, Types, LockInv, TakeLock, disk
<1>5. CallInv'
  BY <1>1 DEF VInv, Types, CallInv, TakeLock, disk
<1>. QED
  BY <1>1, <1>2, <1>3, <1>4, <1>5 DEF VInv

LEMMA ReadForReaderStep ==
  ASSUME VInv, NEW c \in Thread, ReadForReader(c)
  PROVE  VInv' /\ c \in Client
<1>1. c \in Client /\ c # Main
  BY DEF VInv, MainInv, ReadForReader
<1>2. [outcome |-> "read", keys |-> file.keys] \in Reply
  BY DEF VInv, Types, File, Reply
<1>3. Types'
  BY <1>1, <1>2 DEF VInv, Types, ReadForReader, disk
<1>4. FileInv' /\ MainInv'
  BY <1>1 DEF VInv, Types, FileInv, MainInv, ReadForReader, disk
<1>5. LockInv'
  BY <1>1 DEF VInv, Types, LockInv, ReadForReader, disk
<1>6. CallInv'
  BY <1>1 DEF VInv, Types, CallInv, ReadForReader, disk
<1>. QED
  BY <1>1, <1>3, <1>4, <1>5, <1>6 DEF VInv

LEMMA ReadForWriterStep ==
  ASSUME VInv, NEW c \in Thread, ReadForWriter(c)
  PROVE  VInv' /\ c \in Client
<1>1. c \in Client /\ c # Main /\ lock = c /\ request[c] \in Request
  BY DEF VInv, MainInv, LockInv, CallInv, ReadForWriter
<1>2. Plain("absent") \in Reply
  BY PlainTyped
<1>3. Types'
  BY <1>1, <1>2 DEF VInv, Types, ReadForWriter, Answer, disk, File
<1>4. FileInv' /\ MainInv'
  BY <1>1 DEF VInv, Types, FileInv, MainInv, ReadForWriter, Answer, disk
<1>5. LockInv'
  BY <1>1 DEF VInv, Types, LockInv, ReadForWriter, Answer, disk
<1>6. CallInv'
  BY <1>1 DEF VInv, Types, CallInv, ReadForWriter, Answer, disk
<1>. QED
  BY <1>1, <1>3, <1>4, <1>5, <1>6 DEF VInv

-----------------------------------------------------------------------------
(* Writing.  Only the holder of the lock, or main before there are calls, writes. *)

LEMMA OneWriter ==
  ASSUME VInv, NEW c \in Thread, pc[c] \in Writing
  PROVE  \A d \in Thread : pc[d] \in Writing => d = c
BY DEF VInv, LockInv, MainInv

LEMMA StageStep ==
  ASSUME VInv, NEW c \in Thread, Stage(c)
  PROVE  VInv'
<1>1. \A d \in Thread : d # c => pc[d] \notin Writing /\ pc'[d] = pc[d]
  BY OneWriter DEF VInv, Types, Stage
<1>2. pc'[c] = "fill" /\ pc[c] = "stage"
  BY DEF VInv, Types, Stage
<1>3. Torn \in File
  BY NoKeysTyped DEF Torn, File
<1>4. Types'
  BY <1>3 DEF VInv, Types, Stage
<1>5. FileInv'
  BY DEF VInv, FileInv, Stage
<1>6. LockInv'
  BY <1>1, <1>2 DEF VInv, Types, LockInv, Stage
<1>7. CallInv'
  BY <1>1, <1>2 DEF VInv, Types, CallInv, Stage
<1>8. MainInv'
  BY <1>1, <1>2 DEF VInv, Types, MainInv, Stage
<1>. QED
  BY <1>4, <1>5, <1>6, <1>7, <1>8 DEF VInv

LEMMA FillStep ==
  ASSUME VInv, NEW c \in Thread, Fill(c)
  PROVE  VInv'
<1>1. \A d \in Thread : d # c => pc[d] \notin Writing /\ pc'[d] = pc[d]
  BY OneWriter DEF VInv, Types, Fill
<1>2. pc'[c] = "commit" /\ pc[c] = "fill"
  BY DEF VInv, Types, Fill
<1>3. Changed(request[c], seen[c]) \in KeysMap
  BY ChangedTyped DEF VInv, Types
<1>4. /\ tmp' \in File /\ tmp'.state = "whole" /\ tmp'.pass = pass
      /\ tmp'.keys = Changed(request[c], seen[c])
  BY <1>3 DEF VInv, Types, File, Fill
<1>5. Types'
  BY <1>4 DEF VInv, Types, Fill
<1>6. FileInv'
  BY DEF VInv, FileInv, Fill
<1>7. LockInv'
  BY <1>1, <1>2 DEF VInv, Types, LockInv, Fill
<1>8. UNCHANGED <<file, request, seen, reply, pass, daemon>>
  BY DEF Fill
<1>9. CallInv'
  <2> SUFFICES ASSUME NEW d \in Client
               PROVE  CallInv!(d)'
    BY DEF CallInv
  <2>1. CASE d = c
    BY <1>2, <1>4, <1>8, <2>1 DEF VInv, CallInv
  <2>2. CASE d # c
    BY <1>1, <1>8, <2>2 DEF VInv, CallInv
  <2>. QED
    BY <2>1, <2>2
<1>10. MainInv'
  <2>1. c = Main => tmp'.keys = NoKeys
    BY <1>4 DEF VInv, MainInv, Changed, NoRequest
  <2>. QED
    BY <1>1, <1>2, <1>4, <1>8, <2>1 DEF VInv, MainInv
<1>. QED
  BY <1>5, <1>6, <1>7, <1>9, <1>10 DEF VInv

LEMMA CommitStep ==
  ASSUME VInv, NEW c \in Thread, Commit(c)
  PROVE  VInv'
<1>1. \A d \in Thread : d # c => pc[d] \notin Writing /\ pc'[d] = pc[d] /\ reply'[d] = reply[d]
  BY OneWriter DEF VInv, Types, Commit, Answer
<1>2. pc'[c] = "return" /\ pc[c] = "commit"
  BY DEF VInv, Types, Commit, Answer
<1>3. NoFile \in File
  BY NoKeysTyped DEF NoFile, File
<1>4. file'.state = "whole" /\ file'.pass = pass
  BY DEF VInv, CallInv, MainInv, Commit
<1>5. Types'
  <2>1. Plain("removed") \in Reply /\ Plain("stored") \in Reply
    BY PlainTyped
  <2>. QED
    BY <1>3, <2>1 DEF VInv, Types, Commit, Answer
<1>6. FileInv'
  BY <1>4 DEF VInv, FileInv, Commit
<1>7. LockInv'
  BY <1>1, <1>2 DEF VInv, Types, LockInv, Commit
<1>8. UNCHANGED <<pass, daemon, lock, request, seen>>
  BY DEF Commit
<1>9. CallInv'
  BY <1>1, <1>2, <1>8 DEF VInv, CallInv
<1>10. MainInv'
  BY <1>1, <1>2, <1>4, <1>8 DEF VInv, MainInv
<1>. QED
  BY <1>5, <1>6, <1>7, <1>9, <1>10 DEF VInv

LEMMA IoFailsStep ==
  ASSUME VInv, NEW c \in Thread, IoFails(c)
  PROVE  VInv'
<1>1. \A d \in Thread : d # c => pc'[d] = pc[d] /\ reply'[d] = reply[d]
  BY DEF VInv, Types, IoFails, Answer
<1>2. pc'[c] = "return" /\ pc[c] \notin {"idle", "lock"} /\ reply'[c].outcome = "error"
  BY PlainTyped DEF VInv, Types, IoFails, Answer
<1>3. UNCHANGED <<pass, daemon, file, tmp, lock, request, seen>>
  BY DEF IoFails, disk
<1>4. Types'
  BY <1>3, PlainTyped DEF VInv, Types, IoFails, Answer
<1>5. FileInv'
  BY <1>3 DEF VInv, FileInv
<1>6. LockInv'
  BY <1>1, <1>2, <1>3 DEF VInv, Types, LockInv
<1>7. CallInv'
  BY <1>1, <1>2, <1>3 DEF VInv, CallInv
<1>8. MainInv'
  BY <1>1, <1>2, <1>3 DEF VInv, MainInv
<1>. QED
  BY <1>4, <1>5, <1>6, <1>7, <1>8 DEF VInv

LEMMA ReturnStep ==
  ASSUME VInv, NEW c \in Thread, Return(c)
  PROVE  VInv'
<1>1. c \in Client /\ c # Main /\ pc[c] = "return"
  BY DEF Return
<1>2. UNCHANGED <<pass, daemon, file, tmp>>
  BY DEF Return, disk
<1>3. \A d \in Thread : d # c => /\ pc'[d] = pc[d] /\ request'[d] = request[d]
                                 /\ seen'[d] = seen[d] /\ reply'[d] = reply[d]
  BY DEF VInv, Types, Return
<1>4. pc'[c] = "idle" /\ request'[c] = NoRequest /\ reply'[c] = NoReply
  BY <1>1 DEF VInv, Types, Return
<1>5. lock' = IF lock = c THEN NoThread ELSE lock
  BY DEF Return, Unlocked
<1>6. Types'
  BY <1>2, <1>5, NoKeysTyped, PlainTyped DEF VInv, Types, Return
<1>7. FileInv'
  BY <1>2 DEF VInv, FileInv
<1>8. LockInv'
  BY <1>1, <1>2, <1>3, <1>4, <1>5 DEF VInv, Types, LockInv
<1>9. CallInv'
  BY <1>1, <1>2, <1>3, <1>4 DEF VInv, CallInv
<1>10. MainInv'
  BY <1>1, <1>2, <1>3 DEF VInv, MainInv
<1>. QED
  BY <1>6, <1>7, <1>8, <1>9, <1>10 DEF VInv

-----------------------------------------------------------------------------
(* The process *)

LEMMA OpenStep ==
  ASSUME VInv, NEW w \in Passphrase \cup {NoPass}, Open(w)
  PROVE  VInv'
<1>1. /\ daemon = "down" /\ daemon' = "up" /\ pass' = w
      /\ file.state = "whole" /\ file.pass = w
      /\ UNCHANGED <<file, tmp, lock, pc, request, seen, reply>>
  BY DEF Open, Decrypts, disk
<1>2. Types' /\ FileInv' /\ LockInv'
  BY <1>1 DEF VInv, Types, FileInv, LockInv
<1>3. CallInv' /\ MainInv'
  BY <1>1 DEF VInv, LockInv, CallInv, MainInv
<1>. QED
  BY <1>2, <1>3 DEF VInv

LEMMA CreateStep ==
  ASSUME VInv, NEW w \in Passphrase \cup {NoPass}, Create(w)
  PROVE  VInv'
<1>1. /\ daemon = "down" /\ daemon' = "starting" /\ pass' \in Passphrase
      /\ file.state = "absent"
      /\ pc' = [pc EXCEPT ![Main] = "stage"]
      /\ UNCHANGED <<file, tmp, lock, request, seen, reply>>
  BY DEF Create, ToCreate, disk
<1>2. pc'[Main] = "stage" /\ \A d \in Client : pc'[d] = pc[d] /\ pc[d] = "idle"
  BY <1>1 DEF VInv, Types, LockInv
<1>3. Types' /\ FileInv'
  BY <1>1 DEF VInv, Types, FileInv
<1>4. LockInv'
  BY <1>1, <1>2 DEF VInv, Types, LockInv
<1>5. CallInv'
  BY <1>1, <1>2 DEF VInv, CallInv
<1>6. MainInv'
  BY <1>1, <1>2 DEF VInv, MainInv
<1>. QED
  BY <1>3, <1>4, <1>5, <1>6 DEF VInv

LEMMA CreatedStep ==
  ASSUME VInv, Created
  PROVE  VInv'
<1>1. /\ daemon = "starting" /\ daemon' = "up" /\ file.state = "whole" /\ file.pass = pass
      /\ pc' = [pc EXCEPT ![Main] = "idle"] /\ reply' = [reply EXCEPT ![Main] = NoReply]
      /\ UNCHANGED <<pass, file, tmp, lock, request, seen>>
  BY DEF VInv, MainInv, Created, disk
<1>2. /\ pc'[Main] = "idle"
      /\ \A d \in Client : pc'[d] = pc[d] /\ reply'[d] = reply[d] /\ pc[d] = "idle"
  BY <1>1 DEF VInv, Types, LockInv
<1>3. Types' /\ FileInv'
  BY <1>1, PlainTyped DEF VInv, Types, FileInv
<1>4. LockInv'
  BY <1>1, <1>2 DEF VInv, Types, LockInv
<1>5. CallInv'
  BY <1>1, <1>2 DEF VInv, CallInv
<1>6. MainInv'
  BY <1>1, <1>2 DEF VInv, MainInv
<1>. QED
  BY <1>3, <1>4, <1>5, <1>6 DEF VInv

(* The end of the process leaves no call behind. *)
LEMMA ProcessEnds ==
  ASSUME VInv, NotCreated \/ Crash
  PROVE  VInv'
<1>1. daemon' = "down" /\ pass' = NoPass /\ CallsEnd /\ file' = file /\ tmp' = tmp
  BY DEF NotCreated, Crash, disk
<1>2. Types'
  BY <1>1, NoKeysTyped, PlainTyped DEF VInv, Types, CallsEnd
<1>3. FileInv' /\ LockInv' /\ CallInv' /\ MainInv'
  BY <1>1 DEF VInv, FileInv, LockInv, CallInv, MainInv, CallsEnd
<1>. QED
  BY <1>2, <1>3 DEF VInv

LEMMA VaultStep ==
  ASSUME VInv, [Next]_vars
  PROVE  VInv'
<1>1. ASSUME NEW c \in Client, NEW q \in Request, Call(c, q) PROVE VInv'
  BY <1>1, CallStep
<1>2. ASSUME NEW c \in Thread, Step(c) PROVE VInv'
  BY <1>2, TakeLockStep, ReadForReaderStep, ReadForWriterStep, StageStep, FillStep,
     CommitStep, IoFailsStep, ReturnStep DEF Step
<1>3. ASSUME NEW w \in Passphrase \cup {NoPass}, Open(w) \/ Create(w) PROVE VInv'
  BY <1>3, OpenStep, CreateStep
<1>4. CASE Created \/ NotCreated \/ Crash
  BY <1>4, CreatedStep, ProcessEnds
<1>5. CASE UNCHANGED vars
  <2>1. UNCHANGED <<daemon, pass, file, tmp, lock, pc, request, seen, reply>>
    BY <1>5 DEF vars, disk
  <2>. QED
    BY <2>1 DEF VInv, Types, FileInv, LockInv, CallInv, MainInv
<1>. QED
  BY <1>1, <1>2, <1>3, <1>4, <1>5 DEF Next

(* The inductive invariant of the vault. *)
THEOREM VaultInvariance == Spec => []VInv
<1>1. Init => VInv
  BY VaultInit
<1>2. VInv /\ [Next]_vars => VInv'
  BY VaultStep
<1>. QED
  BY <1>1, <1>2, PTL DEF Spec

(* Every variable of the vault stays in its range, writers hold the lock, and the lock
   is held by a thread in a call. *)
THEOREM VaultTyped == Spec => []TypeOK
<1>1. VInv => TypeOK
  BY DEF VInv, Types, LockInv, MainInv, TypeOK
<1>. QED
  BY <1>1, VaultInvariance, PTL

(* The vault file is never torn, neither by a crash mid-write nor by two writers, and no
   change and no start gives a vault another passphrase. *)
THEOREM VaultSurvives == Spec => VaultIsKept
<1>0. VInv => file.state # "torn"
  BY DEF VInv, FileInv
<1>1. ASSUME VInv, [Next]_vars, file.state = "whole"
      PROVE  file'.state = "whole" /\ file'.pass = file.pass
  <2>1. ASSUME NEW c \in Thread, Commit(c)
        PROVE  file'.state = "whole" /\ file'.pass = file.pass
    <3>1. c # Main
      BY <1>1, <2>1 DEF VInv, MainInv, Commit
    <3>2. daemon = "up" /\ tmp.state = "whole" /\ tmp.pass = pass
      BY <1>1, <2>1, <3>1 DEF VInv, Types, LockInv, CallInv, Commit
    <3>. QED
      BY <1>1, <2>1, <3>2 DEF VInv, FileInv, Commit
  <2>2. ASSUME NEW c \in Thread, Step(c), ~Commit(c)
        PROVE  file' = file
    BY <2>2 DEF Step, TakeLock, ReadForReader, ReadForWriter, Stage, Fill, IoFails, Return, disk
  <2>. QED
    BY <1>1, <2>1, <2>2
    DEF Next, Call, Open, Create, Created, NotCreated, Crash, vars, disk
<1>. QED
  <2>1. VInv /\ VInv' /\ [Next]_vars =>
          [/\ file'.state # "torn"
           /\ file.state = "whole" => file'.state = "whole" /\ file'.pass = file.pass]_vars
    BY <1>0, <1>1 DEF VInv, FileInv
  <2>. QED
    BY <2>1, VaultInvariance, PTL DEF Spec, VaultIsKept

-----------------------------------------------------------------------------
(* The vault implements KeyMap. *)

statusOf  == [c \in Client |-> IF pc[c] = "idle" THEN "idle"
                               ELSE IF pc[c] = "return" THEN "answered" ELSE "pending"]
requestOf == [c \in Client |-> request[c]]
replyOf   == [c \in Client |-> reply[c]]

LEMMA MappedInit == Init => KeyMapOf!Init
BY DEF Init, KeyMapOf!Init, KeyMapOf!NoKeys, KeyMapOf!NoRequest, KeyMapOf!NoReply,
       NoFile, NoKeys, NoRequest, NoReply

(* A step that changes no key, no answer and no caller's progress is a stutter. *)
LEMMA Stutters ==
  ASSUME file'.keys = file.keys, UNCHANGED <<request, reply>>,
         \A c \in Client : pc'[c] = pc[c] \/ {pc[c], pc'[c]} \cap {"idle", "return"} = {}
  PROVE  UNCHANGED KeyMapOf!vars
<1>1. statusOf' = statusOf
  BY DEF statusOf
<1>2. requestOf' = requestOf /\ replyOf' = replyOf
  BY DEF requestOf, replyOf
<1>. QED
  BY <1>1, <1>2 DEF KeyMapOf!vars, statusOf, requestOf, replyOf

LEMMA MainIsHidden ==
  ASSUME VInv, Step(Main)
  PROVE  UNCHANGED KeyMapOf!vars
<1>1. Stage(Main) \/ Fill(Main) \/ Commit(Main) \/ IoFails(Main)
  BY DEF VInv, MainInv, Step, TakeLock, ReadForReader, ReadForWriter, Return, NoRequest
<1>2. file'.keys = file.keys
  BY <1>1 DEF VInv, FileInv, MainInv, Stage, Fill, Commit, IoFails, disk
<1>3. \A c \in Client : pc'[c] = pc[c] /\ request'[c] = request[c] /\ reply'[c] = reply[c]
  BY <1>1 DEF VInv, Types, Stage, Fill, Commit, IoFails, Answer
<1>4. statusOf' = statusOf /\ requestOf' = requestOf /\ replyOf' = replyOf
  BY <1>3 DEF statusOf, requestOf, replyOf
<1>. QED
  BY <1>2, <1>4 DEF KeyMapOf!vars, statusOf, requestOf, replyOf

LEMMA CallMapped ==
  ASSUME VInv, NEW c \in Client, NEW q \in Request, Call(c, q)
  PROVE  KeyMapOf!Call(c, q)
<1>1. c \in Thread /\ pc[c] = "idle" /\ pc'[c] \in {"read", "lock"} /\ request'[c] = q
      /\ file' = file /\ reply' = reply
  BY DEF VInv, Types, Call, disk
<1>2. \A d \in Client : d # c => pc'[d] = pc[d] /\ request'[d] = request[d]
  BY DEF VInv, Types, Call
<1>3. statusOf[c] = "idle" /\ statusOf' = [statusOf EXCEPT ![c] = "pending"]
  BY <1>1, <1>2 DEF statusOf
<1>4. requestOf' = [requestOf EXCEPT ![c] = q]
  BY <1>1, <1>2 DEF requestOf
<1>5. replyOf' = replyOf /\ file'.keys = file.keys
  BY <1>1 DEF replyOf
<1>. QED
  BY <1>3, <1>4, <1>5 DEF KeyMapOf!Call, statusOf, requestOf, replyOf

(* What an answer of a call under way does to the mapped variables. *)
LEMMA Answered ==
  ASSUME VInv, NEW c \in Client, pc[c] \notin {"idle", "return"}, NEW r,
         pc' = [pc EXCEPT ![c] = "return"], reply' = [reply EXCEPT ![c] = r],
         request' = request
  PROVE  /\ statusOf[c] = "pending" /\ statusOf' = [statusOf EXCEPT ![c] = "answered"]
         /\ replyOf' = [replyOf EXCEPT ![c] = r] /\ requestOf' = requestOf
<1>1. c \in Thread /\ pc'[c] = "return" /\ reply'[c] = r
      /\ \A d \in Client : d # c => pc'[d] = pc[d] /\ reply'[d] = reply[d]
  BY DEF VInv, Types
<1>. QED
  BY <1>1 DEF statusOf, replyOf, requestOf

LEMMA TakesEffect ==
  ASSUME VInv, NEW c \in Client, pc[c] \notin {"idle", "return"},
         pc' = [pc EXCEPT ![c] = "return"],
         reply' = [reply EXCEPT ![c] = KeyMapOf!Answer(request[c], file.keys)],
         request' = request, file'.keys = KeyMapOf!After(request[c], file.keys)
  PROVE  KeyMapOf!TakeEffect(c)
<1>1. /\ statusOf[c] = "pending" /\ statusOf' = [statusOf EXCEPT ![c] = "answered"]
      /\ replyOf' = [replyOf EXCEPT ![c] = KeyMapOf!Answer(request[c], file.keys)]
      /\ requestOf' = requestOf /\ requestOf[c] = request[c]
  BY Answered DEF requestOf
<1>2. file'.keys = KeyMapOf!After(requestOf[c], file.keys)
  BY <1>1
<1>3. replyOf' = [replyOf EXCEPT ![c] = KeyMapOf!Answer(requestOf[c], file.keys)]
  BY <1>1
<1>. QED
  BY <1>1, <1>2, <1>3 DEF KeyMapOf!TakeEffect, statusOf, requestOf, replyOf

LEMMA ReadForReaderMapped ==
  ASSUME VInv, NEW c \in Client, ReadForReader(c)
  PROVE  KeyMapOf!TakeEffect(c)
<1>1. /\ pc[c] = "read" /\ pc' = [pc EXCEPT ![c] = "return"]
      /\ reply' = [reply EXCEPT ![c] = [outcome |-> "read", keys |-> file.keys]]
      /\ request' = request /\ file' = file /\ request[c].kind = "read"
  BY DEF ReadForReader, disk
<1>2. /\ KeyMapOf!Answer(request[c], file.keys) = [outcome |-> "read", keys |-> file.keys]
      /\ KeyMapOf!After(request[c], file.keys) = file.keys
  BY <1>1 DEF KeyMapOf!Answer, KeyMapOf!After
<1>. QED
  BY <1>1, <1>2, TakesEffect

(* A deletion of an absent key takes effect when the writer reads; nothing else it does
   before the rename is visible. *)
LEMMA ReadForWriterMapped ==
  ASSUME VInv, NEW c \in Client, ReadForWriter(c)
  PROVE  KeyMapOf!TakeEffect(c) \/ UNCHANGED KeyMapOf!vars
<1>1. /\ pc[c] = "read" /\ request' = request /\ file' = file /\ c \in Thread
      /\ request[c] \in Request /\ file.keys \in KeysMap
  BY DEF VInv, Types, File, CallInv, ReadForWriter, disk
<1>2. CASE request[c].kind = "delete" /\ file.keys[request[c].provider] = NoKey
  <2>1. /\ pc' = [pc EXCEPT ![c] = "return"]
        /\ reply' = [reply EXCEPT ![c] = Plain("absent")]
    BY <1>2 DEF ReadForWriter, Answer
  <2>2. KeyMapOf!After(request[c], file.keys) = [file.keys EXCEPT ![request[c].provider] = NoKey]
    BY <1>2 DEF KeyMapOf!After
  <2>3. [file.keys EXCEPT ![request[c].provider] = NoKey] = file.keys
    BY <1>1, <1>2 DEF KeysMap
  <2>4. KeyMapOf!Answer(request[c], file.keys) = Plain("absent")
    BY <1>2 DEF KeyMapOf!Answer, Plain, NoReply, NoKeys, KeyMapOf!NoKeys
  <2>. QED
    BY <1>1, <2>1, <2>2, <2>3, <2>4, TakesEffect
<1>3. CASE ~(request[c].kind = "delete" /\ file.keys[request[c].provider] = NoKey)
  <2>1. reply' = reply /\ pc' = [pc EXCEPT ![c] = "stage"]
    BY <1>3 DEF ReadForWriter
  <2>2. \A d \in Client : pc'[d] = pc[d] \/ {pc[d], pc'[d]} \cap {"idle", "return"} = {}
    BY <1>1, <2>1 DEF VInv, Types
  <2>. QED
    BY <1>1, <2>1, <2>2, Stutters
<1>. QED
  BY <1>2, <1>3

(* The rename is where a change takes effect: the writer has excluded the others since
   it read, so the map it puts in place is the present one, changed. *)
LEMMA CommitMapped ==
  ASSUME VInv, NEW c \in Client, Commit(c)
  PROVE  KeyMapOf!TakeEffect(c)
<1>1. /\ pc[c] = "commit" /\ request' = request /\ c \in Thread
      /\ request[c] \in Request /\ request[c].kind # "read"
      /\ file'.keys = Changed(request[c], file.keys)
      /\ request[c].kind = "delete" => file.keys[request[c].provider] # NoKey
  BY DEF VInv, CallInv, Commit
<1>2. /\ pc' = [pc EXCEPT ![c] = "return"]
      /\ reply' = [reply EXCEPT ![c] =
                     Plain(IF request[c].kind = "delete" THEN "removed" ELSE "stored")]
  BY DEF Commit, Answer
<1>3. request[c].kind \in {"set", "delete"}
  BY <1>1 DEF Request
<1>4. Changed(request[c], file.keys) = KeyMapOf!After(request[c], file.keys)
  BY <1>3 DEF Changed, KeyMapOf!After
<1>5. KeyMapOf!Answer(request[c], file.keys) =
        Plain(IF request[c].kind = "delete" THEN "removed" ELSE "stored")
  BY <1>1, <1>3 DEF KeyMapOf!Answer, Plain, NoReply, NoKeys, KeyMapOf!NoKeys
<1>. QED
  BY <1>1, <1>2, <1>4, <1>5, TakesEffect

LEMMA IoFailsMapped ==
  ASSUME VInv, NEW c \in Client, IoFails(c)
  PROVE  KeyMapOf!Fail(c)
<1>1. /\ pc[c] \notin {"idle", "return"} /\ pc' = [pc EXCEPT ![c] = "return"]
      /\ reply' = [reply EXCEPT ![c] = Plain("error")] /\ request' = request /\ file' = file
  BY DEF IoFails, Answer, disk
<1>2. Plain("error") = KeyMapOf!Failure
  BY DEF Plain, NoReply, NoKeys, KeyMapOf!Failure, KeyMapOf!NoKeys
<1>3. /\ statusOf[c] = "pending" /\ statusOf' = [statusOf EXCEPT ![c] = "answered"]
      /\ replyOf' = [replyOf EXCEPT ![c] = KeyMapOf!Failure] /\ requestOf' = requestOf
  BY <1>1, <1>2, Answered
<1>. QED
  BY <1>1, <1>3 DEF KeyMapOf!Fail, statusOf, requestOf, replyOf

LEMMA ReturnMapped ==
  ASSUME VInv, NEW c \in Client, Return(c)
  PROVE  KeyMapOf!Return(c)
<1>1. /\ c \in Thread /\ pc[c] = "return" /\ pc'[c] = "idle" /\ file' = file
      /\ request'[c] = NoRequest /\ reply'[c] = NoReply
      /\ \A d \in Client : d # c => /\ pc'[d] = pc[d] /\ request'[d] = request[d]
                                    /\ reply'[d] = reply[d]
  BY DEF VInv, Types, Return, disk
<1>2. statusOf[c] = "answered" /\ statusOf' = [statusOf EXCEPT ![c] = "idle"]
  BY <1>1 DEF statusOf
<1>3. requestOf' = [requestOf EXCEPT ![c] = KeyMapOf!NoRequest]
  BY <1>1 DEF requestOf, NoRequest, KeyMapOf!NoRequest
<1>4. replyOf' = [replyOf EXCEPT ![c] = KeyMapOf!NoReply]
  BY <1>1 DEF replyOf, NoReply, NoKeys, KeyMapOf!NoReply, KeyMapOf!NoKeys
<1>. QED
  BY <1>1, <1>2, <1>3, <1>4 DEF KeyMapOf!Return, statusOf, requestOf, replyOf

LEMMA ProcessMapped ==
  ASSUME VInv,
         Created \/ NotCreated \/ Crash
           \/ \E w \in Passphrase \cup {NoPass} : Open(w) \/ Create(w)
  PROVE  KeyMapOf!Crash \/ UNCHANGED KeyMapOf!vars
<1>1. CASE NotCreated \/ Crash
  <2>1. CallsEnd /\ file' = file
    BY <1>1 DEF NotCreated, Crash, disk
  <2>. QED
    BY <2>1 DEF CallsEnd, KeyMapOf!Crash, KeyMapOf!NoRequest, KeyMapOf!NoReply,
                KeyMapOf!NoKeys, NoRequest, NoReply, NoKeys
<1>2. ASSUME NEW w \in Passphrase \cup {NoPass}, Open(w)
      PROVE  UNCHANGED KeyMapOf!vars
  BY <1>2, Stutters DEF Open, disk
<1>3. ASSUME Created \/ \E w \in Passphrase \cup {NoPass} : Create(w)
      PROVE  UNCHANGED KeyMapOf!vars
  <2>1. file' = file /\ request' = request
    BY <1>3 DEF Create, Created, disk
  <2>2. \A d \in Client : pc'[d] = pc[d] /\ reply'[d] = reply[d]
    BY <1>3 DEF VInv, Types, Create, Created
  <2>3. statusOf' = statusOf /\ requestOf' = requestOf /\ replyOf' = replyOf
    BY <2>1, <2>2 DEF statusOf, requestOf, replyOf
  <2>. QED
    BY <2>1, <2>3 DEF KeyMapOf!vars, statusOf, requestOf, replyOf
<1>. QED
  BY <1>1, <1>2, <1>3

LEMMA MappedStep ==
  ASSUME VInv, [Next]_vars
  PROVE  [KeyMapOf!Next]_(KeyMapOf!vars)
<1>1. ASSUME NEW c \in Client, NEW q \in Request, Call(c, q)
      PROVE  KeyMapOf!Next
  <2>1. q \in KeyMapOf!Request
    BY DEF Request, KeyMapOf!Request, KeyMapOf!ReadKeys, KeyMapOf!SetKey, KeyMapOf!DeleteKey
  <2>. QED
    BY <1>1, <2>1, CallMapped DEF KeyMapOf!Next
<1>2. ASSUME NEW c \in Client, Step(c)
      PROVE  KeyMapOf!Next \/ UNCHANGED KeyMapOf!vars
  <2>1. CASE TakeLock(c) \/ Stage(c) \/ Fill(c)
    <3>1. file' = file /\ request' = request /\ reply' = reply
      BY <2>1 DEF TakeLock, Stage, Fill, disk
    <3>2. \A d \in Client : pc'[d] = pc[d] \/ {pc[d], pc'[d]} \cap {"idle", "return"} = {}
      BY <2>1 DEF VInv, Types, TakeLock, Stage, Fill
    <3>. QED
      BY <3>1, <3>2, Stutters
  <2>2. CASE ReadForReader(c) \/ ReadForWriter(c) \/ Commit(c)
    BY <2>2, ReadForReaderMapped, ReadForWriterMapped, CommitMapped DEF KeyMapOf!Next
  <2>3. CASE IoFails(c) \/ Return(c)
    BY <2>3, IoFailsMapped, ReturnMapped DEF KeyMapOf!Next
  <2>. QED
    BY <1>2, <2>1, <2>2, <2>3 DEF Step
<1>3. ASSUME Step(Main) PROVE UNCHANGED KeyMapOf!vars
  BY <1>3, MainIsHidden
<1>4. ASSUME Created \/ NotCreated \/ Crash
               \/ \E w \in Passphrase \cup {NoPass} : Open(w) \/ Create(w)
      PROVE  KeyMapOf!Next \/ UNCHANGED KeyMapOf!vars
  BY <1>4, ProcessMapped DEF KeyMapOf!Next
<1>5. CASE UNCHANGED vars
  BY <1>5, Stutters DEF vars, disk
<1>. QED
  BY <1>1, <1>2, <1>3, <1>4, <1>5 DEF Next

(* The vault is the atomic map its callers take it for: changes are not lost or mixed
   up, failed calls change nothing, and answered ones survive crashes. *)
THEOREM Atomic == Spec => IsAtomicKeyMap
<1>1. Init => KeyMapOf!Init
  BY MappedInit
<1>2. VInv /\ [Next]_vars => [KeyMapOf!Next]_(KeyMapOf!vars)
  BY MappedStep
<1>. QED
  BY <1>1, <1>2, VaultInvariance, PTL DEF Spec, IsAtomicKeyMap, KeyMapOf!Spec
=============================================================================
