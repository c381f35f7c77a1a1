------------------------------- MODULE KeyMap -------------------------------
(***************************************************************************)
(* What the vault promises its callers (crates/daemon/src/vault.rs): one   *)
(* map of keys; every call takes effect at once, between the moment it is  *)
(* made and its answer, or fails without any effect.  A crash ends the     *)
(* calls under way; what they did, and all that was answered, stays.       *)
(***************************************************************************)

CONSTANTS
  Client,    \* callers
  Provider,  \* provider ids
  Key,       \* keys: never blank, upsert_key rejects those
  NoKey      \* no key is stored

VARIABLES
  keys,      \* what is stored
  status,    \* how far each caller is
  request,   \* what it asked for
  reply      \* what it is answered

vars == <<keys, status, request, reply>>

KeysMap == [Provider -> Key \cup {NoKey}]
NoKeys  == [p \in Provider |-> NoKey]

\* get_key and list_providers look into the map they read; build_provider, the SMTP
\* set-up and list_keys are callers of theirs.
ReadKeys == [kind : {"read"}, provider : Provider, key : {NoKey}]
SetKey == [kind : {"set"}, provider : Provider, key : Key]
DeleteKey == [kind : {"delete"}, provider : Provider, key : {NoKey}]
Request == ReadKeys \cup SetKey \cup DeleteKey

NoRequest == [kind |-> "none"]

Outcome == {"read", "stored", "removed", "absent", "error"}
Reply == [outcome : Outcome, keys : KeysMap]
NoReply == [outcome |-> "none", keys |-> NoKeys]

\* The map after a call.
After(q, m) ==
  CASE q.kind = "read"   -> m
    [] q.kind = "set"    -> [m EXCEPT ![q.provider] = q.key]
    [] q.kind = "delete" -> [m EXCEPT ![q.provider] = NoKey]

\* The answer to a call that finds the map m.
Answer(q, m) ==
  CASE q.kind = "read"   -> [outcome |-> "read", keys |-> m]
    [] q.kind = "set"    -> [outcome |-> "stored", keys |-> NoKeys]
    [] q.kind = "delete" -> [outcome |-> IF m[q.provider] = NoKey THEN "absent" ELSE "removed",
                             keys |-> NoKeys]

Failure == [outcome |-> "error", keys |-> NoKeys]

Call(c, q) ==
  /\ status[c] = "idle"
  /\ status' = [status EXCEPT ![c] = "pending"]
  /\ request' = [request EXCEPT ![c] = q]
  /\ UNCHANGED <<keys, reply>>

TakeEffect(c) ==
  /\ status[c] = "pending"
  /\ keys' = After(request[c], keys)
  /\ reply' = [reply EXCEPT ![c] = Answer(request[c], keys)]
  /\ status' = [status EXCEPT ![c] = "answered"]
  /\ UNCHANGED request

Fail(c) ==
  /\ status[c] = "pending"
  /\ reply' = [reply EXCEPT ![c] = Failure]
  /\ status' = [status EXCEPT ![c] = "answered"]
  /\ UNCHANGED <<keys, request>>

Return(c) ==
  /\ status[c] = "answered"
  /\ status' = [status EXCEPT ![c] = "idle"]
  /\ request' = [request EXCEPT ![c] = NoRequest]
  /\ reply' = [reply EXCEPT ![c] = NoReply]
  /\ UNCHANGED keys

Crash ==
  /\ status' = [c \in Client |-> "idle"]
  /\ request' = [c \in Client |-> NoRequest]
  /\ reply' = [c \in Client |-> NoReply]
  /\ UNCHANGED keys

Init ==
  /\ keys = NoKeys
  /\ status = [c \in Client |-> "idle"]
  /\ request = [c \in Client |-> NoRequest]
  /\ reply = [c \in Client |-> NoReply]

Next ==
  \/ \E c \in Client : \/ \E q \in Request : Call(c, q)
                       \/ TakeEffect(c) \/ Fail(c) \/ Return(c)
  \/ Crash

Spec == Init /\ [][Next]_vars
=============================================================================
