---------------------------- MODULE SecretVault ----------------------------
(* What a secret vault promises to one caller, for one key
   (argos-security/src/traits.rs, trait SecretVault; MemoryVault keeps it
   literally).  A call is a begin and an end.  A call that fails may have
   damaged what it was to replace, but can bring back nothing older. *)

CONSTANTS
  Secrets,     \* what may be stored under the key
  NoSecret,    \* nothing is stored
  Damaged      \* what is stored can not be read back

VARIABLES
  secret,      \* what the vault holds
  call,        \* the call under way
  before,      \* what the vault held when it began
  answer       \* what the last call answered

vars == <<secret, call, before, answer>>

Held == Secrets \cup {NoSecret, Damaged}
Idle == [op |-> "idle", secret |-> NoSecret]
Ok(s) == [ok |-> TRUE, secret |-> s]
Err == [ok |-> FALSE, secret |-> NoSecret]

Init ==
  /\ secret = NoSecret /\ before = NoSecret
  /\ call = Idle
  /\ answer = Err

Begin(op, s) ==
  /\ call = Idle
  /\ call' = [op |-> op, secret |-> s]
  /\ before' = secret

Answer(a) ==
  /\ call' = Idle
  /\ answer' = a
  /\ UNCHANGED before

(* Between the two ends of a store or delete the vault promises nothing. *)
BeginWrite ==
  /\ \/ \E s \in Secrets : Begin("store", s)
     \/ Begin("delete", NoSecret)
  /\ secret' = Damaged
  /\ UNCHANGED answer

BeginRetrieve ==
  /\ Begin("retrieve", NoSecret)
  /\ UNCHANGED <<secret, answer>>

(* "Store `secret` under `key`, replacing any existing value", and
   "Remove the secret under `key`": exactly what the call was given. *)
EndWrite ==
  /\ call.op \in {"store", "delete"}
  /\ secret' = call.secret
  /\ Answer(Ok(NoSecret))

(* A retrieve answers what is there; of damage it may answer a remnant. *)
EndRetrieve ==
  /\ call.op = "retrieve"
  /\ secret # NoSecret
  /\ Answer(Ok(secret))
  /\ UNCHANGED secret

Fail ==
  /\ call # Idle
  /\ secret' \in IF call.op = "retrieve" THEN {secret}
                 ELSE {before, call.secret, Damaged}
  /\ Answer(Err)

Next == BeginWrite \/ BeginRetrieve \/ EndWrite \/ EndRetrieve \/ Fail

Spec == Init /\ [][Next]_vars
=============================================================================
