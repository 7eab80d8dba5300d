---------------------------- MODULE KeyringVault ----------------------------
(* The vault over the operating system's keyring
   (argos-security/src/vault.rs, KeyringVault), for one key.

   An entry of the keyring holds 1000 characters, so a longer secret is cut
   into entries of its own, and the entry of the key holds a marker with
   their number.  Every call of the keyring is a step: the vault has no lock,
   each task makes a KeyringVault of its own, and other processes share the
   entries.  Any call may be refused and the process may end at any step. *)
EXTENDS Integers, Sequences

CONSTANTS
  Clients,      \* the tasks and processes that use the key
  Secrets,
  Size,         \* the number of pieces of a secret
  MaxSize,
  MayFail,      \* whether calls of the keyring fail and processes end
  NoSecret, Damaged

ASSUME SizeAssumption ==
  /\ MaxSize \in Nat \ {0}
  /\ Size \in [Secrets -> 1 .. MaxSize]
ASSUME MayFailAssumption == MayFail \in BOOLEAN
ASSUME DistinctAnswers ==
  /\ NoSecret \notin Secrets
  /\ Damaged \notin Secrets \cup {NoSecret}

VARIABLES
  main,         \* the entry of the key
  chunks,       \* the entries of the pieces
  call,         \* per client, the call under way
  before,       \* history: what could be read when the client's call began
  answer        \* per client, what the last call answered

vars == <<main, chunks, call, before, answer>>

(* entries *)
Piece == [secret : Secrets \cup {NoSecret}, index : 0 .. MaxSize - 1]
NoPiece == [secret |-> NoSecret, index |-> 0]

Entry == [secret : Secrets \cup {NoSecret}, chunks : 0 .. MaxSize]
NoEntry == [secret |-> NoSecret, chunks |-> 0]
Plain(s) == [secret |-> s, chunks |-> 0]
chunk_marker(n) == [secret |-> NoSecret, chunks |-> n]
IsMarker(entry) == entry.chunks > 0

(* The pieces of a secret, in order, and what a row of pieces stands for. *)
secret_chunks(s) == [i \in 1 .. Size[s] |-> [secret |-> s, index |-> i - 1]]
Meaning(pieces) ==
  IF \E s \in Secrets : pieces = secret_chunks(s)
  THEN CHOOSE s \in Secrets : pieces = secret_chunks(s)
  ELSE Damaged

(* What a retrieve that nobody disturbs finds. *)
Read(entry, pieces) ==
  IF entry = NoEntry THEN NoSecret
  ELSE IF IsMarker(entry)
  THEN Meaning([i \in 1 .. entry.chunks |-> pieces[i - 1]])
  ELSE entry.secret
Readable == Read(main, chunks)

(* calls *)
Ok(s) == [ok |-> TRUE, secret |-> s]
Err == [ok |-> FALSE, secret |-> NoSecret]

Idle == [op |-> "idle", secret |-> NoSecret, step |-> "none", index |-> 0,
         count |-> 0, combined |-> <<>>]

Call == [op : {"idle", "store", "retrieve", "delete"},
         secret : Secrets \cup {NoSecret},
         step : {"none", "look", "drop", "chunk", "main", "read"},
         index : 0 .. MaxSize, count : 0 .. MaxSize,
         combined : Seq(Piece)]

TypeOK ==
  /\ main \in Entry
  /\ chunks \in [0 .. MaxSize - 1 -> Piece]
  /\ call \in [Clients -> Call]
  /\ before \in [Clients -> Secrets \cup {NoSecret, Damaged}]
  /\ answer \in [Clients -> [ok : BOOLEAN,
                             secret : Secrets \cup {NoSecret, Damaged}]]

Init ==
  /\ main = NoEntry
  /\ chunks = [i \in 0 .. MaxSize - 1 |-> NoPiece]
  /\ call = [c \in Clients |-> Idle]
  /\ before = [c \in Clients |-> NoSecret]
  /\ answer = [c \in Clients |-> Err]

At(c, ops, step) == call[c].op \in ops /\ call[c].step = step
Go(c, step, index) ==
  call' = [call EXCEPT ![c].step = step, ![c].index = index]
Answer(c, a) ==
  /\ call' = [call EXCEPT ![c] = Idle]
  /\ answer' = [answer EXCEPT ![c] = a]

Begin(c, op, s) ==
  /\ call[c] = Idle
  /\ call' = [call EXCEPT ![c].op = op, ![c].secret = s, ![c].step = "look"]
  /\ before' = [before EXCEPT ![c] = Readable]
  /\ UNCHANGED <<main, chunks, answer>>

(* Where a call goes once no old piece is left to be dropped. *)
AfterDrop(c) ==
  IF call[c].op = "store" /\ Size[call[c].secret] > 1 THEN "chunk" ELSE "main"

(* store and delete, delete_existing_chunks: how many pieces does the key
   have?  An entry that can not be read counts as one without pieces. *)
Look(c) ==
  /\ At(c, {"store", "delete"}, "look")
  /\ \E count \in {main.chunks} \cup (IF MayFail THEN {0} ELSE {}) :
       call' = [call EXCEPT
                  ![c].count = count,
                  ![c].step = IF count > 0 THEN "drop" ELSE AfterDrop(c)]
  /\ UNCHANGED <<main, chunks, before, answer>>

(* delete_chunk_entries: a piece that is not there counts as deleted. *)
DropChunk(c) ==
  /\ At(c, {"store", "delete"}, "drop")
  /\ chunks' = [chunks EXCEPT ![call[c].index] = NoPiece]
  /\ IF call[c].index + 1 < call[c].count
     THEN Go(c, "drop", call[c].index + 1)
     ELSE Go(c, AfterDrop(c), 0)
  /\ UNCHANGED <<main, before, answer>>

StoreChunk(c) ==
  /\ At(c, {"store"}, "chunk")
  /\ LET index == call[c].index
         pieces == secret_chunks(call[c].secret)
     IN  /\ chunks' = [chunks EXCEPT ![index] = pieces[index + 1]]
         /\ IF index + 1 < Len(pieces)
            THEN Go(c, "chunk", index + 1)
            ELSE Go(c, "main", 0)
  /\ UNCHANGED <<main, before, answer>>

(* Defect: The marker counts one piece too few. *)
StoreMainShort(c) ==
  /\ At(c, {"store"}, "main")
  /\ LET s == call[c].secret IN
     main' = IF Size[s] = 1 THEN Plain(s) ELSE chunk_marker(Size[s] - 1)
  /\ Answer(c, Ok(NoSecret))
  /\ UNCHANGED <<chunks, before>>

(* The last step of a store: a short secret itself, or the marker. *)
StoreMain(c) ==
  /\ At(c, {"store"}, "main")
  /\ LET s == call[c].secret IN
     main' = IF Size[s] = 1 THEN Plain(s) ELSE chunk_marker(Size[s])
  /\ Answer(c, Ok(NoSecret))
  /\ UNCHANGED <<chunks, before>>

DeleteMain(c) ==
  /\ At(c, {"delete"}, "main")
  /\ main' = NoEntry
  /\ Answer(c, Ok(NoSecret))
  /\ UNCHANGED <<chunks, before>>

RetrieveMain(c) ==
  /\ At(c, {"retrieve"}, "look")
  /\ IF IsMarker(main)
     THEN /\ call' = [call EXCEPT ![c].step = "read", ![c].count = main.chunks]
          /\ UNCHANGED answer
     ELSE Answer(c, IF main = NoEntry THEN Err ELSE Ok(main.secret))
  /\ UNCHANGED <<main, chunks, before>>

(* The next piece; a missing one fails the call. *)
RetrieveChunk(c) ==
  /\ At(c, {"retrieve"}, "read")
  /\ LET index == call[c].index
         combined == Append(call[c].combined, chunks[index])
     IN  IF chunks[index] = NoPiece THEN Answer(c, Err)
         ELSE IF index + 1 = call[c].count THEN Answer(c, Ok(Meaning(combined)))
         ELSE /\ call' = [call EXCEPT ![c].index = index + 1,
                                      ![c].combined = combined]
              /\ UNCHANGED answer
  /\ UNCHANGED <<main, chunks, before>>

(* The keyring refuses the step, or the process ends before it. *)
Abort(c) ==
  /\ MayFail
  /\ call[c] # Idle
  /\ Answer(c, Err)
  /\ UNCHANGED <<main, chunks, before>>

Store(c) == \E s \in Secrets : Begin(c, "store", s)
Retrieve(c) == Begin(c, "retrieve", NoSecret)
Delete(c) == Begin(c, "delete", NoSecret)

Next ==
  \E c \in Clients :
    \/ Store(c) \/ Retrieve(c) \/ Delete(c)
    \/ Look(c) \/ DropChunk(c)
    \/ StoreChunk(c) \/ StoreMain(c) \/ DeleteMain(c)
    \/ RetrieveMain(c) \/ RetrieveChunk(c)
    \/ Abort(c)

Spec == Init /\ [][Next]_vars
-----------------------------------------------------------------------------
(* Properties. *)

Writing(c) == call[c].op \in {"store", "delete"}

(* For a caller that is alone the entries implement the vault of the trait,
   with calls that fail and processes that end: whatever wreckage a failed
   call left, the next store or delete that succeeds takes effect as a whole,
   and a failed one leaves the old secret, the new one or damage. *)
client == CHOOSE c \in Clients : TRUE
Vault == INSTANCE SecretVault WITH
  secret <- IF Writing(client) THEN Damaged ELSE Readable,
  call   <- [op |-> call[client].op, secret |-> call[client].secret],
  before <- before[client],
  answer <- answer[client]
ImplementsVault == Vault!Spec

(* traits.rs: "Retrieve the secret under `key`. Errors if absent."  What a
   retrieve answers is a secret as it was stored, never pieces of several
   secrets or a part of one.  The code violates this where a store has ended
   between its first piece and its marker. *)
RetrievedAsStored == \A c \in Clients : answer[c].secret # Damaged

=============================================================================
