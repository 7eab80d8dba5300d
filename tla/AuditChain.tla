----------------------------- MODULE AuditChain -----------------------------
(* The audit log, a table whose rows are chained by hashes
   (argos-security/src/audit.rs, HashChainAuditLog).

   Tasks make an entry, with the time at which they make it, and record it
   over a connection.  The connection's mutex is held while the last hash is
   read and the row inserted, but these are two statements without a
   transaction, and every process that opens the file has a connection and a
   mutex of its own.  A hash is modelled as the sequence of what was hashed,
   that is, as one that never collides; AUTOINCREMENT makes the order of the
   rows the order of their insertion. *)
EXTENDS Integers, Sequences

CONSTANTS
  Tasks,          \* each records one entry
  Connections,
  ConnectionOf,   \* the connection a task records over
  MaxTampers      \* bound on the modifications of stored rows

ASSUME ConnectionAssumption == ConnectionOf \in [Tasks -> Connections]
ASSUME TamperAssumption == MaxTampers \in Nat

VARIABLES
  rows,           \* the table, ordered by id
  recorded,       \* history: the payloads as they were recorded
  task,           \* per task: "new", "made", "read", "ok" or "failed"
  entry,          \* per task, the payload of its entry
  prev_hash,      \* per task, the last hash it has read
  now,            \* the clock
  tampers

vars == <<rows, recorded, task, entry, prev_hash, now, tampers>>

Payload == [subject : Tasks, time : Nat]
GENESIS_HASH == <<>>
hash_of(prev, payload) == Append(prev, payload)

Row == [payload : Payload, prev : Seq(Payload), hash : Seq(Payload)]

TypeOK ==
  /\ rows \in Seq(Row)
  /\ recorded \in Seq(Payload)
  /\ task \in [Tasks -> {"new", "made", "read", "ok", "failed"}]
  /\ entry \in [Tasks -> Payload]
  /\ prev_hash \in [Tasks -> Seq(Payload)]
  /\ now \in Nat
  /\ tampers \in 0 .. MaxTampers

Init ==
  /\ rows = <<>> /\ recorded = <<>>
  /\ task = [t \in Tasks |-> "new"]
  /\ entry = [t \in Tasks |-> [subject |-> t, time |-> 0]]
  /\ prev_hash = [t \in Tasks |-> GENESIS_HASH]
  /\ now = 0 /\ tampers = 0

(* The caller stamps its entry before it waits for the log. *)
MakeEntry(t) ==
  /\ task[t] = "new"
  /\ task' = [task EXCEPT ![t] = "made"]
  /\ entry' = [entry EXCEPT ![t].time = now]
  /\ now' = now + 1
  /\ UNCHANGED <<rows, recorded, prev_hash, tampers>>

(* Defect: The mutex is released between the two statements. *)
UnlockedBetween(t) == TRUE

(* Whether the mutex of the task's connection is free. *)
Unlocked(t) ==
  \A u \in Tasks : ConnectionOf[u] = ConnectionOf[t] => task[u] # "read"

LastHash == IF rows = <<>> THEN GENESIS_HASH ELSE rows[Len(rows)].hash

(* record: SELECT this_hash ... ORDER BY id DESC LIMIT 1. *)
SelectLast(t) ==
  /\ task[t] = "made"
  /\ Unlocked(t)
  /\ task' = [task EXCEPT ![t] = "read"]
  /\ prev_hash' = [prev_hash EXCEPT ![t] = LastHash]
  /\ UNCHANGED <<rows, recorded, entry, now, tampers>>

(* record: INSERT INTO audit_log. *)
Insert(t) ==
  /\ task[t] = "read"
  /\ task' = [task EXCEPT ![t] = "ok"]
  /\ rows' = Append(rows, [payload |-> entry[t], prev |-> prev_hash[t],
                           hash |-> hash_of(prev_hash[t], entry[t])])
  /\ recorded' = Append(recorded, entry[t])
  /\ UNCHANGED <<entry, prev_hash, now, tampers>>

(* A statement fails, or the process ends: nothing is inserted. *)
Fail(t) ==
  /\ task[t] \in {"made", "read"}
  /\ task' = [task EXCEPT ![t] = "failed"]
  /\ UNCHANGED <<rows, recorded, entry, prev_hash, now, tampers>>

(* Somebody changes the payload of a stored row in place. *)
Tamper ==
  /\ tampers < MaxTampers
  /\ tampers' = tampers + 1
  /\ \E i \in DOMAIN rows, s \in Tasks :
       rows' = [rows EXCEPT ![i].payload.subject = s]
  /\ UNCHANGED <<recorded, task, entry, prev_hash, now>>

Next == Tamper \/ \E t \in Tasks : MakeEntry(t) \/ SelectLast(t) \/ Insert(t) \/ Fail(t)

Spec == Init /\ [][Next]_vars
-----------------------------------------------------------------------------
(* Reading the log. *)

(* verify_chain: every row names the hash before it, and its own hash is that
   of its payload. *)
verify_chain ==
  \A i \in DOMAIN rows :
    /\ rows[i].prev = IF i = 1 THEN GENESIS_HASH ELSE rows[i - 1].hash
    /\ rows[i].hash = hash_of(rows[i].prev, rows[i].payload)

(* query with the empty filter: the rows in the order of their ids. *)
query == [i \in DOMAIN rows |-> rows[i].payload]
-----------------------------------------------------------------------------
(* Properties. *)

(* "Recompute the hash chain; `true` if intact, `false` if tampered": the
   verdict is true exactly when every row holds what was recorded, however
   records, failed records and modifications follow one another.  The code
   keeps this for tasks of one connection and violates it with two. *)
VerdictIsRight == verify_chain <=> query = recorded

=============================================================================
