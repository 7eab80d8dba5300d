--------------------------- MODULE McpCalls_proofs ---------------------------
(* The audit log alone, then the calls of the MCP server and client that use
   it: every step of theirs is a step of the log or leaves it alone, so that
   what holds of the log holds under them. *)
EXTENDS McpCalls, SequenceTheorems, FiniteSetTheorems, TLAPS

(***************************************************************************)
(* The log.                                                                *)
(*                                                                         *)
(* With hashes that do not collide the hash of a row is the sequence of    *)
(* all that was recorded up to it (Chained), and whoever is between its    *)
(* two statements has read the sequence of all that was recorded           *)
(* (ReadIsLast), because nobody else of the connection is there            *)
(* (OneReader).                                                            *)
(***************************************************************************)
OneConnection == \A t, u \in Tasks : ConnectionOf[t] = ConnectionOf[u]

Prefix(s, n) == [j \in 1 .. n |-> s[j]]

Chained ==
  /\ Len(rows) = Len(recorded)
  /\ \A i \in 1 .. Len(rows) : rows[i].hash = Prefix(recorded, i) /\ rows[i].prev = Prefix(recorded, i - 1)

ReadIsLast == \A t \in Tasks : task[t] = "read" => prev_hash[t] = recorded

OneReader == \A t, u \in Tasks : task[t] = "read" /\ task[u] = "read" => t = u

IInv == TypeOK /\ Chained /\ ReadIsLast /\ OneReader
-----------------------------------------------------------------------------
LEMMA PrefixFacts ==
  ASSUME NEW S, NEW s \in Seq(S), NEW e \in S
  PROVE  /\ Prefix(s, Len(s)) = s
         /\ \A n \in 0 .. Len(s) : Prefix(Append(s, e), n) = Prefix(s, n)
         /\ \A n \in 1 .. Len(s) : Prefix(s, n) = Append(Prefix(s, n - 1), s[n])
<1>1. Prefix(s, Len(s)) = s
  BY DEF Prefix
<1>2. ASSUME NEW n \in 0 .. Len(s)
      PROVE  Prefix(Append(s, e), n) = Prefix(s, n)
  <2>1. \A j \in 1 .. n : Append(s, e)[j] = s[j]
    OBVIOUS
  <2> QED BY <2>1 DEF Prefix
<1>3. ASSUME NEW n \in 1 .. Len(s)
      PROVE  Prefix(s, n) = Append(Prefix(s, n - 1), s[n])
  <2>1. Prefix(s, n - 1) \in Seq(S) /\ Len(Prefix(s, n - 1)) = n - 1
    BY DEF Prefix
  <2> QED BY <2>1 DEF Prefix
<1> QED BY <1>1, <1>2, <1>3

LEMMA PrefixAll == ASSUME NEW S, NEW s \in Seq(S) PROVE Prefix(s, Len(s)) = s
BY DEF Prefix

(* Under the invariant the last hash stands for all that was recorded. *)
LEMMA LastHashIsAll == TypeOK /\ Chained => LastHash = recorded
<1> SUFFICES ASSUME TypeOK, Chained PROVE LastHash = recorded
  OBVIOUS
<1>1. rows \in Seq(Row) /\ recorded \in Seq(Payload)
  BY DEF TypeOK
<1>2. CASE rows = <<>>
  <2>1. Len(recorded) = 0
    BY <1>1, <1>2 DEF Chained
  <2>2. recorded = <<>>
    BY <1>1, <2>1, EmptySeq
  <2> QED BY <1>2, <2>2 DEF LastHash, GENESIS_HASH
<1>3. CASE rows # <<>>
  <2>1. Len(rows) \in 1 .. Len(rows)
    BY <1>1, <1>3, EmptySeq
  <2>2. rows[Len(rows)].hash = Prefix(recorded, Len(recorded))
    BY <2>1 DEF Chained
  <2> QED BY <1>1, <1>3, <2>2, PrefixAll DEF LastHash
<1> QED BY <1>2, <1>3

(* Whatever the connections, the state keeps its type. *)
LEMMA StepType == TypeOK /\ [Next]_vars => TypeOK'
<1> SUFFICES ASSUME TypeOK, [Next]_vars PROVE TypeOK'
  OBVIOUS
<1>1. CASE UNCHANGED vars
  BY <1>1 DEF vars, TypeOK
<1>2. CASE Tamper
  <2>1. PICK i \in DOMAIN rows, s \in Tasks :
          rows' = [rows EXCEPT ![i].payload.subject = s]
    BY <1>2 DEF Tamper
  <2>2. [rows[i] EXCEPT !.payload.subject = s] \in Row
    <3>1. rows[i] \in Row
      BY <2>1 DEF TypeOK
    <3> QED BY <3>1 DEF Row, Payload
  <2>3. rows' = [rows EXCEPT ![i] = [rows[i] EXCEPT !.payload.subject = s]]
    BY <2>1
  <2>4. rows' \in Seq(Row)
    BY <2>1, <2>2, <2>3 DEF TypeOK
  <2> QED BY <1>2, <2>4, TamperAssumption DEF TypeOK, Tamper
<1>3. ASSUME NEW t \in Tasks, MakeEntry(t)
      PROVE  TypeOK'
  <2>1. [entry[t] EXCEPT !.time = now] \in Payload
    <3>1. entry[t] \in Payload /\ now \in Nat
      BY DEF TypeOK
    <3> QED BY <3>1 DEF Payload
  <2> QED BY <1>3, <2>1 DEF MakeEntry, TypeOK
<1>4. ASSUME NEW t \in Tasks, SelectLast(t)
      PROVE  TypeOK'
  <2>1. LastHash \in Seq(Payload)
    <3>1. CASE rows = <<>>
      BY <3>1 DEF LastHash, GENESIS_HASH
    <3>2. CASE rows # <<>>
      <4>1. Len(rows) \in 1 .. Len(rows) /\ rows \in Seq(Row)
        BY <3>2, EmptySeq DEF TypeOK
      <4>2. rows[Len(rows)] \in Row
        BY <4>1
      <4> QED BY <3>2, <4>2 DEF LastHash, Row
    <3> QED BY <3>1, <3>2
  <2> QED BY <1>4, <2>1 DEF SelectLast, TypeOK
<1>5. ASSUME NEW t \in Tasks, Insert(t)
      PROVE  TypeOK'
  <2>1. entry[t] \in Payload /\ prev_hash[t] \in Seq(Payload)
    BY DEF TypeOK
  <2>2. [payload |-> entry[t], prev |-> prev_hash[t], hash |-> hash_of(prev_hash[t], entry[t])] \in Row
    BY <2>1 DEF Row, hash_of
  <2> QED BY <1>5, <2>1, <2>2 DEF Insert, TypeOK
<1>6. ASSUME NEW t \in Tasks, Fail(t)
      PROVE  TypeOK'
  BY <1>6 DEF Fail, TypeOK
<1> QED BY <1>1, <1>2, <1>3, <1>4, <1>5, <1>6 DEF Next

(* The log's state has its type, over any number of connections and with any
   number of modifications. *)
THEOREM TypeCorrect == Spec => []TypeOK
<1>1. Init => TypeOK
  BY TamperAssumption DEF Init, TypeOK, Payload, GENESIS_HASH
<1> QED BY <1>1, StepType, PTL DEF Spec

LEMMA InitInv == Init => IInv
BY TamperAssumption
   DEF Init, IInv, TypeOK, Chained, ReadIsLast, OneReader, Payload, Row, GENESIS_HASH

LEMMA SelectKeeps ==
  ASSUME OneConnection, IInv, NEW t \in Tasks, SelectLast(t)
  PROVE  IInv'
<1>1. prev_hash' = [prev_hash EXCEPT ![t] = recorded] /\ task' = [task EXCEPT ![t] = "read"]
  BY LastHashIsAll DEF SelectLast, IInv
<1>2. \A u \in Tasks : task[u] # "read"
  BY DEF SelectLast, Unlocked, OneConnection
<1>3. TypeOK'
  BY StepType DEF IInv, Next
<1>4. Chained'
  BY DEF IInv, Chained, SelectLast
<1>5. ReadIsLast' /\ OneReader'
  BY <1>1, <1>2 DEF IInv, TypeOK, ReadIsLast, OneReader, SelectLast
<1> QED BY <1>3, <1>4, <1>5 DEF IInv

LEMMA InsertKeeps ==
  ASSUME OneConnection, IInv, NEW t \in Tasks, Insert(t)
  PROVE  IInv'
<1> DEFINE row == [payload |-> entry[t], prev |-> prev_hash[t],
                   hash |-> Append(prev_hash[t], entry[t])]
           n == Len(rows)
<1>1. /\ task[t] = "read" /\ task' = [task EXCEPT ![t] = "ok"]
      /\ rows' = Append(rows, row) /\ recorded' = Append(recorded, entry[t])
      /\ UNCHANGED <<entry, prev_hash, now, tampers>>
  BY DEF Insert, hash_of
<1>2. /\ rows \in Seq(Row) /\ recorded \in Seq(Payload) /\ entry[t] \in Payload
      /\ prev_hash[t] = recorded /\ n = Len(recorded)
      /\ task \in [Tasks -> {"new", "made", "read", "ok", "failed"}]
  BY <1>1 DEF IInv, TypeOK, ReadIsLast, Chained
<1>3. row \in Row
  BY <1>2 DEF Row
<1>4. /\ Len(rows') = n + 1 /\ rows'[n + 1] = row
      /\ \A i \in 1 .. n : rows'[i] = rows[i]
      /\ Len(recorded') = n + 1 /\ recorded'[n + 1] = entry[t]
      /\ \A i \in 1 .. n : recorded'[i] = recorded[i]
  BY <1>1, <1>2, <1>3
<1>5. TypeOK'
  BY StepType DEF IInv, Next
<1>6. Chained'
  <2>1. ASSUME NEW i \in 1 .. n + 1
        PROVE  rows'[i].hash = Prefix(recorded', i) /\ rows'[i].prev = Prefix(recorded', i - 1)
    <3>1. CASE i \in 1 .. n
      <4>1. rows[i].hash = Prefix(recorded, i) /\ rows[i].prev = Prefix(recorded, i - 1)
        BY <3>1 DEF IInv, Chained
      <4>2. /\ Prefix(recorded', i) = Prefix(recorded, i)
            /\ Prefix(recorded', i - 1) = Prefix(recorded, i - 1)
        BY <3>1, <1>1, <1>2, PrefixFacts
      <4> QED BY <3>1, <1>4, <4>1, <4>2
    <3>2. CASE i = n + 1
      <4>1. row.prev = recorded /\ row.hash = recorded'
        BY <1>1, <1>2
      <4>2. recorded' \in Seq(Payload) /\ Len(recorded') = n + 1
        BY <1>4, <1>5 DEF TypeOK
      <4>3. Prefix(recorded', n + 1) = recorded'
        BY <4>2, PrefixAll
      <4>4. Prefix(recorded', n) = Prefix(recorded, n) /\ Prefix(recorded, n) = recorded
        BY <1>1, <1>2, PrefixFacts
      <4> QED BY <3>2, <1>4, <4>1, <4>3, <4>4, <1>2
    <3> QED BY <3>1, <3>2, <1>2
  <2> QED BY <2>1, <1>4 DEF Chained
<1>7. ReadIsLast' /\ OneReader'
  BY <1>1, <1>2 DEF IInv, OneReader, ReadIsLast
<1> QED BY <1>5, <1>6, <1>7 DEF IInv

LEMMA TamperKeeps ==
  ASSUME IInv, Tamper
  PROVE  IInv'
<1>1. PICK i \in DOMAIN rows, s \in Tasks :
        rows' = [rows EXCEPT ![i].payload.subject = s]
  BY DEF Tamper
<1>2. rows \in Seq(Row) /\ DOMAIN rows = 1 .. Len(rows) /\ rows[i] \in Row
  BY <1>1 DEF IInv, TypeOK
<1> DEFINE row == [rows[i] EXCEPT !.payload.subject = s]
<1>3. rows' = [rows EXCEPT ![i] = row]
  BY <1>1
<1>4. row \in Row /\ row.hash = rows[i].hash /\ row.prev = rows[i].prev
  BY <1>2 DEF Row, Payload
<1>5. rows' \in Seq(Row) /\ Len(rows') = Len(rows)
  BY <1>2, <1>3, <1>4
<1>6. \A j \in 1 .. Len(rows) : rows'[j].hash = rows[j].hash /\ rows'[j].prev = rows[j].prev
  BY <1>2, <1>3, <1>4
<1>7. TypeOK'
  BY StepType DEF IInv, Next
<1>8. Chained' /\ ReadIsLast' /\ OneReader'
  BY <1>5, <1>6 DEF IInv, Chained, ReadIsLast, OneReader, Tamper
<1> QED BY <1>7, <1>8 DEF IInv

LEMMA NextInv ==
  ASSUME OneConnection, IInv, [Next]_vars
  PROVE  IInv'
<1>1. CASE UNCHANGED vars
  <2>1. TypeOK'
    BY <1>1 DEF vars, IInv, TypeOK
  <2>2. Chained' /\ ReadIsLast' /\ OneReader'
    BY <1>1 DEF vars, IInv, Chained, ReadIsLast, OneReader
  <2> QED BY <2>1, <2>2 DEF IInv
<1>2. CASE Tamper
  BY <1>2, TamperKeeps
<1>3. ASSUME NEW t \in Tasks, MakeEntry(t) \/ Fail(t)
      PROVE  IInv'
  <2>1. CASE MakeEntry(t)
    <3>1. TypeOK'
      BY <2>1, StepType DEF IInv, Next
    <3>2. Chained' /\ ReadIsLast' /\ OneReader'
      <4>1. UNCHANGED <<rows, recorded, prev_hash>>
        BY <2>1 DEF MakeEntry
      <4>2. Chained'
        BY <4>1 DEF IInv, Chained
      <4>3. ReadIsLast' /\ OneReader'
        BY <2>1, <4>1 DEF MakeEntry, IInv, TypeOK, ReadIsLast, OneReader
      <4> QED BY <4>2, <4>3
    <3> QED BY <3>1, <3>2 DEF IInv
  <2>2. CASE Fail(t)
    <3>1. TypeOK'
      BY <2>2, StepType DEF IInv, Next
    <3>2. Chained' /\ ReadIsLast' /\ OneReader'
      <4>1. UNCHANGED <<rows, recorded, prev_hash>>
        BY <2>2 DEF Fail
      <4>2. Chained'
        BY <4>1 DEF IInv, Chained
      <4>3. ReadIsLast' /\ OneReader'
        BY <2>2, <4>1 DEF Fail, IInv, TypeOK, ReadIsLast, OneReader
      <4> QED BY <4>2, <4>3
    <3> QED BY <3>1, <3>2 DEF IInv
  <2> QED BY <1>3, <2>1, <2>2
<1>4. ASSUME NEW t \in Tasks, SelectLast(t)
      PROVE  IInv'
  BY <1>4, SelectKeeps
<1>5. ASSUME NEW t \in Tasks, Insert(t)
      PROVE  IInv'
  BY <1>5, InsertKeeps
<1> QED BY <1>1, <1>2, <1>3, <1>4, <1>5 DEF Next

(* The chain as it is recomputed breaks exactly where a payload differs. *)
LEMMA VerdictFromChain == IInv => VerdictIsRight
<1> SUFFICES ASSUME IInv PROVE VerdictIsRight
  OBVIOUS
<1>1. /\ rows \in Seq(Row) /\ recorded \in Seq(Payload) /\ Len(rows) = Len(recorded)
      /\ DOMAIN rows = 1 .. Len(rows)
      /\ DOMAIN recorded = 1 .. Len(rows)
  BY DEF IInv, TypeOK, Chained
<1>2. ASSUME NEW i \in DOMAIN rows
      PROVE  /\ rows[i].prev = IF i = 1 THEN GENESIS_HASH ELSE rows[i - 1].hash
             /\ rows[i].hash = hash_of(rows[i].prev, rows[i].payload)
                  <=> rows[i].payload = recorded[i]
  <2>1. i \in 1 .. Len(rows) /\ rows[i].hash = Prefix(recorded, i) /\ rows[i].prev = Prefix(recorded, i - 1)
    BY <1>1 DEF IInv, Chained
  <2>2. Prefix(recorded, i - 1) \in Seq(Payload) /\ Len(Prefix(recorded, i - 1)) = i - 1
    BY <1>1, <2>1 DEF Prefix
  <2>3. rows[i].payload \in Payload /\ recorded[i] \in Payload
    <3>1. rows[i] \in Row
      BY <1>1
    <3>2. recorded[i] \in Payload
      BY <1>1, <2>1
    <3> QED BY <3>1, <3>2 DEF Row
  <2>4. Prefix(recorded, i) = Append(Prefix(recorded, i - 1), recorded[i])
    BY <1>1, <2>1, PrefixFacts
  <2>5. \A p \in Payload : Append(Prefix(recorded, i - 1), p)[i] = p
    BY <2>1, <2>2
  <2>6. rows[i].prev = IF i = 1 THEN GENESIS_HASH ELSE rows[i - 1].hash
    <3>1. CASE i = 1
      BY <3>1, <2>1 DEF Prefix, GENESIS_HASH
    <3>2. CASE i # 1
      <4>1. i - 1 \in 1 .. Len(rows)
        BY <3>2, <2>1, <1>1
      <4>2. rows[i - 1].hash = Prefix(recorded, i - 1)
        BY <4>1 DEF IInv, Chained
      <4> QED BY <3>2, <2>1, <4>2
    <3> QED BY <3>1, <3>2
  <2> QED BY <2>1, <2>3, <2>4, <2>5, <2>6 DEF hash_of
<1>3. query = recorded <=> \A i \in DOMAIN rows : rows[i].payload = recorded[i]
  BY <1>1 DEF query
<1> QED BY <1>2, <1>3 DEF VerdictIsRight, verify_chain

(* Over one connection verify_chain answers true exactly when the table holds
   what was recorded, for any number of tasks, failures and modifications. *)
THEOREM Verdict == OneConnection /\ Spec => []VerdictIsRight
<1> SUFFICES ASSUME OneConnection
             PROVE  Spec => []VerdictIsRight
  OBVIOUS
<1>1. IInv /\ [Next]_vars => IInv'
  BY NextInv
<1> QED BY InitInv, <1>1, VerdictFromChain, PTL DEF Spec
-----------------------------------------------------------------------------
(***************************************************************************)
(* The calls.                                                              *)
(***************************************************************************)
(* A step of a call is a step of the log, or leaves the log alone: the server
   and the client change the log through MakeEntry only. *)
THEOREM StepOfTheLog == McpNext => [Next]_vars
<1> SUFFICES ASSUME McpNext PROVE [Next]_vars OBVIOUS
<1> USE DEF Next, Gate
<1>1. CASE Tamper BY <1>1
<1>2. CASE Answer BY <1>2 DEF Answer
<1>3. CASE disconnect BY <1>3 DEF disconnect
<1>4. CASE approve BY <1>4 DEF approve
<1>5. ASSUME NEW t \in Tasks,
             \/ Begin(t) \/ Check(t) \/ Invoke(t) \/ Send(t) \/ Read(t) \/ Leave(t)
             \/ Connect(t) \/ ReadInitialize(t) \/ ReadTools(t) \/ Return(t) \/ Record(t)
      PROVE  [Next]_vars
  <2>1. CASE Begin(t) BY <2>1 DEF Begin
  <2>2. CASE Check(t) BY <2>2 DEF Check
  <2>3. CASE Invoke(t) BY <2>3 DEF Invoke
  <2>4. CASE Send(t) BY <2>4 DEF Send
  <2>5. CASE Read(t) BY <2>5 DEF Read
  <2>6. CASE Leave(t) BY <2>6 DEF Leave
  <2>7. CASE Connect(t) BY <2>7 DEF Connect
  <2>8. CASE ReadInitialize(t) BY <2>8 DEF ReadInitialize
  <2>9. CASE ReadTools(t) BY <2>9 DEF ReadTools
  <2>10. CASE Return(t) BY <2>10 DEF Return
  <2>11. CASE Record(t) BY <2>11 DEF Record
  <2> QED BY <1>5, <2>1, <2>2, <2>3, <2>4, <2>5, <2>6, <2>7, <2>8, <2>9, <2>10, <2>11
<1> QED BY <1>1, <1>2, <1>3, <1>4, <1>5 DEF McpNext

(* The composition implements the log: its calls use it as any task does. *)
THEOREM ImplementsTheLog == McpSpec => Spec
<1>1. McpInit => Init BY DEF McpInit
<1>2. [McpNext]_mcpVars => [Next]_vars
  <2>1. CASE McpNext BY <2>1, StepOfTheLog
  <2>2. ASSUME UNCHANGED mcpVars PROVE UNCHANGED vars BY <2>2 DEF mcpVars
  <2> QED BY <2>1, <2>2
<1> QED BY <1>1, <1>2, PTL DEF McpSpec, Spec

(* However calls, denials, lost answers, failed records and modifications
   follow one another, the verdict on the log of one process is right. *)
THEOREM VerdictUnderCalls == OneConnection /\ McpSpec => []VerdictIsRight
BY ImplementsTheLog, Verdict, PTL
-----------------------------------------------------------------------------
(* What ties a call to its record: until it makes its entry the log has
   nothing of it, an entry is always of the task that made it, and a record
   that went well is in the log. *)

OwnEntry == \A t \in Tasks : entry[t].subject = t

InLog == \A t \in Tasks : task[t] = "ok" => \E i \in DOMAIN recorded : recorded[i].subject = t

Unrun(t) == call[t].pc \in {"new", "check", "invoke", "send"}

(* What a call's place tells of the gate it has passed, of its tool and of its
   record. *)
CallInv(t) ==
  /\ Unrun(t) \/ call[t].pc \in {"read", "init?", "list?"} => task[t] = "new"
  /\ call[t].pc \in {"check", "invoke", "send", "read"} => call[t].side # "connect"
  /\ call[t].pc \in {"init?", "list?"} => call[t].side = "connect"
  /\ call[t].pc \in {"invoke", "send", "read"} \/ t \in ran => Granted(t)
  /\ Unrun(t) \/ call[t].side = "connect" => t \notin ran
  /\ At(t, "read") => t \in ran
  /\ call[t].pc \in {"record", "answered"} /\ call[t].side # "connect" => (call[t].verdict = "denied" <=> t \notin ran)
  /\ At(t, "answered") /\ call[t].side # "connect" => task[t] = "ok"

GateInv == OwnEntry /\ InLog /\ \A t \in Tasks : CallInv(t)

(* handle_message answers a request in the pipe's type. *)
LEMMA AnswerType == \A r \in Request : handle_message(r) \in Response
BY DEF Request, Response, handle_message

(* Taking an answer leaves a shorter pipe, whose answers were all there. *)
LEMMA TakeFacts ==
  ASSUME responses \in Seq(Response), Take
  PROVE  /\ responses' \in Seq(Response) /\ Len(responses') < Len(responses)
         /\ \A i \in DOMAIN responses' : \E j \in DOMAIN responses : responses'[i] = responses[j]
         /\ Head(responses) \in Response /\ Head(responses) = responses[1] /\ 1 \in DOMAIN responses
<1>1. PICK n \in DOMAIN responses : responses' = SubSeq(responses, n + 1, Len(responses))
  BY DEF Take
<1>2. n \in 1 .. Len(responses) /\ Len(responses) \in Nat
  BY <1>1
<1>3. \A i \in n + 1 .. Len(responses) : responses[i] \in Response
  BY <1>2
<1>4. /\ responses' \in Seq(Response) /\ Len(responses') = Len(responses) - n
      /\ \A i \in 1 .. Len(responses) - n : responses'[i] = responses[i + n]
  BY <1>1, <1>2, <1>3
<1>5. ASSUME NEW i \in DOMAIN responses'
      PROVE  \E j \in DOMAIN responses : responses'[i] = responses[j]
  <2>1. i \in 1 .. Len(responses) - n
    BY <1>4
  <2>2. i + n \in DOMAIN responses
    BY <2>1, <1>2
  <2> QED BY <2>1, <2>2, <1>4
<1> QED BY <1>2, <1>4, <1>5

(* A written request is the last of the pipe. *)
LEMMA WriteFacts ==
  ASSUME requests \in Seq(Request), NEW r \in Request, Write(r)
  PROVE  /\ requests' \in Seq(Request) /\ Len(requests') = Len(requests) + 1
         /\ \A i \in DOMAIN requests' : requests'[i] = r \/ (i \in DOMAIN requests /\ requests'[i] = requests[i])
BY DEF Write

Places == {"new", "check", "invoke", "send", "read", "record", "init?", "list?", "answered", "error", "dropped"}

(* A call that only goes elsewhere changes nothing else. *)
LEMMA GoFacts ==
  ASSUME call \in [Tasks -> Call], NEW t \in Tasks, NEW pc \in Places, Go(t, pc)
  PROVE  /\ call' \in [Tasks -> Call]
         /\ call'[t].pc = pc /\ call'[t].side = call[t].side /\ call'[t].tool = call[t].tool
         /\ call'[t].verdict = call[t].verdict /\ call'[t].got = call[t].got /\ call'[t].alone = call[t].alone
         /\ \A u \in Tasks \ {t} : call'[u] = call[u]
<1>1. [call[t] EXCEPT !.pc = pc] \in Call
  BY DEF Call, Places
<1>2. call' = [call EXCEPT ![t] = [call[t] EXCEPT !.pc = pc]]
  BY DEF Go
<1> QED BY <1>1, <1>2 DEF Call

(* A call that is sent is alone on the pipes if no other waits there for its
   answer and none was left; whoever waits is no longer alone. *)
LEMMA SendFacts ==
  ASSUME call \in [Tasks -> Call], NEW t \in Tasks, Send(t), ~(Go(t, "error") /\ UNCHANGED <<requests, ran>>)
  PROVE  /\ call' \in [Tasks -> Call]
         /\ call'[t].pc = "read" /\ call'[t].side = call[t].side /\ call'[t].tool = call[t].tool
         /\ call'[t].verdict = call[t].verdict /\ call'[t].got = call[t].got
         /\ call'[t].alone => ~dropped /\ \A u \in Tasks \ {t} : ~At(u, "read")
         /\ \A u \in Tasks \ {t} :
              /\ call'[u].pc = call[u].pc /\ call'[u].side = call[u].side /\ call'[u].tool = call[u].tool
              /\ call'[u].verdict = call[u].verdict /\ call'[u].got = call[u].got
              /\ call'[u].alone => call[u].alone /\ ~At(u, "read")
<1> DEFINE others == {u \in Tasks \ {t} : At(u, "read")}
           sent == [call[t] EXCEPT !.pc = "read", !.alone = (others = {} /\ ~dropped)]
<1>1. call' = [u \in Tasks |-> CASE u = t -> sent
                                 [] u \in others -> [call[u] EXCEPT !.alone = FALSE]
                                 [] OTHER -> call[u]]
  BY DEF Send
<1>2. call'[t] = sent
  BY <1>1
<1>3. /\ sent \in Call /\ sent.pc = "read" /\ sent.side = call[t].side /\ sent.tool = call[t].tool
      /\ sent.verdict = call[t].verdict /\ sent.got = call[t].got
      /\ sent.alone = (others = {} /\ ~dropped)
  <2> HIDE DEF others
  <2>1. (others = {} /\ ~dropped) \in BOOLEAN
    OBVIOUS
  <2>2. call[t] \in Call
    OBVIOUS
  <2> QED BY <2>1, <2>2 DEF Call
<1>4. ASSUME NEW u \in Tasks \ {t}
      PROVE  /\ call'[u] \in Call
             /\ call'[u].pc = call[u].pc /\ call'[u].side = call[u].side /\ call'[u].tool = call[u].tool
             /\ call'[u].verdict = call[u].verdict /\ call'[u].got = call[u].got
             /\ call'[u].alone => call[u].alone /\ ~At(u, "read")
  <2>1. call[u] \in Call
    OBVIOUS
  <2>2. CASE u \in others
    <3>1. call'[u] = [call[u] EXCEPT !.alone = FALSE]
      BY <1>1, <2>2
    <3> QED BY <2>1, <3>1 DEF Call
  <2>3. CASE u \notin others
    <3>1. call'[u] = call[u]
      BY <1>1, <2>3
    <3> QED BY <2>1, <2>3, <3>1
  <2> QED BY <2>2, <2>3
<1>5. call' \in [Tasks -> Call]
  <2>1. \A u \in Tasks : call'[u] \in Call
    BY <1>2, <1>3, <1>4
  <2> HIDE DEF others, sent
  <2> QED BY <1>1, <2>1
<1>6. sent.alone => \A u \in Tasks \ {t} : ~At(u, "read")
  BY <1>3
<1> QED BY <1>2, <1>3, <1>4, <1>5, <1>6

LEMMA McpStepType ==
  ASSUME McpTypeOK, McpNext
  PROVE  McpTypeOK'
<1>1. TypeOK'
  BY StepOfTheLog, StepType DEF McpTypeOK
<1>2. /\ grants \subseteq Sides \X Names /\ state \in {"Started", "Stopped"} /\ approved \in BOOLEAN
      /\ call \in [Tasks -> Call]
      /\ requests \in Seq(Request) /\ responses \in Seq(Response)
      /\ ran \subseteq Tasks /\ dropped \in BOOLEAN
  BY DEF McpTypeOK
<1>3. CASE Tamper /\ UNCHANGED mcp
  BY <1>1, <1>2, <1>3 DEF McpTypeOK, mcp
<1>4. CASE Answer
  <2>1. Head(requests) \in Request /\ Tail(requests) \in Seq(Request)
    BY <1>2, <1>4 DEF Answer
  <2>2. responses' \in Seq(Response)
    <3>1. PICK r \in {handle_message(Head(requests))} \cup
                     [of : {Head(requests).of}, id : {Head(requests).id}, body : {"isError", "error"}] :
            responses' = Append(responses, r)
      BY <1>4 DEF Answer
    <3>2. r \in Response
      BY <2>1, <3>1, AnswerType DEF Request, Response
    <3> QED BY <1>2, <3>1, <3>2
  <2> QED BY <1>1, <1>2, <1>4, <2>1, <2>2 DEF McpTypeOK, Answer, Gate
<1>5. CASE disconnect \/ approve
  BY <1>1, <1>2, <1>5 DEF McpTypeOK, disconnect, approve, Gate
<1>6. ASSUME NEW t \in Tasks,
             \/ Begin(t) \/ Check(t) \/ Invoke(t) \/ Send(t) \/ Read(t) \/ Leave(t)
             \/ Connect(t) \/ ReadInitialize(t) \/ ReadTools(t) \/ Return(t) \/ Record(t)
      PROVE  McpTypeOK'
  <2>1. call[t] \in Call
    BY <1>2
  <2>2. ASSUME NEW pc \in Places, Go(t, pc)
        PROVE  call' \in [Tasks -> Call]
    BY <1>2, <2>2, GoFacts
  <2> USE DEF Places
  <2>3. CASE Begin(t)
    <3>1. PICK side \in Sides, n \in Names :
            call' = [call EXCEPT ![t].side = side, ![t].tool = n,
                       ![t].pc = IF side = "client" /\ state # "Started" THEN "error" ELSE "check"]
      BY <2>3 DEF Begin
    <3>2. call' \in [Tasks -> Call]
      BY <1>2, <2>1, <3>1 DEF Call
    <3> QED BY <1>1, <1>2, <2>3, <3>2 DEF McpTypeOK, Begin, Gate
  <2>4. CASE Check(t)
    <3>1. call' \in [Tasks -> Call]
      <4>1. CASE call' = [call EXCEPT ![t].pc = "record", ![t].verdict = "denied"]
        BY <1>2, <2>1, <4>1 DEF Call
      <4> QED BY <2>2, <2>4, <4>1 DEF Check
    <3> QED BY <1>1, <1>2, <2>4, <3>1 DEF McpTypeOK, Check, Gate
  <2>5. CASE Invoke(t)
    <3>1. call' \in [Tasks -> Call]
      <4>1. ASSUME NEW v \in {"ok", "err"}, call' = [call EXCEPT ![t].pc = "record", ![t].verdict = v]
            PROVE  call' \in [Tasks -> Call]
        BY <1>2, <2>1, <4>1 DEF Call
      <4> QED BY <2>2, <2>5, <4>1 DEF Invoke
    <3> QED BY <1>1, <1>2, <2>5, <3>1 DEF McpTypeOK, Invoke, Gate
  <2>6. CASE Send(t)
    <3>1. CASE Go(t, "error") /\ UNCHANGED <<requests, ran>>
      BY <1>1, <1>2, <2>2, <2>6, <3>1 DEF McpTypeOK, Send, Gate
    <3>2. CASE ~(Go(t, "error") /\ UNCHANGED <<requests, ran>>)
      <4>1. call' \in [Tasks -> Call]
        BY <2>6, <3>2, SendFacts, <1>2
      <4>2. requests' \in Seq(Request)
        <5>1. [of |-> t, id |-> 3, method |-> "tools/call", name |-> call[t].tool] \in Request
          BY <2>1 DEF Call, Request
        <5>2. Write([of |-> t, id |-> 3, method |-> "tools/call", name |-> call[t].tool])
          BY <2>6, <3>2 DEF Send
        <5> QED BY <1>2, <5>1, <5>2, WriteFacts
      <4> QED BY <1>1, <1>2, <2>6, <4>1, <4>2 DEF McpTypeOK, Send, Gate
    <3> QED BY <3>1, <3>2
  <2>7. CASE Read(t)
    <3>1. responses' \in Seq(Response) /\ Head(responses).of \in Tasks
      BY <1>2, <2>7, TakeFacts DEF Read, Response
    <3>2. call' \in [Tasks -> Call]
      <4>1. ASSUME NEW v \in {"ok", "err"}, 
                   call' = [call EXCEPT ![t].pc = "record", ![t].got = Head(responses).of, ![t].verdict = v]
            PROVE  call' \in [Tasks -> Call]
        BY <1>2, <2>1, <3>1, <4>1 DEF Call
      <4> QED BY <2>2, <2>7, <4>1 DEF Read
    <3> QED BY <1>1, <1>2, <2>7, <3>1, <3>2 DEF McpTypeOK, Read, Gate
  <2>8. CASE Leave(t)
    BY <1>1, <1>2, <2>2, <2>8 DEF McpTypeOK, Leave, Gate
  <2>9. CASE Connect(t)
    <3>1. call' \in [Tasks -> Call]
      <4>1. ASSUME NEW pc \in Places, call' = [call EXCEPT ![t].side = "connect", ![t].pc = pc]
            PROVE  call' \in [Tasks -> Call]
        BY <1>2, <2>1, <4>1 DEF Call
      <4> QED BY <2>9, <4>1 DEF Connect
    <3>2. requests' \in Seq(Request)
      <4>1. [of |-> t, id |-> 1, method |-> "initialize", name |-> "none"] \in Request
        BY DEF Request
      <4> QED BY <1>2, <2>9, <4>1, WriteFacts DEF Connect
    <3> QED BY <1>1, <1>2, <2>9, <3>1, <3>2 DEF McpTypeOK, Connect, Gate
  <2>10. CASE ReadInitialize(t)
    <3>1. responses' \in Seq(Response)
      BY <1>2, <2>10, TakeFacts DEF ReadInitialize
    <3>2. requests' \in Seq(Request)
      <4>1. [of |-> t, id |-> 2, method |-> "tools/list", name |-> "none"] \in Request
        BY DEF Request
      <4> QED BY <1>2, <2>10, <4>1, WriteFacts DEF ReadInitialize
    <3>3. call' \in [Tasks -> Call]
      BY <2>2, <2>10 DEF ReadInitialize
    <3> QED BY <1>1, <1>2, <2>10, <3>1, <3>2, <3>3 DEF McpTypeOK, ReadInitialize, Gate
  <2>11. CASE ReadTools(t)
    <3>1. responses' \in Seq(Response)
      BY <1>2, <2>11, TakeFacts DEF ReadTools
    <3>2. call' \in [Tasks -> Call]
      BY <2>2, <2>11 DEF ReadTools
    <3> QED BY <1>1, <1>2, <2>11, <3>1, <3>2 DEF McpTypeOK, ReadTools, Gate
  <2>12. CASE Return(t)
    <3>1. call' \in [Tasks -> Call]
      BY <2>2, <2>12 DEF Return
    <3> QED BY <1>1, <1>2, <2>12, <3>1 DEF McpTypeOK, Return, Gate
  <2>13. CASE Record(t)
    BY <1>1, <1>2, <2>13 DEF McpTypeOK, Record, mcp
  <2> QED BY <1>6, <2>3, <2>4, <2>5, <2>6, <2>7, <2>8, <2>9, <2>10, <2>11, <2>12, <2>13
<1> QED BY <1>3, <1>4, <1>5, <1>6 DEF McpNext

(* The pipes, the calls and the grants keep their types, whatever is called,
   lost, refused and connected anew. *)
THEOREM McpTypeCorrect == McpSpec => []McpTypeOK
<1>1. McpInit => McpTypeOK
  <2> SUFFICES ASSUME McpInit PROVE McpTypeOK
    OBVIOUS
  <2>1. TypeOK
    BY TamperAssumption DEF McpInit, Init, TypeOK, Payload, GENESIS_HASH
  <2>2. call \in [Tasks -> Call]
    BY DEF McpInit, Call
  <2>3. grants \subseteq Sides \X Names
    <3>1. grants \in GrantSets
      BY DEF McpInit
    <3> QED BY <3>1, GrantAssumption
  <2>4. <<>> \in Seq(Request) /\ <<>> \in Seq(Response)
    OBVIOUS
  <2> QED BY <2>1, <2>2, <2>3, <2>4 DEF McpInit, McpTypeOK
<1>2. McpTypeOK /\ [McpNext]_mcpVars => McpTypeOK'
  <2> SUFFICES ASSUME McpTypeOK, [McpNext]_mcpVars PROVE McpTypeOK'
    OBVIOUS
  <2>1. CASE McpNext
    BY <2>1, McpStepType
  <2>2. CASE UNCHANGED mcpVars
    BY <2>2 DEF mcpVars, mcp, vars, McpTypeOK, TypeOK
  <2> QED BY <2>1, <2>2
<1> QED BY <1>1, <1>2, PTL DEF McpSpec

(* The log's own part: entries keep their task, and what is in the log stays
   there. *)
LEMMA LogKeeps ==
  ASSUME TypeOK, OwnEntry, InLog, [Next]_vars
  PROVE  OwnEntry' /\ InLog'
<1>1. CASE UNCHANGED vars
  BY <1>1 DEF vars, OwnEntry, InLog
<1>2. CASE Tamper
  BY <1>2 DEF Tamper, OwnEntry, InLog
<1>3. ASSUME NEW t \in Tasks, MakeEntry(t)
      PROVE  OwnEntry' /\ InLog'
  <2>1. entry' = [entry EXCEPT ![t] = [entry[t] EXCEPT !.time = now]] /\ entry[t] \in Payload
    BY <1>3 DEF MakeEntry, TypeOK
  <2>2. OwnEntry'
    BY <2>1 DEF OwnEntry, TypeOK, Payload
  <2>3. InLog'
    BY <1>3 DEF MakeEntry, InLog, TypeOK
  <2> QED BY <2>2, <2>3
<1>4. ASSUME NEW t \in Tasks, SelectLast(t) \/ Fail(t)
      PROVE  OwnEntry' /\ InLog'
  BY <1>4 DEF SelectLast, Fail, OwnEntry, InLog, TypeOK
<1>5. ASSUME NEW t \in Tasks, Insert(t)
      PROVE  OwnEntry' /\ InLog'
  <2>1. recorded \in Seq(Payload) /\ entry[t] \in Payload /\ recorded' = Append(recorded, entry[t])
    BY <1>5 DEF Insert, TypeOK
  <2>2. /\ Len(recorded) + 1 \in DOMAIN recorded' /\ recorded'[Len(recorded) + 1] = entry[t]
        /\ \A i \in DOMAIN recorded : i \in DOMAIN recorded' /\ recorded'[i] = recorded[i]
    BY <2>1
  <2>3. OwnEntry'
    BY <1>5 DEF Insert, OwnEntry
  <2>4. ASSUME NEW u \in Tasks, task'[u] = "ok"
        PROVE  \E i \in DOMAIN recorded' : recorded'[i].subject = u
    <3>1. CASE u = t
      BY <2>2, <3>1 DEF OwnEntry
    <3>2. CASE u # t
      <4>1. task[u] = "ok"
        BY <1>5, <2>4, <3>2 DEF Insert, TypeOK
      <4>2. PICK i \in DOMAIN recorded : recorded[i].subject = u
        BY <4>1 DEF InLog
      <4> QED BY <2>2, <4>2
    <3> QED BY <3>1, <3>2
  <2> QED BY <2>3, <2>4 DEF InLog
<1> QED BY <1>1, <1>2, <1>3, <1>4, <1>5 DEF Next

(* What is known of a call stays so while nothing of it changes. *)
LEMMA Untouched ==
  ASSUME NEW u \in Tasks, CallInv(u), UNCHANGED grants, task'[u] = task[u], u \in ran' <=> u \in ran,
         call'[u].pc = call[u].pc, call'[u].side = call[u].side, call'[u].tool = call[u].tool,
         call'[u].verdict = call[u].verdict
  PROVE  CallInv(u)'
BY DEF CallInv, Unrun, At, Granted

LEMMA MakeEntryFacts ==
  ASSUME TypeOK, NEW t \in Tasks, MakeEntry(t)
  PROVE  task'[t] = "made" /\ \A u \in Tasks \ {t} : task'[u] = task[u]
BY DEF MakeEntry, TypeOK

LEMMA CallKeeps ==
  ASSUME McpTypeOK, \A u \in Tasks : CallInv(u), NEW t \in Tasks,
         \/ Begin(t) \/ Check(t) \/ Invoke(t) \/ Send(t) \/ Read(t) \/ Leave(t)
         \/ Connect(t) \/ ReadInitialize(t) \/ ReadTools(t) \/ Return(t) \/ Record(t)
  PROVE  \A u \in Tasks : CallInv(u)'
<1>1. call \in [Tasks -> Call] /\ call[t] \in Call /\ TypeOK /\ CallInv(t) /\ ran \subseteq Tasks
  BY DEF McpTypeOK
<1>2. UNCHANGED grants
  BY DEF Begin, Check, Invoke, Send, Read, Leave, Connect, ReadInitialize, ReadTools, Return, Record, Gate, mcp
<1>3. ASSUME CallInv(t)',
             \A u \in Tasks \ {t} :
               /\ task'[u] = task[u] /\ (u \in ran' <=> u \in ran)
               /\ call'[u].pc = call[u].pc /\ call'[u].side = call[u].side /\ call'[u].tool = call[u].tool
               /\ call'[u].verdict = call[u].verdict
      PROVE  \A u \in Tasks : CallInv(u)'
  <2>1. ASSUME NEW u \in Tasks \ {t} PROVE CallInv(u)'
    BY <1>2, <1>3, <2>1, Untouched
  <2> QED BY <1>3, <2>1
<1>4. ASSUME NEW pc \in Places, Go(t, pc)
      PROVE  /\ call'[t].pc = pc /\ call'[t].side = call[t].side /\ call'[t].tool = call[t].tool
             /\ call'[t].verdict = call[t].verdict
             /\ \A u \in Tasks \ {t} : call'[u] = call[u]
  BY <1>1, <1>4, GoFacts
<1>5. ASSUME UNCHANGED vars PROVE UNCHANGED task
  BY <1>5 DEF vars
<1> USE DEF Places
<1>6. CASE Begin(t)
  <2>1. PICK side \in Sides, n \in Names :
          call' = [call EXCEPT ![t].side = side, ![t].tool = n,
                     ![t].pc = IF side = "client" /\ state # "Started" THEN "error" ELSE "check"]
    BY <1>6 DEF Begin
  <2>2. /\ call'[t].side = side /\ call'[t].pc \in {"error", "check"}
        /\ call'[t].verdict = call[t].verdict
        /\ \A u \in Tasks \ {t} : call'[u] = call[u]
    BY <1>1, <2>1 DEF Call
  <2>3. At(t, "new") /\ UNCHANGED <<task, ran>>
    BY <1>5, <1>6 DEF Begin
  <2>4. CallInv(t)'
    BY <1>1, <2>2, <2>3 DEF CallInv, Unrun, At, Granted, Sides
  <2> QED BY <1>3, <2>2, <2>3, <2>4
<1>7. CASE Check(t)
  <2>1. CASE Granted(t)
    <3>1. PICK pc \in {"invoke", "send"} : Go(t, pc)
      BY <1>7, <2>1 DEF Check
    <3>2. At(t, "check") /\ UNCHANGED <<task, ran>>
      BY <1>5, <1>7, <2>1 DEF Check
    <3>3. CallInv(t)'
      BY <1>1, <1>2, <1>4, <2>1, <3>1, <3>2 DEF CallInv, Unrun, At, Granted
    <3> QED BY <1>3, <1>4, <3>1, <3>2, <3>3
  <2>2. CASE ~Granted(t)
    <3>1. /\ call'[t].pc = "record" /\ call'[t].verdict = "denied" /\ call'[t].side = call[t].side
          /\ \A u \in Tasks \ {t} : call'[u] = call[u]
      BY <1>1, <1>7, <2>2 DEF Check, Call
    <3>2. At(t, "check") /\ UNCHANGED ran /\ task'[t] = "made" /\ \A u \in Tasks \ {t} : task'[u] = task[u]
      BY <1>1, <1>7, <2>2, MakeEntryFacts DEF Check
    <3>3. CallInv(t)'
      BY <1>1, <3>1, <3>2 DEF CallInv, Unrun, At
    <3> QED BY <1>3, <3>1, <3>2, <3>3
  <2> QED BY <2>1, <2>2
<1>8. CASE Invoke(t)
  <2>1. At(t, "invoke")
    BY <1>8 DEF Invoke
  <2>2. CASE Go(t, "error") /\ UNCHANGED vars
    <3>1. \A u \in Tasks \ {t} : u \in ran' <=> u \in ran
      BY <1>8 DEF Invoke
    <3>2. CallInv(t)'
      BY <1>1, <1>2, <1>4, <1>5, <2>1, <2>2 DEF CallInv, Unrun, At, Granted
    <3> QED BY <1>3, <1>4, <1>5, <2>2, <3>1, <3>2
  <2>3. ASSUME NEW v \in {"ok", "err"}, MakeEntry(t), ran' = ran \cup {t},
               call' = [call EXCEPT ![t].pc = "record", ![t].verdict = v]
        PROVE  \A u \in Tasks : CallInv(u)'
    <3>1. /\ call'[t].pc = "record" /\ call'[t].verdict = v /\ call'[t].side = call[t].side /\ call'[t].tool = call[t].tool
          /\ \A u \in Tasks \ {t} : call'[u] = call[u]
      BY <1>1, <2>3 DEF Call
    <3>2. task'[t] = "made" /\ \A u \in Tasks \ {t} : task'[u] = task[u]
      BY <1>1, <2>3, MakeEntryFacts
    <3>3. CallInv(t)'
      BY <1>1, <1>2, <2>1, <2>3, <3>1, <3>2 DEF CallInv, Unrun, At, Granted
    <3> QED BY <1>3, <2>3, <3>1, <3>2, <3>3
  <2> QED BY <1>8, <2>2, <2>3 DEF Invoke
<1>9. CASE Send(t)
  <2>1. At(t, "send") /\ UNCHANGED task
    BY <1>5, <1>9 DEF Send
  <2>2. CASE Go(t, "error") /\ UNCHANGED <<requests, ran>>
    <3>1. CallInv(t)'
      BY <1>1, <1>2, <1>4, <2>1, <2>2 DEF CallInv, Unrun, At, Granted
    <3> QED BY <1>3, <1>4, <2>1, <2>2, <3>1
  <2>3. CASE ~(Go(t, "error") /\ UNCHANGED <<requests, ran>>)
    <3>1. ran' = ran \cup {t}
      BY <1>9, <2>3 DEF Send
    <3>2. CallInv(t)'
      BY <1>1, <1>2, <1>9, <2>1, <2>3, <3>1, SendFacts DEF CallInv, Unrun, At, Granted
    <3> QED BY <1>1, <1>3, <1>9, <2>1, <2>3, <3>1, <3>2, SendFacts
  <2> QED BY <2>2, <2>3
<1>10. CASE Read(t)
  <2>1. At(t, "read") /\ UNCHANGED ran
    BY <1>10 DEF Read
  <2>2. CASE Go(t, "error") /\ UNCHANGED vars
    <3>1. CallInv(t)'
      BY <1>1, <1>2, <1>4, <1>5, <2>1, <2>2 DEF CallInv, Unrun, At, Granted
    <3> QED BY <1>3, <1>4, <1>5, <2>1, <2>2, <3>1
  <2>3. ASSUME NEW v \in {"ok", "err"}, MakeEntry(t),
               call' = [call EXCEPT ![t].pc = "record", ![t].got = Head(responses).of, ![t].verdict = v]
        PROVE  \A u \in Tasks : CallInv(u)'
    <3>1. /\ call'[t].pc = "record" /\ call'[t].verdict = v /\ call'[t].side = call[t].side /\ call'[t].tool = call[t].tool
          /\ \A u \in Tasks \ {t} : call'[u] = call[u]
      BY <1>1, <2>3 DEF Call
    <3>2. task'[t] = "made" /\ \A u \in Tasks \ {t} : task'[u] = task[u]
      BY <1>1, <2>3, MakeEntryFacts
    <3>3. CallInv(t)'
      BY <1>1, <1>2, <2>1, <3>1, <3>2 DEF CallInv, Unrun, At, Granted
    <3> QED BY <1>3, <2>1, <3>1, <3>2, <3>3
  <2> QED BY <1>10, <2>2, <2>3 DEF Read
<1>11. CASE Leave(t)
  <2>1. call[t].pc \in {"read", "init?", "list?"} /\ Go(t, "dropped") /\ UNCHANGED <<task, ran>>
    BY <1>5, <1>11 DEF Leave
  <2>2. CallInv(t)'
    BY <1>1, <1>2, <1>4, <2>1 DEF CallInv, Unrun, At, Granted
  <2> QED BY <1>3, <1>4, <2>1, <2>2
<1>12. CASE Connect(t)
  <2>1. PICK pc \in {"error", "init?"} : call' = [call EXCEPT ![t].side = "connect", ![t].pc = pc]
    BY <1>12 DEF Connect
  <2>2. /\ call'[t].side = "connect" /\ call'[t].pc = pc
        /\ \A u \in Tasks \ {t} : call'[u] = call[u]
    BY <1>1, <2>1 DEF Call
  <2>3. At(t, "new") /\ UNCHANGED <<task, ran>>
    BY <1>5, <1>12 DEF Connect
  <2>4. CallInv(t)'
    BY <1>1, <2>2, <2>3 DEF CallInv, Unrun, At, Granted
  <2> QED BY <1>3, <2>2, <2>3, <2>4
<1>13. CASE ReadInitialize(t)
  <2>1. At(t, "init?") /\ UNCHANGED <<task, ran>>
    BY <1>5, <1>13 DEF ReadInitialize
  <2>2. PICK pc \in {"error", "list?"} : Go(t, pc)
    BY <1>13 DEF ReadInitialize
  <2>3. CallInv(t)'
    BY <1>1, <1>2, <1>4, <2>1, <2>2 DEF CallInv, Unrun, At, Granted
  <2> QED BY <1>3, <1>4, <2>1, <2>2, <2>3
<1>14. CASE ReadTools(t)
  <2>1. At(t, "list?") /\ UNCHANGED ran
    BY <1>14 DEF ReadTools
  <2>2. CASE UNCHANGED vars /\ (Go(t, "error") \/ Go(t, "answered"))
    <3>1. PICK pc \in {"error", "answered"} : Go(t, pc)
      BY <2>2
    <3>2. CallInv(t)'
      BY <1>1, <1>2, <1>4, <1>5, <2>1, <2>2, <3>1 DEF CallInv, Unrun, At, Granted
    <3> QED BY <1>3, <1>4, <1>5, <2>1, <2>2, <3>1, <3>2
  <2>3. CASE MakeEntry(t) /\ Go(t, "record")
    <3>1. task'[t] = "made" /\ \A u \in Tasks \ {t} : task'[u] = task[u]
      BY <1>1, <2>3, MakeEntryFacts
    <3>2. CallInv(t)'
      BY <1>1, <1>2, <1>4, <2>1, <2>3, <3>1 DEF CallInv, Unrun, At, Granted
    <3> QED BY <1>3, <1>4, <2>1, <2>3, <3>1, <3>2
  <2> QED BY <1>14, <2>2, <2>3 DEF ReadTools
<1>15. CASE Return(t)
  <2>1. At(t, "record") /\ task[t] \in {"ok", "failed"} /\ UNCHANGED <<task, ran>>
    BY <1>5, <1>15 DEF Return
  <2>2. PICK pc \in {"answered", "error"} : Go(t, pc) /\ (pc = "answered" => task[t] = "ok")
    BY <1>15 DEF Return
  <2>3. CallInv(t)'
    BY <1>1, <1>2, <1>4, <2>1, <2>2 DEF CallInv, Unrun, At, Granted
  <2> QED BY <1>3, <1>4, <2>1, <2>2, <2>3
<1>16. CASE Record(t)
  <2>1. /\ UNCHANGED <<call, ran>> /\ task[t] \in {"made", "read"}
        /\ \A u \in Tasks \ {t} : task'[u] = task[u]
    BY <1>1, <1>16 DEF Record, mcp, SelectLast, Insert, Fail, TypeOK
  <2>2. CallInv(t)'
    BY <1>1, <1>2, <2>1 DEF CallInv, Unrun, At, Granted
  <2> QED BY <1>3, <2>1, <2>2
<1> QED BY <1>6, <1>7, <1>8, <1>9, <1>10, <1>11, <1>12, <1>13, <1>14, <1>15, <1>16

LEMMA GateHolds == McpSpec => []GateInv
<1>1. McpInit => GateInv
  BY DEF McpInit, Init, GateInv, OwnEntry, InLog, CallInv, Unrun, At
<1>2. McpTypeOK /\ GateInv /\ [McpNext]_mcpVars => GateInv'
  <2> SUFFICES ASSUME McpTypeOK, GateInv, [McpNext]_mcpVars PROVE GateInv'
    OBVIOUS
  <2>1. OwnEntry' /\ InLog'
    <3>1. [Next]_vars
      BY StepOfTheLog DEF mcpVars
    <3> QED BY <3>1, LogKeeps DEF GateInv, McpTypeOK
  <2>2. \A u \in Tasks : CallInv(u)'
    <3>1. CASE UNCHANGED <<call, ran, grants, task>>
      BY <3>1 DEF GateInv, CallInv, Unrun, At, Granted
    <3>2. CASE UNCHANGED mcpVars \/ (Tamper /\ UNCHANGED mcp) \/ Answer \/ disconnect \/ approve
      BY <3>1, <3>2 DEF mcpVars, mcp, vars, Tamper, Answer, disconnect, approve, Gate
    <3>3. ASSUME NEW t \in Tasks,
                 \/ Begin(t) \/ Check(t) \/ Invoke(t) \/ Send(t) \/ Read(t) \/ Leave(t)
                 \/ Connect(t) \/ ReadInitialize(t) \/ ReadTools(t) \/ Return(t) \/ Record(t)
          PROVE  \A u \in Tasks : CallInv(u)'
      BY <3>3, CallKeeps DEF GateInv
    <3> QED BY <3>2, <3>3 DEF McpNext
  <2> QED BY <2>1, <2>2 DEF GateInv
<1> QED BY <1>1, <1>2, McpTypeCorrect, PTL DEF McpSpec

(* Whatever is granted and whoever calls, on whichever side, a tool runs only
   where it is granted, and what is answered is in the log as it was. *)
THEOREM Gated == McpSpec => []GatedAndAudited
<1>1. McpTypeOK /\ GateInv => GatedAndAudited
  BY DEF McpTypeOK, GateInv, InLog, CallInv, GatedAndAudited, At
<1> QED BY <1>1, McpTypeCorrect, GateHolds, PTL
-----------------------------------------------------------------------------
(* Whose answer comes next.  While nothing was left in the pipes there is at
   most one request or answer in them for everyone who waits (NothingLeft), so
   whoever sends when nobody waits sends into empty pipes, and all that is in
   them is its own until another call is sent (Own). *)

Waiting == {t \in Tasks : call[t].pc \in {"read", "init?", "list?"}}

Exclusive == \A t, u \in Busy : call[t].side = "connect" => u = t

NothingLeft == ~dropped => Len(requests) + Len(responses) <= Cardinality(Waiting)

OnlyOf(t) ==
  /\ \A i \in DOMAIN requests : requests[i].of = t
  /\ \A i \in DOMAIN responses : responses[i].of = t

Own(t) ==
  /\ Unrun(t) \/ At(t, "read") => call[t].got = "none"
  /\ call[t].pc \in {"send", "read"} => call[t].side # "server"
  /\ At(t, "read") /\ call[t].alone => OnlyOf(t) /\ \A u \in Waiting : u = t
  /\ call[t].alone /\ call[t].got # "none" => call[t].got = t

PipeInv == IsFiniteSet(Waiting) /\ Exclusive /\ NothingLeft /\ \A t \in Tasks : Own(t)

(* The other calls go on as they were, at most no longer alone. *)
Spares(t) ==
  \A u \in Tasks \ {t} :
    /\ call'[u].pc = call[u].pc /\ call'[u].side = call[u].side /\ call'[u].got = call[u].got
    /\ call'[u].alone => call[u].alone

Keeps(t) == call'[t].side = call[t].side /\ call'[t].got = call[t].got /\ call'[t].alone = call[t].alone

LEMMA PipesAreNat ==
  ASSUME McpTypeOK
  PROVE  Len(requests) \in Nat /\ Len(responses) \in Nat
BY DEF McpTypeOK

(* A call that waits neither before nor after, and leaves the pipes alone. *)
LEMMA AwayFromPipes ==
  ASSUME PipeInv, NEW t \in Tasks, Spares(t), t \notin Waiting, t \notin Waiting', Own(t)',
         UNCHANGED <<requests, responses, dropped>>
  PROVE  IsFiniteSet(Waiting') /\ NothingLeft' /\ \A u \in Tasks : Own(u)'
<1>1. Waiting' = Waiting
  BY DEF Waiting, Spares
<1>2. IsFiniteSet(Waiting') /\ NothingLeft'
  BY <1>1 DEF PipeInv, NothingLeft
<1>3. ASSUME NEW u \in Tasks \ {t} PROVE Own(u)'
  BY <1>1 DEF PipeInv, Own, Spares, Unrun, At, OnlyOf
<1> QED BY <1>2, <1>3

(* A call that stops waiting, having taken answers or left its own. *)
LEMMA OutOfPipes ==
  ASSUME PipeInv, McpTypeOK, NEW t \in Waiting, Spares(t), t \notin Waiting', Own(t)',
         UNCHANGED requests,
         \/ Take /\ UNCHANGED dropped
         \/ UNCHANGED responses /\ dropped' = TRUE
  PROVE  IsFiniteSet(Waiting') /\ NothingLeft' /\ \A u \in Tasks : Own(u)'
<1>1. Waiting' = Waiting \ {t} /\ t \in Tasks
  BY DEF Waiting, Spares
<1>2. IsFiniteSet(Waiting') /\ Cardinality(Waiting') = Cardinality(Waiting) - 1 /\ Cardinality(Waiting) \in Nat
  BY <1>1, FS_RemoveElement, FS_CardinalityType DEF PipeInv
<1>3. NothingLeft'
  <2>1. CASE dropped' = TRUE
    BY <2>1 DEF NothingLeft
  <2>2. CASE Take /\ UNCHANGED dropped
    <3>1. Len(responses') < Len(responses) /\ Len(responses') \in Nat /\ Len(responses) \in Nat /\ Len(requests) \in Nat
      BY <2>2, TakeFacts DEF McpTypeOK
    <3> QED BY <1>2, <2>2, <3>1 DEF NothingLeft, PipeInv
  <2> QED BY <2>1, <2>2
<1>4. ASSUME NEW u \in Tasks \ {t} PROVE Own(u)'
  <2>1. ~(At(u, "read") /\ call[u].alone)
    BY <1>4 DEF PipeInv, Own
  <2> QED BY <2>1 DEF PipeInv, Own, Spares, Unrun, At
<1> QED BY <1>2, <1>3, <1>4

(* A call that starts to wait, having written its request. *)
LEMMA IntoPipes ==
  ASSUME PipeInv, McpTypeOK, NEW t \in Tasks \ Waiting, Spares(t), t \in Waiting',
         NEW r \in Request, Write(r), UNCHANGED <<responses, dropped>>,
         Own(t)', \A u \in Tasks \ {t} : At(u, "read") => ~call'[u].alone
  PROVE  IsFiniteSet(Waiting') /\ NothingLeft' /\ \A u \in Tasks : Own(u)'
<1>1. Waiting' = Waiting \cup {t}
  BY DEF Waiting, Spares
<1>2. IsFiniteSet(Waiting') /\ Cardinality(Waiting') = Cardinality(Waiting) + 1 /\ Cardinality(Waiting) \in Nat
  BY <1>1, FS_AddElement, FS_CardinalityType DEF PipeInv
<1>3. Len(requests') = Len(requests) + 1 /\ Len(requests) \in Nat /\ Len(responses) \in Nat
  BY WriteFacts, PipesAreNat DEF McpTypeOK
<1>4. NothingLeft'
  BY <1>2, <1>3 DEF NothingLeft, PipeInv
<1>5. ASSUME NEW u \in Tasks \ {t} PROVE Own(u)'
  BY <1>5 DEF PipeInv, Own, Spares, Unrun, At
<1> QED BY <1>2, <1>4, <1>5

(* The other server's answer is to the oldest request. *)
LEMMA AnswerKeeps ==
  ASSUME McpTypeOK, PipeInv, Answer
  PROVE  PipeInv'
<1>1. requests \in Seq(Request) /\ responses \in Seq(Response) /\ requests # <<>>
  BY DEF McpTypeOK, Answer
<1>2. PICK r : responses' = Append(responses, r) /\ r.of = Head(requests).of
  BY DEF Answer, handle_message
<1>3. UNCHANGED <<call, dropped>> /\ requests' = Tail(requests)
  BY DEF Answer
<1>4. /\ Len(requests') + 1 = Len(requests) /\ Len(responses') = Len(responses) + 1
      /\ Len(requests) \in Nat /\ Len(responses) \in Nat /\ Len(requests') \in Nat
  BY <1>1, <1>2, <1>3
<1>5. ASSUME NEW t, OnlyOf(t) PROVE OnlyOf(t)'
  <2>1. Head(requests) = requests[1] /\ 1 \in DOMAIN requests
    BY <1>1
  <2>2. \A i \in DOMAIN requests' : i + 1 \in DOMAIN requests /\ requests'[i] = requests[i + 1]
    BY <1>1, <1>3
  <2>3. \A i \in DOMAIN responses' :
          \/ i \in DOMAIN responses /\ responses'[i] = responses[i]
          \/ responses'[i] = r
    BY <1>1, <1>2
  <2> QED BY <1>2, <1>5, <2>1, <2>2, <2>3 DEF OnlyOf
<1>6. Waiting' = Waiting /\ Busy' = Busy
  BY <1>3 DEF Waiting, Busy
<1>7. NothingLeft'
  <2>1. Cardinality(Waiting) \in Nat
    BY FS_CardinalityType DEF PipeInv
  <2>2. Len(requests') + Len(responses') = Len(requests) + Len(responses)
    BY <1>4
  <2>3. Cardinality(Waiting') = Cardinality(Waiting) /\ dropped' = dropped
    BY <1>3, <1>6
  <2> QED BY <2>2, <2>3 DEF PipeInv, NothingLeft
<1>8. \A t \in Tasks : Own(t)'
  BY <1>3, <1>5, <1>6 DEF PipeInv, Own, Unrun, At
<1>9. Exclusive'
  BY <1>3, <1>6 DEF PipeInv, Exclusive
<1> QED BY <1>6, <1>7, <1>8, <1>9 DEF PipeInv

(* A call that goes on as what it is keeps the client as exclusive as it was. *)
LEMMA ExclusiveKeeps ==
  ASSUME Exclusive, NEW t \in Tasks, Spares(t), call'[t].side = call[t].side, t \in Busy' => t \in Busy
  PROVE  Exclusive'
BY DEF Exclusive, Busy, Spares

LEMMA PipeKeeps ==
  ASSUME McpTypeOK, PipeInv, \A u \in Tasks : CallInv(u), NEW t \in Tasks,
         \/ Begin(t) \/ Check(t) \/ Invoke(t) \/ Send(t) \/ Read(t) \/ Leave(t)
         \/ Connect(t) \/ ReadInitialize(t) \/ ReadTools(t) \/ Return(t) \/ Record(t)
  PROVE  PipeInv'
<1>1. /\ call \in [Tasks -> Call] /\ call[t] \in Call /\ Own(t) /\ CallInv(t) /\ Exclusive
      /\ requests \in Seq(Request) /\ responses \in Seq(Response)
  BY DEF McpTypeOK, PipeInv
<1>2. ASSUME NEW pc \in Places, Go(t, pc)
      PROVE  Spares(t) /\ Keeps(t) /\ call'[t].pc = pc
  BY <1>1, <1>2, GoFacts DEF Spares, Keeps
<1> USE DEF Places
(* A call that is not at the pipes, and does not come there. *)
<1>3. ASSUME Spares(t), call'[t].got = call[t].got, call'[t].alone = call[t].alone, Exclusive',
             call[t].pc \notin {"read", "init?", "list?"},
             call'[t].pc \notin {"read", "init?", "list?"},
             Unrun(t)' => Unrun(t),
             call'[t].pc = "send" => call'[t].side # "server",
             UNCHANGED <<requests, responses, dropped>>
      PROVE  PipeInv'
  <2>1. Own(t)' /\ t \notin Waiting /\ t \notin Waiting'
    BY <1>1, <1>3 DEF Own, Waiting, At, Unrun
  <2> QED BY <1>3, <2>1, AwayFromPipes DEF PipeInv
(* One that leaves them. *)
<1>4. ASSUME Spares(t), call'[t].side = call[t].side, t \in Waiting,
             call'[t].pc \in {"record", "error", "dropped", "answered"},
             call'[t].alone = call[t].alone,
             call'[t].got = call[t].got \/ (call[t].alone => call'[t].got = t),
             UNCHANGED requests,
             \/ Take /\ UNCHANGED dropped
             \/ UNCHANGED responses /\ dropped' = TRUE
      PROVE  PipeInv'
  <2>1. Own(t)' /\ t \notin Waiting'
    BY <1>1, <1>4 DEF Own, Waiting, At, Unrun
  <2>2. t \in Busy
    BY <1>1, <1>4 DEF Busy, Waiting, Own, CallInv, At
  <2>3. Exclusive'
    BY <1>1, <1>4, <2>2, ExclusiveKeeps
  <2> QED BY <1>4, <2>1, <2>3, OutOfPipes DEF PipeInv
<1>5. CASE Begin(t)
  <2>1. PICK side \in Sides, n \in Names :
          /\ side = "client" => ~Connecting
          /\ call' = [call EXCEPT ![t].side = side, ![t].tool = n,
                        ![t].pc = IF side = "client" /\ state # "Started" THEN "error" ELSE "check"]
    BY <1>5 DEF Begin
  <2>2. /\ call'[t].side = side /\ call'[t].pc \in {"error", "check"}
        /\ call'[t].got = call[t].got /\ call'[t].alone = call[t].alone /\ Spares(t)
    BY <1>1, <2>1 DEF Call, Spares
  <2>3. At(t, "new") /\ UNCHANGED <<requests, responses, dropped>>
    BY <1>5 DEF Begin
  <2>4. Exclusive'
    BY <1>1, <2>1, <2>2, <2>3 DEF Exclusive, Busy, Connecting, Sides, Spares, At
  <2> QED BY <1>3, <2>2, <2>3, <2>4 DEF At, Unrun
<1>6. CASE Check(t)
  <2>1. At(t, "check") /\ UNCHANGED <<requests, responses, dropped>>
    BY <1>6 DEF Check
  <2>2. /\ Spares(t) /\ Keeps(t) /\ call'[t].pc \in {"invoke", "send", "record"}
        /\ call'[t].pc = "send" => call[t].side # "server"
    <3>1. CASE Granted(t)
      <4>1. PICK pc \in {"invoke", "send"} : Go(t, pc) /\ (pc = "send" => call[t].side # "server")
        BY <1>6, <3>1 DEF Check
      <4> QED BY <1>2, <4>1
    <3>2. CASE ~Granted(t)
      <4>1. call' = [call EXCEPT ![t].pc = "record", ![t].verdict = "denied"]
        BY <1>6, <3>2 DEF Check
      <4> QED BY <1>1, <4>1 DEF Call, Spares, Keeps
    <3> QED BY <3>1, <3>2
  <2>3. Exclusive'
    BY <1>1, <2>1, <2>2, ExclusiveKeeps DEF Keeps, Busy, At
  <2> QED BY <1>3, <2>1, <2>2, <2>3 DEF At, Unrun, Keeps
<1>7. CASE Invoke(t)
  <2>1. At(t, "invoke") /\ UNCHANGED <<requests, responses, dropped>>
    BY <1>7 DEF Invoke
  <2>2. Spares(t) /\ Keeps(t) /\ call'[t].pc \in {"error", "record"}
    <3>1. ASSUME NEW v \in {"ok", "err"}, call' = [call EXCEPT ![t].pc = "record", ![t].verdict = v]
          PROVE  Spares(t) /\ Keeps(t) /\ call'[t].pc = "record"
      BY <1>1, <3>1 DEF Call, Spares, Keeps
    <3> QED BY <1>2, <1>7, <3>1 DEF Invoke
  <2>3. Exclusive'
    BY <1>1, <2>1, <2>2, ExclusiveKeeps DEF Keeps, Busy, At
  <2> QED BY <1>3, <2>1, <2>2, <2>3 DEF At, Unrun, Keeps
<1>8. CASE Send(t)
  <2>1. At(t, "send") /\ UNCHANGED <<responses, dropped>>
    BY <1>8 DEF Send
  <2>2. CASE Go(t, "error") /\ UNCHANGED <<requests, ran>>
    <3>1. Spares(t) /\ Keeps(t) /\ call'[t].pc = "error"
      BY <1>2, <2>2
    <3>2. Exclusive'
      BY <1>1, <2>1, <3>1, ExclusiveKeeps DEF Keeps, Busy, At
    <3> QED BY <1>3, <2>1, <2>2, <3>1, <3>2 DEF At, Unrun, Keeps
  <2>3. CASE ~(Go(t, "error") /\ UNCHANGED <<requests, ran>>)
    <3> DEFINE r == [of |-> t, id |-> 3, method |-> "tools/call", name |-> call[t].tool]
    <3>1. r \in Request /\ Write(r)
      <4>1. r \in Request
        BY <1>1 DEF Call, Request
      <4> QED BY <1>8, <2>3, <4>1 DEF Send
    <3>2. r.of = t
      OBVIOUS
    <3> HIDE DEF r
    <3>3. /\ Spares(t) /\ call'[t].side = call[t].side /\ call'[t].got = call[t].got /\ call'[t].pc = "read"
          /\ call'[t].alone => ~dropped /\ \A u \in Tasks \ {t} : ~At(u, "read")
          /\ \A u \in Tasks \ {t} : call'[u].alone => ~At(u, "read")
      BY <1>1, <1>8, <2>3, SendFacts DEF Spares
    <3>4. t \in Busy /\ call[t].side # "connect" /\ call[t].side # "server" /\ t \notin Waiting /\ t \in Waiting'
      BY <1>1, <2>1, <3>3 DEF Busy, Own, CallInv, At, Waiting
    <3>5. Exclusive'
      BY <1>1, <3>3, <3>4, ExclusiveKeeps
    (* If it is alone nobody waits, so there is nothing in the pipes. *)
    <3>6. ASSUME call'[t].alone
          PROVE  OnlyOf(t)' /\ \A u \in Waiting' : u = t
      <4>1. ASSUME NEW u \in Waiting PROVE FALSE
        <5>1. u \in Tasks \ {t} /\ ~At(u, "read")
          BY <3>3, <3>4, <3>6, <4>1 DEF Waiting
        <5>2. call[u].side = "connect" /\ u \in Busy
          BY <4>1, <5>1 DEF Waiting, At, CallInv, Busy
        <5> QED BY <1>1, <3>4, <5>1, <5>2 DEF Exclusive
      <4>2. Waiting = {}
        BY <4>1
      <4>3. Len(requests) + Len(responses) <= 0
        BY <3>3, <3>6, <4>2, FS_EmptySet DEF PipeInv, NothingLeft
      <4>4. requests = <<>> /\ responses = <<>>
        BY <1>1, <4>3, PipesAreNat, EmptySeq
      <4>5. OnlyOf(t)'
        BY <1>1, <2>1, <3>1, <3>2, <4>4, WriteFacts DEF OnlyOf
      <4> QED BY <3>3, <4>2, <4>5 DEF Waiting, Spares
    <3>7. Own(t)'
      BY <1>1, <2>1, <3>3, <3>4, <3>6 DEF Own, At, Unrun
    <3> QED BY <2>1, <3>1, <3>3, <3>4, <3>5, <3>7, IntoPipes DEF PipeInv
  <2> QED BY <2>2, <2>3
<1>9. CASE Read(t)
  <2>1. At(t, "read") /\ Take /\ UNCHANGED <<requests, dropped>> /\ t \in Waiting
    BY <1>9 DEF Read, Waiting, At
  <2>2. CASE Go(t, "error")
    BY <1>2, <1>4, <2>1, <2>2 DEF Keeps
  <2>3. ASSUME NEW v \in {"ok", "err"},
               call' = [call EXCEPT ![t].pc = "record", ![t].got = Head(responses).of, ![t].verdict = v]
        PROVE  PipeInv'
    <3>1. Head(responses) = responses[1] /\ 1 \in DOMAIN responses
      BY <1>1, <2>1, TakeFacts
    <3>2. call[t].alone => Head(responses).of = t
      BY <1>1, <2>1, <3>1 DEF Own, OnlyOf
    <3>3. /\ Spares(t) /\ call'[t].side = call[t].side /\ call'[t].alone = call[t].alone
          /\ call'[t].pc = "record" /\ call'[t].got = Head(responses).of
      BY <1>1, <2>3 DEF Call, Spares
    <3> QED BY <1>4, <2>1, <3>2, <3>3
  <2> QED BY <1>9, <2>2, <2>3 DEF Read
<1>10. CASE Leave(t)
  <2>1. t \in Waiting /\ Go(t, "dropped") /\ dropped' = TRUE /\ UNCHANGED <<requests, responses>>
    BY <1>10 DEF Leave, Waiting
  <2> QED BY <1>2, <1>4, <2>1 DEF Keeps
<1>11. CASE Connect(t)
  <2>1. At(t, "new") /\ Busy = {} /\ UNCHANGED <<responses, dropped>>
    BY <1>11 DEF Connect
  <2>2. ASSUME NEW pc \in {"error", "init?"}, call' = [call EXCEPT ![t].side = "connect", ![t].pc = pc]
        PROVE  /\ call'[t].side = "connect" /\ call'[t].pc = pc /\ Spares(t)
               /\ call'[t].got = call[t].got /\ call'[t].alone = call[t].alone
               /\ Exclusive'
    <3>1. /\ call'[t].side = "connect" /\ call'[t].pc = pc /\ Spares(t)
          /\ call'[t].got = call[t].got /\ call'[t].alone = call[t].alone
      BY <1>1, <2>2 DEF Call, Spares
    <3>2. Busy' \subseteq {t}
      BY <2>1, <3>1 DEF Busy, Spares
    <3> QED BY <3>1, <3>2 DEF Exclusive
  <2>3. CASE UNCHANGED requests /\ call' = [call EXCEPT ![t].side = "connect", ![t].pc = "error"]
    BY <1>3, <2>1, <2>2, <2>3 DEF At, Unrun
  <2>4. CASE /\ call' = [call EXCEPT ![t].side = "connect", ![t].pc = "init?"]
             /\ Write([of |-> t, id |-> 1, method |-> "initialize", name |-> "none"])
    <3>1. [of |-> t, id |-> 1, method |-> "initialize", name |-> "none"] \in Request
      BY DEF Request
    <3>2. /\ call'[t].side = "connect" /\ call'[t].pc = "init?" /\ Spares(t)
          /\ call'[t].got = call[t].got /\ call'[t].alone = call[t].alone /\ Exclusive'
      BY <2>2, <2>4
    <3>3. Own(t)' /\ t \notin Waiting /\ t \in Waiting'
      BY <1>1, <2>1, <3>2 DEF Own, Waiting, At, Unrun
    <3>4. \A u \in Tasks : ~At(u, "read")
      BY <2>1 DEF PipeInv, Own, Busy, At
    <3> QED BY <2>1, <2>4, <3>1, <3>2, <3>3, <3>4, IntoPipes DEF PipeInv
  <2> QED BY <1>11, <2>3, <2>4 DEF Connect
<1>12. CASE ReadInitialize(t)
  <2>1. At(t, "init?") /\ Take /\ UNCHANGED dropped /\ t \in Waiting
    BY <1>12 DEF ReadInitialize, Waiting, At
  <2>2. CASE Go(t, "error") /\ UNCHANGED requests
    BY <1>2, <1>4, <2>1, <2>2 DEF Keeps
  (* The answer it takes makes room for its next request. *)
  <2>3. CASE Go(t, "list?") /\ Write([of |-> t, id |-> 2, method |-> "tools/list", name |-> "none"])
    <3>1. [of |-> t, id |-> 2, method |-> "tools/list", name |-> "none"] \in Request
      BY DEF Request
    <3>2. Spares(t) /\ Keeps(t) /\ call'[t].pc = "list?"
      BY <1>2, <2>3
    <3>3. Waiting' = Waiting /\ Busy' = Busy
      BY <1>1, <2>1, <3>2 DEF Waiting, Busy, Spares, Keeps, At
    <3>4. Exclusive'
      BY <1>1, <3>2, <3>3, ExclusiveKeeps DEF Keeps
    <3>5. NothingLeft'
      <4>1. Len(requests') = Len(requests) + 1 /\ Len(responses') < Len(responses) /\ Len(responses') \in Nat
        BY <1>1, <2>1, <2>3, <3>1, WriteFacts, TakeFacts
      <4>2. Cardinality(Waiting) \in Nat
        BY FS_CardinalityType DEF PipeInv
      <4> QED BY <2>1, <3>3, <4>1, <4>2, PipesAreNat DEF PipeInv, NothingLeft
    <3>6. \A u \in Tasks : Own(u)'
      <4>1. \A u \in Tasks : ~(At(u, "read") /\ call[u].alone)
        BY <2>1 DEF PipeInv, Own, At
      <4> QED BY <2>1, <3>2, <4>1 DEF PipeInv, Own, Spares, Keeps, Unrun, At
    <3> QED BY <3>3, <3>4, <3>5, <3>6 DEF PipeInv
  <2> QED BY <1>12, <2>2, <2>3 DEF ReadInitialize
<1>13. CASE ReadTools(t)
  <2>1. t \in Waiting /\ Take /\ UNCHANGED <<requests, dropped>>
    BY <1>13 DEF ReadTools, Waiting, At
  <2>2. PICK pc \in {"error", "answered", "record"} : Go(t, pc)
    BY <1>13 DEF ReadTools
  <2> QED BY <1>2, <1>4, <2>1, <2>2 DEF Keeps
<1>14. CASE Return(t)
  <2>1. At(t, "record") /\ UNCHANGED <<requests, responses, dropped>>
    BY <1>14 DEF Return
  <2>2. PICK pc \in {"answered", "error"} : Go(t, pc)
    BY <1>14 DEF Return
  <2>3. Spares(t) /\ Keeps(t) /\ call'[t].pc = pc
    BY <1>2, <2>2
  <2>4. Exclusive'
    BY <1>1, <2>1, <2>3, ExclusiveKeeps DEF Keeps, Busy, At
  <2> QED BY <1>3, <2>1, <2>3, <2>4 DEF At, Unrun, Keeps
<1>15. CASE Record(t)
  BY <1>15 DEF Record, mcp, PipeInv, Waiting, Exclusive, Busy, NothingLeft, Own, OnlyOf, Unrun, At
<1> QED BY <1>5, <1>6, <1>7, <1>8, <1>9, <1>10, <1>11, <1>12, <1>13, <1>14, <1>15

(* An answer is read by the call it is to, for any number of calls and of lost
   answers before, as long as that call is alone on the pipes. *)
THEOREM OwnAnswers == McpSpec => []AnswerIsOwn
<1>1. McpInit => PipeInv
  <2> SUFFICES ASSUME McpInit PROVE PipeInv
    OBVIOUS
  <2>1. Waiting = {} /\ Busy = {}
    BY DEF McpInit, Waiting, Busy
  <2>2. IsFiniteSet(Waiting) /\ Cardinality(Waiting) = 0
    BY <2>1, FS_EmptySet
  <2>3. NothingLeft
    BY <2>2 DEF McpInit, NothingLeft
  <2>4. \A t \in Tasks : Own(t)
    BY DEF McpInit, Own, At
  <2> QED BY <2>1, <2>2, <2>3, <2>4 DEF PipeInv, Exclusive
<1>2. McpTypeOK /\ GateInv /\ PipeInv /\ [McpNext]_mcpVars => PipeInv'
  <2> SUFFICES ASSUME McpTypeOK, GateInv, PipeInv, [McpNext]_mcpVars PROVE PipeInv'
    OBVIOUS
  <2>1. CASE UNCHANGED <<call, requests, responses, dropped>>
    BY <2>1 DEF PipeInv, Waiting, Exclusive, Busy, NothingLeft, Own, OnlyOf, Unrun, At
  <2>2. CASE UNCHANGED mcpVars \/ (Tamper /\ UNCHANGED mcp) \/ disconnect \/ approve
    BY <2>1, <2>2 DEF mcpVars, mcp, disconnect, approve
  <2>3. CASE Answer
    BY <2>3, AnswerKeeps
  <2>4. ASSUME NEW t \in Tasks,
               \/ Begin(t) \/ Check(t) \/ Invoke(t) \/ Send(t) \/ Read(t) \/ Leave(t)
               \/ Connect(t) \/ ReadInitialize(t) \/ ReadTools(t) \/ Return(t) \/ Record(t)
        PROVE  PipeInv'
    BY <2>4, PipeKeeps DEF GateInv
  <2> QED BY <2>2, <2>3, <2>4 DEF McpNext
<1>3. PipeInv => AnswerIsOwn
  BY DEF PipeInv, Own, AnswerIsOwn
<1> QED BY <1>1, <1>2, <1>3, McpTypeCorrect, GateHolds, PTL DEF McpSpec
=============================================================================
