------------------------------ MODULE McpCalls ------------------------------
(* Tools called over MCP: ArgOS as a server, whose tools others call, and as
   the client of a server, both behind the permission gate and in front of one
   audit log (argos-mcp/src/server_impl.rs, client_impl.rs, protocol.rs,
   transport.rs; argos-security/src/permission.rs).

   A call ends with a record in the log of AuditChain, whose steps are the
   steps of that record here.  The client's requests all go down one pipe and
   its answers come up another, in order; the code matches them by order
   alone.  The gate is shared once the calls begin, and grants need it
   exclusively: what is granted does not change here. *)
EXTENDS AuditChain

CONSTANTS
  Registered,   \* the tools the server knows
  Unknown,      \* other names
  GrantSets     \* what may have been granted before the calls

Names == Registered \cup Unknown
Sides == {"server", "client"}

ASSUME GrantAssumption == GrantSets \subseteq SUBSET (Sides \X Names)
ASSUME NameAssumption == Registered \cap Unknown = {} /\ "none" \notin Names

VARIABLES
  grants,     \* MatrixPermissionGate
  state,      \* McpServerState of the client
  approved,   \* whether discovery was approved
  call,       \* per task: what it does, where it is, what it learnt
  requests,   \* the pipe to the other server
  responses,  \* the pipe back
  ran,        \* history: the tasks whose tool was run here, or asked for there
  dropped     \* history: whether an answer was ever left unread

mcp == <<grants, state, approved, call, requests, responses, ran, dropped>>
mcpVars == <<vars, mcp>>

Request == [of : Tasks, id : 1 .. 3, method : {"initialize", "tools/list", "tools/call"}, name : Names \cup {"none"}]
Response == [of : Tasks, id : 1 .. 3, body : {"result", "isError", "error"}]

(* alone is history: no other call was under way over the pipes since this
   one wrote its request, and no answer was left before. *)
Call == [side : Sides \cup {"connect", "none"}, tool : Names \cup {"none"},
         pc : {"new", "check", "invoke", "send", "read", "record", "init?", "list?", "answered", "error", "dropped"},
         verdict : {"none", "denied", "ok", "err"}, got : Tasks \cup {"none"}, alone : BOOLEAN]

McpTypeOK ==
  /\ TypeOK
  /\ grants \subseteq Sides \X Names /\ state \in {"Started", "Stopped"} /\ approved \in BOOLEAN
  /\ call \in [Tasks -> Call]
  /\ requests \in Seq(Request) /\ responses \in Seq(Response)
  /\ ran \subseteq Tasks /\ dropped \in BOOLEAN

McpInit ==
  /\ Init
  /\ grants \in GrantSets
  /\ state = "Stopped" /\ approved = FALSE
  /\ requests = <<>> /\ responses = <<>> /\ ran = {} /\ dropped = FALSE
  /\ call = [t \in Tasks |-> [side |-> "none", tool |-> "none", pc |-> "new", verdict |-> "none",
                              got |-> "none", alone |-> FALSE]]

At(t, pc) == call[t].pc = pc
Go(t, pc) == call' = [call EXCEPT ![t].pc = pc]
Gate == <<grants, approved>>

(* handle_message of a request a client writes; a call is only acknowledged. *)
handle_message(r) ==
  [of |-> r.of, id |-> r.id,
   body |-> IF r.method = "tools/call" /\ r.name = "none" THEN "isError" ELSE "result"]

(* write_message: the pipe takes the line, or is closed. *)
Write(r) == requests' = Append(requests, r)

(* read_message: the first line; the reader that is made for it may have taken
   further lines with it, which are lost. *)
Take == \E n \in DOMAIN responses : responses' = SubSeq(responses, n + 1, Len(responses))

(* The client is shared by its calls and exclusive for connect and disconnect. *)
Busy == {t \in Tasks : call[t].side # "server" /\ call[t].pc \notin {"new", "answered", "error", "dropped"}}
Connecting == \E t \in Busy : call[t].side = "connect"

(* A call on the server begins; one of the client needs it to be started. *)
Begin(t) ==
  /\ At(t, "new")
  /\ \E side \in Sides, n \in Names :
       /\ side = "client" => ~Connecting
       /\ call' = [call EXCEPT ![t].side = side, ![t].tool = n,
                    ![t].pc = IF side = "client" /\ state # "Started" THEN "error" ELSE "check"]
  /\ UNCHANGED <<vars, Gate, state, requests, responses, ran, dropped>>

Granted(t) == <<call[t].side, call[t].tool>> \in grants

(* Defect: A denial is audited, and the call goes on. *)
CheckWithoutReturn(t) ==
  /\ At(t, "check")
  /\ call' = [call EXCEPT ![t].pc = IF call[t].side = "server" THEN "invoke" ELSE "send",
                         ![t].verdict = IF Granted(t) THEN "none" ELSE "denied"]
  /\ UNCHANGED vars
  /\ UNCHANGED <<Gate, state, requests, responses, ran, dropped>>

(* PermissionGate::check.  A denied call is recorded and answered. *)
Check(t) ==
  /\ At(t, "check")
  /\ IF Granted(t)
     THEN Go(t, IF call[t].side = "server" THEN "invoke" ELSE "send") /\ UNCHANGED vars
     ELSE MakeEntry(t) /\ call' = [call EXCEPT ![t].pc = "record", ![t].verdict = "denied"]
  /\ UNCHANGED <<Gate, state, requests, responses, ran, dropped>>

(* ToolRegistry::invoke: a name that is not registered ends the call here,
   before any record; a tool answers well or badly, or fails like that. *)
Invoke(t) ==
  /\ At(t, "invoke")
  /\ \/ call[t].tool \in Unknown /\ Go(t, "error") /\ UNCHANGED <<vars, ran>>
     \/ /\ call[t].tool \in Registered /\ ran' = ran \cup {t}
        /\ \/ Go(t, "error") /\ UNCHANGED vars
           \/ \E v \in {"ok", "err"} : MakeEntry(t) /\ call' = [call EXCEPT ![t].pc = "record", ![t].verdict = v]
  /\ UNCHANGED <<Gate, state, requests, responses, dropped>>

(* tools/call, whose id is the same for every call. *)
Send(t) ==
  /\ At(t, "send")
  /\ \/ Go(t, "error") /\ UNCHANGED <<requests, ran>>
     \/ /\ Write([of |-> t, id |-> 3, method |-> "tools/call", name |-> call[t].tool])
        /\ ran' = ran \cup {t}
        /\ LET others == {u \in Tasks \ {t} : At(u, "read")}
           IN  call' = [u \in Tasks |->
                 CASE u = t -> [call[t] EXCEPT !.pc = "read", !.alone = (others = {} /\ ~dropped)]
                   [] u \in others -> [call[u] EXCEPT !.alone = FALSE]
                   [] OTHER -> call[u]]
  /\ UNCHANGED <<vars, Gate, state, responses, dropped>>

(* The next answer, whichever call it is to.  One that has no result, being an
   error of the protocol, counts as a tool that answered well. *)
Read(t) ==
  /\ At(t, "read") /\ Take
  /\ \/ Go(t, "error") /\ UNCHANGED vars    \* it cannot be parsed
     \/ /\ MakeEntry(t)
        /\ call' = [call EXCEPT ![t].pc = "record", ![t].got = Head(responses).of,
                     ![t].verdict = IF Head(responses).body = "isError" THEN "err" ELSE "ok"]
  /\ UNCHANGED <<Gate, state, requests, ran, dropped>>

(* The pipe ends, or the caller gives up: the answer stays to be read. *)
Leave(t) ==
  /\ call[t].pc \in {"read", "init?", "list?"}
  /\ Go(t, "dropped") /\ dropped' = TRUE
  /\ UNCHANGED <<vars, Gate, state, requests, responses, ran>>

(* connect: initialize is sent; then, for any answer, tools/list. *)
Connect(t) ==
  /\ At(t, "new") /\ Busy = {}
  /\ \/ call' = [call EXCEPT ![t].side = "connect", ![t].pc = "error"] /\ UNCHANGED requests
     \/ /\ call' = [call EXCEPT ![t].side = "connect", ![t].pc = "init?"]
        /\ Write([of |-> t, id |-> 1, method |-> "initialize", name |-> "none"])
  /\ UNCHANGED <<vars, Gate, state, responses, ran, dropped>>

ReadInitialize(t) ==
  /\ At(t, "init?") /\ Take
  /\ \/ Go(t, "error") /\ UNCHANGED requests
     \/ Go(t, "list?") /\ Write([of |-> t, id |-> 2, method |-> "tools/list", name |-> "none"])
  /\ UNCHANGED <<vars, Gate, state, ran, dropped>>

(* Defect: The client counts as started once it has asked for the tools. *)
ReadToolsEarly(t) ==
  /\ At(t, "list?")
  /\ Go(t, "answered") /\ state' = "Started" /\ UNCHANGED <<vars, responses>>
  /\ UNCHANGED <<Gate, requests, ran, dropped>>

(* The tools are kept; a discovery nobody approved is recorded before the
   client counts as started. *)
ReadTools(t) ==
  /\ At(t, "list?") /\ Take
  /\ \/ Go(t, "error") /\ UNCHANGED <<vars, state>>
     \/ approved /\ Go(t, "answered") /\ state' = "Started" /\ UNCHANGED vars
     \/ ~approved /\ MakeEntry(t) /\ Go(t, "record") /\ UNCHANGED state
  /\ UNCHANGED <<Gate, requests, ran, dropped>>

disconnect ==
  /\ state = "Started" /\ Busy = {}
  /\ state' = "Stopped"
  /\ UNCHANGED <<vars, Gate, call, requests, responses, ran, dropped>>

approve ==
  /\ ~approved /\ approved' = TRUE
  /\ UNCHANGED <<vars, grants, state, call, requests, responses, ran, dropped>>

(* The record is made, and the call answered; or it failed, and so does the
   call, whatever the tool did. *)
Return(t) ==
  /\ At(t, "record") /\ task[t] \in {"ok", "failed"}
  /\ Go(t, IF task[t] = "ok" THEN "answered" ELSE "error")
  /\ state' = IF task[t] = "ok" /\ call[t].side = "connect" THEN "Started" ELSE state
  /\ UNCHANGED <<vars, Gate, requests, responses, ran, dropped>>

(* The other server (external) answers what it is asked, in order: as ours, or,
   having tried to run the tool, with an error of the tool or of the protocol. *)
Answer ==
  /\ requests # <<>>
  /\ requests' = Tail(requests)
  /\ \E r \in {handle_message(Head(requests))} \cup [of : {Head(requests).of}, id : {Head(requests).id}, body : {"isError", "error"}] :
       responses' = Append(responses, r)
  /\ UNCHANGED <<vars, Gate, state, call, ran, dropped>>

(* The log's own steps, for the calls that have made an entry. *)
Record(t) == (SelectLast(t) \/ Insert(t) \/ Fail(t)) /\ UNCHANGED mcp

McpNext ==
  \/ Tamper /\ UNCHANGED mcp
  \/ Answer \/ disconnect \/ approve
  \/ \E t \in Tasks :
       \/ Begin(t) \/ Check(t) \/ Invoke(t) \/ Send(t) \/ Read(t) \/ Leave(t)
       \/ Connect(t) \/ ReadInitialize(t) \/ ReadTools(t) \/ Return(t) \/ Record(t)

McpSpec == McpInit /\ [][McpNext]_mcpVars
-----------------------------------------------------------------------------
(* A tool runs, here or at the other server, only for a task to which it is
   granted, and whatever is answered is in the log: as denied if it was. *)
GatedAndAudited ==
  /\ \A t \in ran : Granted(t)
  /\ \A t \in Tasks : At(t, "answered") /\ call[t].side # "connect" =>
       /\ \E i \in DOMAIN recorded : recorded[i].subject = t
       /\ call[t].verdict = "denied" <=> t \notin ran

(* An answer read by the client is the one to the call that reads it, as long
   as no other call was under way and none was left before: answers carry the
   ids of their requests, but nobody looks at them. *)
AnswerIsOwn == \A t \in Tasks : call[t].alone /\ call[t].got # "none" => call[t].got = t
=============================================================================
