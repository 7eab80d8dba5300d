---------------------------- MODULE N8nRun_proofs ----------------------------
(* What a run of a workflow reports, and how often it is started, for any
   number of callers, workflows, polls and retries, and whatever other users
   do to n8n meanwhile. *)
EXTENDS N8nRun, FiniteSetTheorems, TLAPS

Places == {"idle", "probe", "tool", "get", "post", "blocked", "query", "poll", "done", "failed"}
Call == [pc : Places, via : {"runner", "connector", "adapter"}, wf : Workflows \cup {"none"},
         path : Paths \cup {NoPath}, tries : Nat, exec : Nat, fell : BOOLEAN, n : Nat,
         id : Nat, status : RunStatus \cup {"none"}]
Execution == [wf : Workflows, by : Int, status : {"running", "waiting"} \cup Endings]

RunTypeOK ==
  /\ definition \in [Workflows -> Definitions] /\ active \subseteq Workflows
  /\ execs \in Seq(Execution) /\ accepted \in Seq(Execution)
  /\ calls \in [Callers -> Call]
  /\ DOMAIN mirror \subseteq Nat
  /\ \A i \in DOMAIN mirror : mirror[i] \in [wf : Workflows \cup {"none"}, status : RunStatus, rest : BOOLEAN]
  /\ asked \in Nat /\ others \in Nat

(* A call that has still to ask the MCP server has not fallen back, and the
   execution that a call waits for is there. *)
CallInv ==
  \A c \in Callers :
    /\ At(c, "tool") => calls[c].via = "adapter" /\ ~calls[c].fell
    /\ calls[c].exec \in {0} \cup DOMAIN execs
    /\ At(c, "idle") <=> calls[c].n = 0
    /\ calls[c].n <= asked
    /\ At(c, "idle") \/ calls[c].wf \in Workflows

(* The runs triggered with a call's number, as positions in the executions and
   the triggers behind them. *)
Nth(e, a, k) == IF k <= Len(e) THEN e[k] ELSE a[k - Len(e)]
Triggers(e, a, n) == {k \in 1 .. Len(e) + Len(a) : Nth(e, a, k).by = n}
Triggered(n) == Triggers(execs, accepted, n)

(* How many runs a call may have triggered by now. *)
Transports(call) == IF call.fell THEN 2 ELSE 1
Budget(call) ==
  CASE call.pc \in {"idle", "probe", "tool"} -> 0
    [] call.pc \in {"get", "post"} -> Transports(call) - 1
    [] OTHER -> Transports(call)

CountInv ==
  /\ \A n \in Nat : n = 0 \/ n > asked => Triggered(n) = {}
  /\ \A c \in Callers : Cardinality(Triggered(calls[c].n)) <= Budget(calls[c])

(* Two calls have two numbers. *)
NumberInv == \A c, d \in Callers : calls[c].n = calls[d].n => c = d \/ calls[c].n = 0

(* ReportIsTrue of one call, of one list of executions and of one mirror. *)
TellsOf(e, id, wf, status) ==
  /\ id \in DOMAIN e /\ e[id].wf = wf
  /\ status # "Running" => status = map_status(e[id].status)
Reports(e, call) ==
  call.pc = "done" /\ (call.via # "adapter" \/ call.fell) =>
    /\ TellsOf(e, call.id, call.wf, call.status)
    /\ call.exec # 0 /\ e[call.exec].wf = call.wf => call.id >= call.exec
Mirrors(e, m) == \A i \in DOMAIN m : m[i].rest => TellsOf(e, i, m[i].wf, m[i].status)
ReportInv == Mirrors(execs, mirror) /\ \A c \in Callers : Reports(execs, calls[c])

RunInv == RunTypeOK /\ CallInv /\ NumberInv /\ CountInv /\ ReportInv
-----------------------------------------------------------------------------
(* Positions. *)

LEMMA Smallest ==
  ASSUME NEW S \in SUBSET Nat, S # {}
  PROVE  \E i \in S : \A j \in S : i <= j
<1>1. IsWellFoundedOn(OpToRel(<, Nat), Nat)
  BY NatLessThanWellFounded
<1>2. PICK i \in S : \A j \in S : <<j, i>> \notin OpToRel(<, Nat)
  BY <1>1, WFMin
<1>3. ASSUME NEW j \in S PROVE i <= j
  <2>1. <<j, i>> \notin OpToRel(<, Nat)
    BY <1>2
  <2>2. <<j, i>> \in Nat \X Nat /\ <<j, i>>[1] = j /\ <<j, i>>[2] = i
    OBVIOUS
  <2>3. ~ (j < i)
    BY <2>1, <2>2 DEF OpToRel
  <2> QED BY <2>3
<1> QED BY <1>3

(* The newest of some executions is one of them, and none is newer. *)
LEMMA Greatest ==
  ASSUME NEW n \in Nat, NEW S \in SUBSET (1 .. n), S # {}
  PROVE  Newest(S) \in S /\ \A i \in S : i <= Newest(S)
<1> DEFINE T == {n - i : i \in S}
<1>1. T \in SUBSET Nat /\ T # {}
  <2>1. ASSUME NEW i \in S PROVE n - i \in Nat
    <3>1. i \in 1 .. n
      OBVIOUS
    <3> QED BY <3>1
  <2> QED BY <2>1
<1>2. PICK m \in T : \A k \in T : m <= k
  BY <1>1, Smallest
<1>3. PICK i \in S : m = n - i
  BY <1>2
<1>4. ASSUME NEW j \in S PROVE j <= i
  <2>1. m <= n - j
    BY <1>2
  <2> QED BY <2>1, <1>3
<1> QED BY <1>4 DEF Newest

(* A set that goes one to one into a finite one is no larger. *)
LEMMA NoLarger ==
  ASSUME NEW S, NEW T, IsFiniteSet(T), NEW f \in [S -> T],
         \A x, y \in S : f[x] = f[y] => x = y
  PROVE  IsFiniteSet(S) /\ Cardinality(S) <= Cardinality(T)
<1>1. f \in Injection(S, T)
  BY DEF Injection, IsInjective
<1> QED BY <1>1, FS_Injection

LEMMA TriggersFinite ==
  ASSUME NEW e \in Seq(Execution), NEW a \in Seq(Execution), NEW n \in Int
  PROVE  IsFiniteSet(Triggers(e, a, n)) /\ Cardinality(Triggers(e, a, n)) \in Nat
<1>1. Len(e) + Len(a) \in Int /\ 1 \in Int
  OBVIOUS
<1>2. IsFiniteSet(1 .. Len(e) + Len(a))
  BY <1>1, FS_Interval
<1>3. Triggers(e, a, n) \in SUBSET (1 .. Len(e) + Len(a))
  BY DEF Triggers
<1> QED BY <1>2, <1>3, FS_Subset, FS_CardinalityType

(* A trigger more counts for the one that it is of. *)
LEMMA OneMore ==
  ASSUME NEW S, NEW T, NEW p, IsFiniteSet(T), NEW f \in [S \ {p} -> T],
         \A x, y \in S \ {p} : f[x] = f[y] => x = y
  PROVE  /\ Cardinality(S) <= Cardinality(T) + 1
         /\ p \notin S => Cardinality(S) <= Cardinality(T)
<1>1. IsFiniteSet(S \ {p}) /\ Cardinality(S \ {p}) <= Cardinality(T)
  BY NoLarger
<1>2. /\ Cardinality((S \ {p}) \cup {p}) = Cardinality(S \ {p}) + 1
      /\ IsFiniteSet((S \ {p}) \cup {p})
  BY <1>1, FS_AddElement
<1>3. Cardinality(S \ {p}) \in Nat /\ Cardinality(T) \in Nat
  BY <1>1, FS_CardinalityType
<1>4. CASE p \in S
  <2>1. (S \ {p}) \cup {p} = S
    BY <1>4
  <2> QED BY <1>1, <1>2, <1>3, <1>4, <2>1
<1>5. CASE p \notin S
  <2>1. S \ {p} = S
    BY <1>5
  <2> QED BY <1>1, <1>3, <2>1
<1> QED BY <1>4, <1>5

LEMMA TriggersOfRegistered ==
  ASSUME NEW e \in Seq(Execution), NEW a \in Seq(Execution), NEW x \in Execution, NEW n \in Int
  PROVE  /\ Cardinality(Triggers(Append(e, x), a, n)) <= Cardinality(Triggers(e, a, n)) + 1
         /\ x.by # n => Cardinality(Triggers(Append(e, x), a, n)) <= Cardinality(Triggers(e, a, n))
         /\ x.by # n /\ Triggers(e, a, n) = {} => Triggers(Append(e, x), a, n) = {}
<1> DEFINE p == Len(e) + 1
           S == Triggers(Append(e, x), a, n)
           T == Triggers(e, a, n)
           f == [k \in S \ {p} |-> IF k < p THEN k ELSE k - 1]
<1>1. Len(Append(e, x)) = p /\ p \in Nat /\ Len(e) \in Nat /\ Len(a) \in Nat
  OBVIOUS
<1>2. Nth(Append(e, x), a, p) = x
  BY <1>1 DEF Nth
<1>3. ASSUME NEW k \in S \ {p}
      PROVE  f[k] \in T
  <2>1. k \in 1 .. p + Len(a) /\ k # p /\ Nth(Append(e, x), a, k).by = n
    BY <1>1 DEF Triggers
  <2>2. CASE k < p
    <3>1. Nth(e, a, k) = Nth(Append(e, x), a, k) /\ k \in 1 .. Len(e) + Len(a)
      BY <1>1, <2>1, <2>2 DEF Nth
    <3> QED BY <2>1, <2>2, <3>1 DEF Triggers
  <2>3. CASE k > p
    <3>1. k - 1 - Len(e) = k - p /\ k - 1 > Len(e) /\ k > Len(Append(e, x))
      BY <1>1, <2>1, <2>3
    <3>2. Nth(e, a, k - 1) = Nth(Append(e, x), a, k) /\ k - 1 \in 1 .. Len(e) + Len(a)
      BY <1>1, <2>1, <2>3, <3>1 DEF Nth
    <3> QED BY <1>1, <2>1, <2>3, <3>2 DEF Triggers
  <2> QED BY <1>1, <2>1, <2>2, <2>3
<1>4. f \in [S \ {p} -> T]
  BY <1>3
<1>5. \A k, m \in S \ {p} : f[k] = f[m] => k = m
  <2>1. \A k \in S \ {p} : k \in Nat /\ k # p
    BY DEF Triggers
  <2> QED BY <2>1, <1>1
<1>6. IsFiniteSet(T)
  BY TriggersFinite
<1>7. x.by # n => p \notin S
  BY <1>2 DEF Triggers
<1> HIDE DEF S, T, f, p
<1>8. /\ Cardinality(S) <= Cardinality(T) + 1
      /\ p \notin S => Cardinality(S) <= Cardinality(T)
  BY <1>4, <1>5, <1>6, OneMore
<1>9. x.by # n /\ T = {} => S = {}
  BY <1>4, <1>7
<1> QED BY <1>7, <1>8, <1>9 DEF S, T

LEMMA TriggersOfAccepted ==
  ASSUME NEW e \in Seq(Execution), NEW a \in Seq(Execution), NEW x \in Execution, NEW n \in Int
  PROVE  /\ Cardinality(Triggers(e, Append(a, x), n)) <= Cardinality(Triggers(e, a, n)) + 1
         /\ x.by # n => Cardinality(Triggers(e, Append(a, x), n)) <= Cardinality(Triggers(e, a, n))
         /\ x.by # n /\ Triggers(e, a, n) = {} => Triggers(e, Append(a, x), n) = {}
<1> DEFINE p == Len(e) + Len(a) + 1
           S == Triggers(e, Append(a, x), n)
           T == Triggers(e, a, n)
           f == [k \in S \ {p} |-> k]
<1>1. Len(Append(a, x)) = Len(a) + 1 /\ p \in Nat /\ Len(e) \in Nat /\ Len(a) \in Nat
  OBVIOUS
<1>2. Nth(e, Append(a, x), p) = x
  <2>1. p - Len(e) = Len(a) + 1 /\ ~ (p <= Len(e))
    BY <1>1
  <2>2. Append(a, x)[Len(a) + 1] = x
    OBVIOUS
  <2> QED BY <2>1, <2>2 DEF Nth
<1>3. ASSUME NEW k \in S \ {p}
      PROVE  k \in T
  <2>1. k \in 1 .. Len(e) + Len(a) /\ Nth(e, Append(a, x), k).by = n
    BY <1>1 DEF Triggers
  <2>2. Nth(e, a, k) = Nth(e, Append(a, x), k)
    BY <1>1, <2>1 DEF Nth
  <2> QED BY <2>1, <2>2 DEF Triggers
<1>4. f \in [S \ {p} -> T] /\ \A k, m \in S \ {p} : f[k] = f[m] => k = m
  BY <1>3
<1>6. IsFiniteSet(T)
  BY TriggersFinite
<1>7. x.by # n => p \notin S
  BY <1>2 DEF Triggers
<1> HIDE DEF S, T, f, p
<1>8. /\ Cardinality(S) <= Cardinality(T) + 1
      /\ p \notin S => Cardinality(S) <= Cardinality(T)
  BY <1>4, <1>6, OneMore
<1>9. x.by # n /\ T = {} => S = {}
  BY <1>3, <1>7
<1> QED BY <1>7, <1>8, <1>9 DEF S, T

(* A trigger that is registered stays where it is; one that comes to nothing
   lets those behind it move up. *)
LEMMA TriggersOfTail ==
  ASSUME NEW e \in Seq(Execution), NEW a \in Seq(Execution), a # <<>>, NEW n \in Int
  PROVE  /\ Triggers(Append(e, Head(a)), Tail(a), n) = Triggers(e, a, n)
         /\ Cardinality(Triggers(e, Tail(a), n)) <= Cardinality(Triggers(e, a, n))
         /\ Triggers(e, a, n) = {} => Triggers(e, Tail(a), n) = {}
<1>1. /\ Len(a) \in Nat \ {0} /\ Len(e) \in Nat /\ Head(a) = a[1] /\ Head(a) \in Execution
      /\ Tail(a) \in Seq(Execution) /\ Len(Tail(a)) = Len(a) - 1
      /\ \A i \in 1 .. Len(a) - 1 : Tail(a)[i] = a[i + 1]
  <2>1. Len(a) # 0
    OBVIOUS
  <2> QED BY <2>1
<1>2. ASSUME NEW k \in 1 .. Len(e) + Len(a)
      PROVE  Nth(Append(e, Head(a)), Tail(a), k) = Nth(e, a, k)
  <2>1. Len(Append(e, Head(a))) = Len(e) + 1
    OBVIOUS
  <2>2. CASE k <= Len(e)
    BY <1>1, <2>1, <2>2 DEF Nth
  <2>3. CASE k = Len(e) + 1
    <3>1. k - Len(e) = 1 /\ ~ (k <= Len(e)) /\ Append(e, Head(a))[k] = a[1]
      BY <1>1, <2>3
    <3> QED BY <1>1, <2>1, <2>3, <3>1 DEF Nth
  <2>4. CASE k > Len(e) + 1
    <3>1. k - (Len(e) + 1) \in 1 .. Len(a) - 1 /\ k - (Len(e) + 1) + 1 = k - Len(e)
      BY <1>1, <2>4
    <3>2. Tail(a)[k - (Len(e) + 1)] = a[k - Len(e)]
      BY <1>1, <3>1
    <3> QED BY <1>1, <2>1, <2>4, <3>2 DEF Nth
  <2> QED BY <1>1, <2>2, <2>3, <2>4
<1>3. Triggers(Append(e, Head(a)), Tail(a), n) = Triggers(e, a, n)
  <2>1. Len(Append(e, Head(a))) + Len(Tail(a)) = Len(e) + Len(a)
    BY <1>1
  <2> QED BY <1>2, <2>1 DEF Triggers
<1> DEFINE S == Triggers(e, Tail(a), n)
           T == Triggers(e, a, n)
           f == [k \in S |-> IF k <= Len(e) THEN k ELSE k + 1]
<1>4. ASSUME NEW k \in S
      PROVE  f[k] \in T
  <2>1. k \in 1 .. Len(e) + Len(a) - 1 /\ Nth(e, Tail(a), k).by = n
    BY <1>1 DEF Triggers
  <2>2. CASE k <= Len(e)
    <3>1. Nth(e, a, k) = Nth(e, Tail(a), k)
      BY <2>2 DEF Nth
    <3> QED BY <1>1, <2>1, <2>2, <3>1 DEF Triggers
  <2>3. CASE k > Len(e)
    <3>1. k - Len(e) \in 1 .. Len(a) - 1 /\ k - Len(e) + 1 = k + 1 - Len(e) /\ ~ (k + 1 <= Len(e))
      BY <1>1, <2>1, <2>3
    <3>2. Nth(e, a, k + 1) = Nth(e, Tail(a), k)
      BY <1>1, <2>1, <2>3, <3>1 DEF Nth
    <3> QED BY <1>1, <2>1, <2>3, <3>2 DEF Triggers
  <2> QED BY <1>1, <2>1, <2>2, <2>3
<1>5. f \in [S -> T]
  BY <1>4
<1>6. \A k, m \in S : f[k] = f[m] => k = m
  <2>1. \A k \in S : k \in Nat
    BY DEF Triggers
  <2> QED BY <2>1, <1>1
<1>7. IsFiniteSet(T)
  BY TriggersFinite
<1> HIDE DEF S, T, f
<1>8. Cardinality(S) <= Cardinality(T)
  BY <1>5, <1>6, <1>7, NoLarger
<1>9. T = {} => S = {}
  BY <1>5
<1> QED BY <1>3, <1>8, <1>9 DEF S, T

(* What an execution has come to is nothing to who triggered it. *)
LEMMA TriggersOfProceeding ==
  ASSUME NEW e \in Seq(Execution), NEW a \in Seq(Execution), NEW i \in DOMAIN e,
         NEW x \in Execution, x.by = e[i].by, NEW n \in Int
  PROVE  Triggers([e EXCEPT ![i] = x], a, n) = Triggers(e, a, n)
<1> DEFINE d == [e EXCEPT ![i] = x]
<1>1. Len(d) = Len(e) /\ Len(e) \in Nat
  OBVIOUS
<1>2. \A k \in 1 .. Len(e) : d[k].by = e[k].by
  OBVIOUS
<1>3. \A k \in 1 .. Len(e) + Len(a) : Nth(d, a, k).by = Nth(e, a, k).by
  BY <1>1, <1>2 DEF Nth
<1> QED BY <1>1, <1>3 DEF Triggers
-----------------------------------------------------------------------------
(* What the helpers of the model return. *)

LEMMA PathType ==
  ASSUME NEW nodes \in Seq(Node)
  PROVE  extract_webhook_path(nodes) \in Paths \cup {NoPath}
<1> DEFINE Stops(n) == \/ n.type = "untyped"
                       \/ (n.type = "webhook" /\ (n.path # NoPath \/ n.webhookId # NoPath))
           first == {i \in DOMAIN nodes : Stops(nodes[i]) /\ \A j \in 1 .. i - 1 : ~Stops(nodes[j])}
           n == nodes[CHOOSE i \in first : TRUE]
<1>1. CASE first = {}
  BY <1>1 DEF extract_webhook_path
<1>2. CASE first # {}
  <2>1. n \in Node
    BY <1>2
  <2>2. n.path \in Paths \cup {NoPath, NoParams} /\ n.webhookId \in Paths \cup {NoPath}
    BY <2>1 DEF Node
  <2>3. extract_webhook_path(nodes) = CASE n.type = "untyped" \/ n.path = NoParams -> NoPath
                                        [] n.path = NoPath -> n.webhookId
                                        [] OTHER -> n.path
    BY <1>2 DEF extract_webhook_path
  <2> HIDE DEF n
  <2> QED BY <2>2, <2>3
<1> QED BY <1>1, <1>2

(* The latest execution listed is the workflow's, and none of its is later. *)
LEMMA LatestFacts ==
  ASSUME NEW w, execs \in Seq(Execution), parse_latest_execution(w) # 0
  PROVE  /\ parse_latest_execution(w) \in DOMAIN execs
         /\ execs[parse_latest_execution(w)].wf = w
         /\ \A i \in DOMAIN execs : execs[i].wf = w => i <= parse_latest_execution(w)
<1>1. Of(w) # {} /\ parse_latest_execution(w) = Newest(Of(w))
  BY DEF parse_latest_execution
<1>2. Of(w) \in SUBSET (1 .. Len(execs)) /\ Len(execs) \in Nat
  BY DEF Of
<1>3. Newest(Of(w)) \in Of(w) /\ \A i \in Of(w) : i <= Newest(Of(w))
  BY <1>1, <1>2, Greatest
<1> QED BY <1>1, <1>3 DEF Of

LEMMA StatusType == \A s : map_status(s) \in RunStatus /\ (s \in {"running", "waiting"} => map_status(s) = "Running")
BY DEF map_status, RunStatus

(* What was told of the executions still holds when there are more of them and
   some have gone on. *)
Stand(e, d) ==
  /\ Len(e) <= Len(d)
  /\ \A i \in DOMAIN e : /\ d[i].wf = e[i].wf
                         /\ e[i].status \notin {"running", "waiting"} => d[i].status = e[i].status

LEMMA StillTold ==
  ASSUME NEW e \in Seq(Execution), NEW d \in Seq(Execution), Stand(e, d)
  PROVE  /\ \A id, wf, status : TellsOf(e, id, wf, status) => TellsOf(d, id, wf, status)
         /\ \A call \in Call : call.exec \in {0} \cup DOMAIN e /\ Reports(e, call) => Reports(d, call)
         /\ \A m : Mirrors(e, m) => Mirrors(d, m)
<1>1. DOMAIN e \subseteq DOMAIN d
  BY DEF Stand
<1>2. ASSUME NEW id, NEW wf, NEW status, TellsOf(e, id, wf, status)
      PROVE  TellsOf(d, id, wf, status)
  <2>1. id \in DOMAIN d /\ d[id].wf = wf
    BY <1>1, <1>2 DEF TellsOf, Stand
  <2>2. ASSUME status # "Running" PROVE status = map_status(d[id].status)
    <3>1. id \in DOMAIN e /\ status = map_status(e[id].status)
      BY <1>2, <2>2 DEF TellsOf
    <3>2. e[id].status \notin {"running", "waiting"}
      BY <2>2, <3>1, StatusType
    <3> QED BY <3>1, <3>2 DEF Stand
  <2> QED BY <2>1, <2>2 DEF TellsOf
<1>3. ASSUME NEW call \in Call, call.exec \in {0} \cup DOMAIN e, Reports(e, call)
      PROVE  Reports(d, call)
  <2>1. call.exec # 0 => d[call.exec].wf = e[call.exec].wf
    BY <1>3 DEF Stand
  <2> QED BY <1>2, <1>3, <2>1 DEF Reports
<1>4. ASSUME NEW m, Mirrors(e, m)
      PROVE  Mirrors(d, m)
  BY <1>2, <1>4 DEF Mirrors
<1> QED BY <1>2, <1>3, <1>4

LEMMA MoreStand ==
  ASSUME NEW e \in Seq(Execution), NEW x \in Execution
  PROVE  Stand(e, Append(e, x)) /\ Append(e, x) \in Seq(Execution)
BY DEF Stand

LEMMA SameStand == ASSUME NEW e \in Seq(Execution) PROVE Stand(e, e)
BY DEF Stand
-----------------------------------------------------------------------------
(* Steps. *)

(* No run more is triggered, but for the call m. *)
NoMore(e, a, d, b, m) ==
  \A n \in Nat : n # m => /\ Cardinality(Triggers(d, b, n)) <= Cardinality(Triggers(e, a, n))
                          /\ Triggers(e, a, n) = {} => Triggers(d, b, n) = {}

LEMMA CallFields ==
  ASSUME NEW o \in Call
  PROVE  /\ o.pc \in Places /\ o.n \in Nat /\ o.exec \in Nat /\ o.tries \in Nat /\ o.fell \in BOOLEAN
         /\ Transports(o) \in {1, 2} /\ Budget(o) \in 0 .. 2
<1>1. o.pc \in Places /\ o.n \in Nat /\ o.exec \in Nat /\ o.tries \in Nat /\ o.fell \in BOOLEAN
  BY DEF Call
<1>2. Transports(o) \in {1, 2}
  BY DEF Transports
<1>3. Budget(o) \in {0, Transports(o) - 1, Transports(o)}
  BY DEF Budget
<1> QED BY <1>1, <1>2, <1>3

(* n8n, or another of its users. *)
LEMMA OthersKeep ==
  ASSUME RunInv, definition' \in [Workflows -> Definitions], active' \subseteq Workflows, others' \in Nat,
         execs' \in Seq(Execution), accepted' \in Seq(Execution), Stand(execs, execs'),
         NoMore(execs, accepted, execs', accepted', Others),
         UNCHANGED <<calls, mirror, asked>>
  PROVE  RunInv'
<1> USE DEF RunInv
<1>1. RunTypeOK'
  BY DEF RunTypeOK
<1>2. DOMAIN execs \subseteq DOMAIN execs'
  BY DEF RunTypeOK, Stand
<1>3. CallInv' /\ NumberInv'
  BY <1>2 DEF CallInv, NumberInv, At
<1>4. CountInv'
  <2>1. ASSUME NEW n \in Nat
        PROVE  /\ Cardinality(Triggered(n)') <= Cardinality(Triggered(n))
               /\ Triggered(n) = {} => Triggered(n)' = {}
    <3>1. n # Others
      BY DEF Others
    <3>2. /\ Cardinality(Triggers(execs', accepted', n)) <= Cardinality(Triggers(execs, accepted, n))
          /\ Triggers(execs, accepted, n) = {} => Triggers(execs', accepted', n) = {}
      BY <3>1 DEF NoMore
    <3> QED BY <3>2 DEF Triggered
  <2>2. ASSUME NEW n \in Nat, n = 0 \/ n > asked
        PROVE  Triggered(n)' = {}
    BY <2>1, <2>2 DEF CountInv
  <2>3. ASSUME NEW c \in Callers
        PROVE  Cardinality(Triggers(execs', accepted', calls[c].n)) <= Budget(calls[c])
    <3>1. calls[c] \in Call /\ calls[c].n \in Nat /\ calls[c].n \in Int /\ Budget(calls[c]) \in 0 .. 2
      BY CallFields DEF RunTypeOK
    <3>2. /\ Cardinality(Triggers(execs, accepted, calls[c].n)) <= Budget(calls[c])
          /\ Cardinality(Triggers(execs', accepted', calls[c].n)) <= Cardinality(Triggers(execs, accepted, calls[c].n))
      BY <2>1, <3>1 DEF CountInv, Triggered
    <3>3. /\ Cardinality(Triggers(execs, accepted, calls[c].n)) \in Nat
          /\ Cardinality(Triggers(execs', accepted', calls[c].n)) \in Nat
      BY <3>1, TriggersFinite DEF RunTypeOK
    <3> QED BY <3>1, <3>2, <3>3
  <2> QED BY <2>2, <2>3 DEF CountInv, Triggered
<1>5. ReportInv'
  <2>1. Mirrors(execs', mirror)
    BY StillTold DEF RunTypeOK, ReportInv
  <2>2. ASSUME NEW c \in Callers PROVE Reports(execs', calls[c])
    <3>1. calls[c] \in Call /\ calls[c].exec \in {0} \cup DOMAIN execs /\ Reports(execs, calls[c])
      BY DEF RunTypeOK, CallInv, ReportInv
    <3> QED BY <3>1, StillTold DEF RunTypeOK
  <2> QED BY <2>1, <2>2 DEF ReportInv
<1> QED BY <1>1, <1>3, <1>4, <1>5

(* A call goes on as o. *)
LEMMA CallKeeps ==
  ASSUME RunInv, NEW c \in Callers, NEW o \in Call, calls' = [calls EXCEPT ![c] = o],
         o.pc # "idle", calls[c].pc # "idle", o.n = calls[c].n, o.wf = calls[c].wf,
         o.pc = "tool" => o.via = "adapter" /\ ~o.fell,
         execs' \in Seq(Execution), accepted' \in Seq(Execution), Stand(execs, execs'),
         o.exec \in {0} \cup DOMAIN execs',
         NoMore(execs, accepted, execs', accepted', o.n),
         Cardinality(Triggers(execs', accepted', o.n)) <= Budget(o),
         DOMAIN mirror' \subseteq Nat,
         \A i \in DOMAIN mirror' : mirror'[i] \in [wf : Workflows \cup {"none"}, status : RunStatus, rest : BOOLEAN],
         Reports(execs', o), Mirrors(execs', mirror'),
         UNCHANGED <<definition, active, asked, others>>
  PROVE  RunInv'
<1> USE DEF RunInv
<1>1. RunTypeOK'
  BY DEF RunTypeOK
<1>2. /\ DOMAIN execs \subseteq DOMAIN execs'
      /\ calls'[c] = o /\ \A d \in Callers \ {c} : calls'[d] = calls[d]
      /\ \A d \in Callers : calls[d] \in Call
  BY DEF RunTypeOK, Stand
<1>3. \A d \in Callers : calls'[d].n = calls[d].n
  BY <1>2
<1>4. calls[c].n # 0 /\ calls[c].n \in Nat /\ calls[c].n <= asked /\ asked \in Nat
  BY <1>2, CallFields DEF CallInv, At, RunTypeOK
<1>5. CallInv'
  <2>1. ASSUME NEW d \in Callers
        PROVE  /\ calls'[d].pc = "tool" => calls'[d].via = "adapter" /\ ~calls'[d].fell
               /\ calls'[d].exec \in {0} \cup DOMAIN execs'
               /\ calls'[d].pc = "idle" <=> calls'[d].n = 0
               /\ calls'[d].n <= asked
               /\ calls'[d].pc = "idle" \/ calls'[d].wf \in Workflows
    <3>1. CASE d = c
      BY <1>2, <1>4, <3>1 DEF CallInv, At
    <3>2. CASE d # c
      BY <1>2, <3>2 DEF CallInv, At
    <3> QED BY <3>1, <3>2
  <2> QED BY <2>1 DEF CallInv, At
<1>6. NumberInv'
  BY <1>3 DEF NumberInv
<1>7. CountInv'
  <2>1. ASSUME NEW n \in Nat, n = 0 \/ n > asked
        PROVE  Triggers(execs', accepted', n) = {}
    <3>1. n # o.n
      BY <1>4, <2>1
    <3>2. Triggers(execs, accepted, n) = {}
      BY <2>1 DEF CountInv, Triggered
    <3> QED BY <3>1, <3>2 DEF NoMore
  <2>2. ASSUME NEW d \in Callers
        PROVE  Cardinality(Triggers(execs', accepted', calls'[d].n)) <= Budget(calls'[d])
    <3>1. CASE d = c
      BY <1>2, <3>1
    <3>2. CASE d # c
      <4>1. calls[d].n # o.n \/ calls[d].n = 0
        BY <3>2 DEF NumberInv
      <4>2. calls[d].n # o.n
        BY <4>1, <1>4
      <4>3. calls'[d] = calls[d] /\ calls[d].n \in Nat /\ calls[d].n \in Int /\ Budget(calls[d]) \in 0 .. 2
        BY <1>2, <3>2, CallFields
      <4>4. /\ Cardinality(Triggers(execs, accepted, calls[d].n)) <= Budget(calls[d])
            /\ Cardinality(Triggers(execs', accepted', calls[d].n)) <= Cardinality(Triggers(execs, accepted, calls[d].n))
        <5>1. Cardinality(Triggers(execs, accepted, calls[d].n)) <= Budget(calls[d])
          BY DEF CountInv, Triggered
        <5>2. Cardinality(Triggers(execs', accepted', calls[d].n)) <= Cardinality(Triggers(execs, accepted, calls[d].n))
          BY <4>2, <4>3 DEF NoMore
        <5> QED BY <5>1, <5>2
      <4>5. /\ Cardinality(Triggers(execs, accepted, calls[d].n)) \in Nat
            /\ Cardinality(Triggers(execs', accepted', calls[d].n)) \in Nat
        BY <4>3, TriggersFinite DEF RunTypeOK
      <4> QED BY <4>3, <4>4, <4>5
    <3> QED BY <3>1, <3>2
  <2> QED BY <2>1, <2>2 DEF CountInv, Triggered
<1>8. ReportInv'
  <2>1. ASSUME NEW d \in Callers PROVE Reports(execs', calls'[d])
    <3>1. CASE d = c
      BY <1>2, <3>1
    <3>2. CASE d # c
      <4>1. calls[d] \in Call /\ calls[d].exec \in {0} \cup DOMAIN execs /\ Reports(execs, calls[d])
        BY DEF RunTypeOK, CallInv, ReportInv
      <4>2. Reports(execs', calls[d])
        BY <4>1, StillTold DEF RunTypeOK
      <4> QED BY <1>2, <3>2, <4>2
    <3> QED BY <3>1, <3>2
  <2> QED BY <2>1 DEF ReportInv
<1> QED BY <1>1, <1>5, <1>6, <1>7, <1>8

LEMMA NumberFacts ==
  ASSUME RunInv, NEW c \in Callers
  PROVE  /\ calls[c] \in Call /\ calls[c].n \in Nat /\ calls[c].n \in Int /\ calls[c].exec \in {0} \cup DOMAIN execs
         /\ Budget(calls[c]) \in 0 .. 2 /\ Transports(calls[c]) \in {1, 2} /\ Budget(calls[c]) <= Transports(calls[c])
         /\ calls[c].pc # "idle" => calls[c].wf \in Workflows
<1>1. calls[c] \in Call
  BY DEF RunInv, RunTypeOK
<1>2. Budget(calls[c]) \in {0, Transports(calls[c]) - 1, Transports(calls[c])}
  BY DEF Budget
<1> QED BY <1>1, <1>2, CallFields DEF RunInv, CallInv, At

(* Where nothing is triggered a call has what it had. *)
LEMMA NoneTriggered ==
  ASSUME RunInv, NEW c \in Callers
  PROVE  /\ \A m : NoMore(execs, accepted, execs, accepted, m)
         /\ Cardinality(Triggers(execs, accepted, calls[c].n)) <= Budget(calls[c])
         /\ Cardinality(Triggers(execs, accepted, calls[c].n)) \in Nat
         /\ Cardinality(Triggers(execs, accepted, calls[c].n)) <= Transports(calls[c])
         /\ execs \in Seq(Execution) /\ accepted \in Seq(Execution) /\ Stand(execs, execs)
<1>1. execs \in Seq(Execution) /\ accepted \in Seq(Execution)
  BY DEF RunInv, RunTypeOK
<1>2. ASSUME NEW n \in Nat
      PROVE  n \in Int /\ Cardinality(Triggers(execs, accepted, n)) \in Nat
  <2>1. n \in Int
    OBVIOUS
  <2> QED BY <1>1, <2>1, TriggersFinite
<1>3. \A m : NoMore(execs, accepted, execs, accepted, m)
  BY <1>2 DEF NoMore
<1>4. Cardinality(Triggers(execs, accepted, calls[c].n)) <= Budget(calls[c])
  BY DEF RunInv, CountInv, Triggered
<1>5. Cardinality(Triggers(execs, accepted, calls[c].n)) \in Nat
  BY <1>2, NumberFacts
<1>6. Cardinality(Triggers(execs, accepted, calls[c].n)) <= Transports(calls[c])
  BY <1>4, <1>5, NumberFacts
<1> QED BY <1>1, <1>3, <1>4, <1>5, <1>6, SameStand

LEMMA StartedType ==
  ASSUME NEW w \in Workflows, NEW n \in Int
  PROVE  Started(w, n) \in Execution /\ Started(w, n).by = n
BY DEF Started, Execution

(* Where its run is triggered a call has one more. *)
LEMMA OneTriggered ==
  ASSUME RunInv, NEW c \in Callers, NEW x \in Execution, x.by = calls[c].n
  PROVE  /\ NoMore(execs, accepted, Append(execs, x), accepted, calls[c].n)
         /\ NoMore(execs, accepted, execs, Append(accepted, x), calls[c].n)
         /\ Cardinality(Triggers(Append(execs, x), accepted, calls[c].n)) <= Budget(calls[c]) + 1
         /\ Cardinality(Triggers(execs, Append(accepted, x), calls[c].n)) <= Budget(calls[c]) + 1
         /\ Append(execs, x) \in Seq(Execution) /\ Append(accepted, x) \in Seq(Execution)
         /\ Stand(execs, Append(execs, x)) /\ Stand(execs, execs)
<1>1. execs \in Seq(Execution) /\ accepted \in Seq(Execution) /\ calls[c].n \in Nat /\ calls[c].n \in Int
      /\ Budget(calls[c]) \in Nat
  BY NumberFacts, NoneTriggered
<1>2. Append(execs, x) \in Seq(Execution) /\ Append(accepted, x) \in Seq(Execution)
  BY <1>1
<1>3. ASSUME NEW n \in Nat, n # calls[c].n
      PROVE  /\ Cardinality(Triggers(Append(execs, x), accepted, n)) <= Cardinality(Triggers(execs, accepted, n))
             /\ Triggers(execs, accepted, n) = {} => Triggers(Append(execs, x), accepted, n) = {}
             /\ Cardinality(Triggers(execs, Append(accepted, x), n)) <= Cardinality(Triggers(execs, accepted, n))
             /\ Triggers(execs, accepted, n) = {} => Triggers(execs, Append(accepted, x), n) = {}
  <2>1. n \in Int /\ x.by # n
    BY <1>3
  <2> QED BY <1>1, <2>1, TriggersOfRegistered, TriggersOfAccepted
<1>4. /\ NoMore(execs, accepted, Append(execs, x), accepted, calls[c].n)
      /\ NoMore(execs, accepted, execs, Append(accepted, x), calls[c].n)
  BY <1>3 DEF NoMore
<1>5. /\ Cardinality(Triggers(Append(execs, x), accepted, calls[c].n)) \in Nat
      /\ Cardinality(Triggers(execs, Append(accepted, x), calls[c].n)) \in Nat
      /\ Cardinality(Triggers(execs, accepted, calls[c].n)) \in Nat
      /\ Cardinality(Triggers(execs, accepted, calls[c].n)) <= Budget(calls[c])
  BY <1>1, <1>2, TriggersFinite, NoneTriggered
<1>6. /\ Cardinality(Triggers(Append(execs, x), accepted, calls[c].n)) <= Cardinality(Triggers(execs, accepted, calls[c].n)) + 1
      /\ Cardinality(Triggers(execs, Append(accepted, x), calls[c].n)) <= Cardinality(Triggers(execs, accepted, calls[c].n)) + 1
  BY <1>1, TriggersOfRegistered, TriggersOfAccepted
<1>7. /\ Cardinality(Triggers(Append(execs, x), accepted, calls[c].n)) <= Budget(calls[c]) + 1
      /\ Cardinality(Triggers(execs, Append(accepted, x), calls[c].n)) <= Budget(calls[c]) + 1
  BY <1>1, <1>5, <1>6
<1> QED BY <1>1, <1>2, <1>4, <1>7, MoreStand, SameStand

(* A call goes on, and has not returned. *)
LEMMA GoesOn ==
  ASSUME RunInv, NEW c \in Callers, NEW o \in Call, calls' = [calls EXCEPT ![c] = o],
         o.pc \notin {"idle", "tool", "done"}, calls[c].pc # "idle", o.n = calls[c].n, o.wf = calls[c].wf,
         execs' \in Seq(Execution), accepted' \in Seq(Execution), Stand(execs, execs'),
         o.exec \in {0} \cup DOMAIN execs',
         NoMore(execs, accepted, execs', accepted', o.n),
         Cardinality(Triggers(execs', accepted', o.n)) <= Budget(o),
         UNCHANGED <<definition, active, asked, others, mirror>>
  PROVE  RunInv'
<1>1. Reports(execs', o)
  BY DEF Reports
<1>2. Mirrors(execs', mirror')
  BY StillTold DEF RunInv, RunTypeOK, ReportInv
<1>3. /\ DOMAIN mirror' \subseteq Nat
      /\ \A i \in DOMAIN mirror' : mirror'[i] \in [wf : Workflows \cup {"none"}, status : RunStatus, rest : BOOLEAN]
  BY DEF RunInv, RunTypeOK
<1> QED BY <1>1, <1>2, <1>3, CallKeeps

LEMMA FailsKeeps ==
  ASSUME RunInv, NEW c \in Callers, Fails(c), calls[c].pc # "idle",
         execs' \in Seq(Execution), accepted' \in Seq(Execution), Stand(execs, execs'),
         NoMore(execs, accepted, execs', accepted', calls[c].n),
         Cardinality(Triggers(execs', accepted', calls[c].n)) <= Transports(calls[c]),
         UNCHANGED <<definition, active, asked, others>>
  PROVE  RunInv'
<1> DEFINE o == [calls[c] EXCEPT !.pc = "failed", !.path = NoPath, !.tries = 0, !.exec = 0]
<1>1. calls' = [calls EXCEPT ![c] = o] /\ UNCHANGED mirror
  BY DEF Fails
<1>2. calls[c] \in Call
  BY NumberFacts
<1>3. /\ o \in Call /\ o.pc = "failed" /\ o.n = calls[c].n /\ o.wf = calls[c].wf /\ o.exec = 0 /\ o.fell = calls[c].fell
  BY <1>2 DEF Call, Places
<1> HIDE DEF o
<1>4. Budget(o) = Transports(calls[c])
  BY <1>3 DEF Budget, Transports
<1> QED BY <1>1, <1>3, <1>4, GoesOn

LEMMA ReturnsKeeps ==
  ASSUME RunInv, NEW c \in Callers, NEW id \in Nat, NEW status \in RunStatus,
         Returns(c, id, status), calls[c].pc # "idle",
         ~At(c, "tool") => TellsOf(execs', id, calls[c].wf, status),
         ~At(c, "tool") /\ calls[c].exec # 0 /\ execs'[calls[c].exec].wf = calls[c].wf => id >= calls[c].exec,
         execs' \in Seq(Execution), accepted' \in Seq(Execution), Stand(execs, execs'),
         NoMore(execs, accepted, execs', accepted', calls[c].n),
         Cardinality(Triggers(execs', accepted', calls[c].n)) <= Transports(calls[c]),
         UNCHANGED <<definition, active, asked, others>>
  PROVE  RunInv'
<1> DEFINE o == [calls[c] EXCEPT !.pc = "done", !.path = NoPath, !.tries = 0, !.id = id, !.status = status]
           run == [wf |-> calls[c].wf, status |-> status, rest |-> ~At(c, "tool")]
<1>1. calls' = [calls EXCEPT ![c] = o]
  BY DEF Returns
<1>2. calls[c] \in Call /\ calls[c].exec \in {0} \cup DOMAIN execs /\ calls[c].wf \in Workflows
  BY NumberFacts
<1>3. /\ o \in Call /\ o.pc = "done" /\ o.n = calls[c].n /\ o.wf = calls[c].wf /\ o.exec = calls[c].exec
      /\ o.fell = calls[c].fell /\ o.via = calls[c].via /\ o.id = id /\ o.status = status
  BY <1>2 DEF Call, Places
<1>4. /\ run \in [wf : Workflows \cup {"none"}, status : RunStatus, rest : BOOLEAN]
      /\ run.rest => TellsOf(execs', id, run.wf, run.status)
  BY <1>2 DEF At
<1>5. \/ mirror' = mirror
      \/ mirror' = [i \in DOMAIN mirror \cup {id} |-> IF i = id THEN run ELSE mirror[i]]
  BY DEF Returns
<1> HIDE DEF o, run
<1>6. Budget(o) = Transports(calls[c])
  BY <1>3 DEF Budget, Transports
<1>7. Reports(execs', o)
  <2>1. CASE At(c, "tool")
    <3>1. o.via = "adapter" /\ ~o.fell
      BY <1>3, <2>1 DEF RunInv, CallInv
    <3> QED BY <3>1 DEF Reports
  <2>2. CASE ~At(c, "tool")
    BY <1>3, <2>2 DEF Reports
  <2> QED BY <2>1, <2>2
<1>8. Mirrors(execs', mirror)
  BY StillTold DEF RunInv, RunTypeOK, ReportInv
<1>9. ASSUME NEW i \in DOMAIN mirror'
      PROVE  /\ i \in Nat
             /\ mirror'[i] \in [wf : Workflows \cup {"none"}, status : RunStatus, rest : BOOLEAN]
             /\ mirror'[i].rest => TellsOf(execs', i, mirror'[i].wf, mirror'[i].status)
  <2>1. CASE i \in DOMAIN mirror /\ mirror'[i] = mirror[i]
    BY <1>8, <2>1 DEF RunInv, RunTypeOK, Mirrors
  <2>2. CASE i = id /\ mirror'[i] = run
    BY <1>4, <2>2
  <2>3. \/ (i \in DOMAIN mirror /\ mirror'[i] = mirror[i])
        \/ (i = id /\ mirror'[i] = run)
    BY <1>5, <1>9
  <2> QED BY <2>1, <2>2, <2>3
<1>10. Mirrors(execs', mirror')
  BY <1>9 DEF Mirrors
<1>11. o.exec \in {0} \cup DOMAIN execs'
  BY <1>2, <1>3 DEF Stand
<1> QED BY <1>1, <1>3, <1>6, <1>7, <1>9, <1>10, <1>11, CallKeeps

LEMMA NoCallType == NoCall \in Call
<1>1. NoPath \in Paths \cup {NoPath} /\ 0 \in Nat /\ "none" \in Workflows \cup {"none"} /\ "none" \in RunStatus \cup {"none"}
  OBVIOUS
<1>2. "idle" \in Places /\ FALSE \in BOOLEAN
  BY DEF Places
<1> QED BY <1>1, <1>2 DEF NoCall, Call

LEMMA RunKeeps ==
  ASSUME RunInv, NEW c \in Callers, NEW w \in Workflows, NEW via \in {"runner", "connector", "adapter"},
         RunWorkflow(c, w, via)
  PROVE  RunInv'
<1> USE DEF RunInv
<1> DEFINE pc == CASE via = "connector" -> "probe" [] via = "adapter" -> "tool" [] OTHER -> "get"
           o == [NoCall EXCEPT !.wf = w, !.via = via, !.n = asked + 1, !.pc = pc]
<1>1. /\ calls' = [calls EXCEPT ![c] = o] /\ asked' = asked + 1
      /\ UNCHANGED <<definition, active, execs, accepted, mirror, others>>
  BY DEF RunWorkflow, n8n
<1>2. /\ o \in Call /\ o.pc \in {"probe", "tool", "get"} /\ o.n = asked + 1 /\ o.wf = w /\ o.exec = 0 /\ o.fell = FALSE
      /\ o.pc = "tool" => o.via = "adapter"
  <2>1. asked + 1 \in Nat /\ NoPath \in Paths \cup {NoPath}
    BY DEF RunTypeOK
  <2>2. NoCall \in [pc : {"idle"}, via : {"runner"}, wf : {"none"}, path : {NoPath}, tries : {0}, exec : {0},
                    fell : {FALSE}, n : {0}, id : {0}, status : {"none"}]
    BY DEF NoCall
  <2>3. pc \in {"probe", "tool", "get"} /\ (pc = "tool" => via = "adapter")
    OBVIOUS
  <2> HIDE DEF pc
  <2>4. /\ o.pc = pc
        /\ o.n = asked + 1 /\ o.wf = w /\ o.exec = 0 /\ o.fell = FALSE /\ o.via = via
    BY <2>2
  <2>5. o \in Call
    <3>1. NoCall \in Call
      BY NoCallType
    <3>2. w \in Workflows \cup {"none"} /\ pc \in Places
      BY <2>3 DEF Places
    <3>3. o = [NoCall EXCEPT !.wf = w, !.via = via, !.n = asked + 1, !.pc = pc]
      OBVIOUS
    <3> HIDE DEF o
    <3> QED BY <2>1, <3>1, <3>2, <3>3 DEF Call
  <2> QED BY <2>3, <2>4, <2>5
<1> HIDE DEF o
<1>3. RunTypeOK'
  BY <1>1, <1>2 DEF RunTypeOK
<1>4. /\ calls'[c] = o /\ \A d \in Callers \ {c} : calls'[d] = calls[d]
      /\ \A d \in Callers : calls[d].n \in Nat /\ calls[d].n <= asked
      /\ asked \in Nat
  BY <1>1, NumberFacts DEF RunTypeOK, CallInv
<1>5. CallInv'
  <2>1. ASSUME NEW d \in Callers
        PROVE  /\ calls'[d].pc = "tool" => calls'[d].via = "adapter" /\ ~calls'[d].fell
               /\ calls'[d].exec \in {0} \cup DOMAIN execs
               /\ calls'[d].pc = "idle" <=> calls'[d].n = 0
               /\ calls'[d].n <= asked + 1
               /\ calls'[d].pc = "idle" \/ calls'[d].wf \in Workflows
    <3>1. CASE d = c
      BY <1>2, <1>4, <3>1
    <3>2. CASE d # c
      BY <1>4, <3>2 DEF CallInv, At
    <3> QED BY <3>1, <3>2
  <2> QED BY <1>1, <2>1 DEF CallInv, At
<1>6. NumberInv'
  <2>1. \A d \in Callers \ {c} : calls'[d].n = calls[d].n /\ calls[d].n # asked + 1
    BY <1>4
  <2>2. calls'[c].n = asked + 1
    BY <1>2, <1>4
  <2> QED BY <2>1, <2>2 DEF NumberInv
<1>7. CountInv'
  <2>1. Triggers(execs, accepted, asked + 1) = {}
    BY <1>4 DEF CountInv, Triggered
  <2>2. ASSUME NEW d \in Callers
        PROVE  Cardinality(Triggers(execs, accepted, calls'[d].n)) <= Budget(calls'[d])
    <3>1. CASE d = c
      <4>1. Cardinality({}) = 0
        BY FS_EmptySet
      <4>2. Budget(o) = 0
        BY <1>2 DEF Budget, Transports
      <4> QED BY <1>2, <1>4, <2>1, <3>1, <4>1, <4>2
    <3>2. CASE d # c
      BY <1>4, <3>2 DEF CountInv, Triggered
    <3> QED BY <3>1, <3>2
  <2>3. ASSUME NEW n \in Nat, n = 0 \/ n > asked + 1
        PROVE  Triggers(execs, accepted, n) = {}
    <3>1. n = 0 \/ n > asked
      BY <1>4, <2>3
    <3> QED BY <3>1 DEF CountInv, Triggered
  <2> QED BY <1>1, <2>2, <2>3 DEF CountInv, Triggered
<1>8. ReportInv'
  <2>1. ASSUME NEW d \in Callers PROVE Reports(execs, calls'[d])
    <3>1. CASE d = c
      BY <1>2, <1>4, <3>1 DEF Reports
    <3>2. CASE d # c
      BY <1>4, <3>2 DEF ReportInv
    <3> QED BY <3>1, <3>2
  <2> QED BY <1>1, <2>1 DEF ReportInv
<1> QED BY <1>3, <1>5, <1>6, <1>7, <1>8

(* A step of a call that triggers nothing and only goes elsewhere. *)
LEMMA GoKeeps ==
  ASSUME RunInv, NEW c \in Callers, NEW o \in Call, calls' = [calls EXCEPT ![c] = o],
         o.pc \notin {"idle", "tool", "done"}, calls[c].pc # "idle", o.n = calls[c].n, o.wf = calls[c].wf,
         o.exec = calls[c].exec, Budget(calls[c]) <= Budget(o),
         UNCHANGED <<definition, active, execs, accepted, asked, others, mirror>>
  PROVE  RunInv'
<1>1. Cardinality(Triggers(execs', accepted', o.n)) <= Budget(o)
  <2>1. /\ Cardinality(Triggers(execs, accepted, calls[c].n)) <= Budget(calls[c])
        /\ Cardinality(Triggers(execs, accepted, calls[c].n)) \in Nat
    BY NoneTriggered
  <2> QED BY <2>1, CallFields, NumberFacts
<1> QED BY <1>1, NoneTriggered, NumberFacts, GoesOn

LEMMA QuietlyFails ==
  ASSUME RunInv, NEW c \in Callers, Fails(c), calls[c].pc # "idle",
         UNCHANGED <<definition, active, execs, accepted, asked, others>>
  PROVE  RunInv'
BY NoneTriggered, FailsKeeps

LEMMA ProbeKeeps == ASSUME RunInv, NEW c \in Callers, Probe(c) PROVE RunInv'
<1>1. calls[c] \in Call /\ calls[c].pc = "probe"
  BY NumberFacts DEF Probe, At
<1>2. UNCHANGED <<definition, active, execs, accepted, asked, others>>
  BY DEF Probe, n8n
<1> DEFINE go == [calls[c] EXCEPT !.pc = "get"]
           again == [calls[c] EXCEPT !.tries = calls[c].tries + 1]
<1>3. CASE calls' = [calls EXCEPT ![c] = go] /\ UNCHANGED mirror
  <2>1. /\ go \in Call /\ go.pc = "get" /\ go.n = calls[c].n /\ go.wf = calls[c].wf /\ go.exec = calls[c].exec
        /\ go.fell = calls[c].fell
    BY <1>1 DEF Call, Places
  <2>2. Budget(calls[c]) = 0 /\ Budget(go) \in 0 .. 2
    BY <1>1, <2>1, CallFields DEF Budget
  <2> HIDE DEF go
  <2>3. Budget(calls[c]) <= Budget(go) /\ UNCHANGED <<definition, active, execs, accepted, asked, others, mirror>>
    BY <1>2, <1>3, <2>2
  <2>4. go.pc \notin {"idle", "tool", "done"} /\ calls[c].pc # "idle"
    BY <1>1, <2>1
  <2> QED BY <1>3, <2>1, <2>3, <2>4, GoKeeps
<1>4. CASE calls' = [calls EXCEPT ![c] = again] /\ UNCHANGED mirror
  <2>1. /\ again \in Call /\ again.pc = "probe" /\ again.n = calls[c].n /\ again.wf = calls[c].wf
        /\ again.exec = calls[c].exec /\ again.fell = calls[c].fell
    BY <1>1 DEF Call, Places
  <2>2. Budget(calls[c]) = 0 /\ Budget(again) \in 0 .. 2
    BY <1>1, <2>1, CallFields DEF Budget
  <2> HIDE DEF again
  <2>3. Budget(calls[c]) <= Budget(again) /\ UNCHANGED <<definition, active, execs, accepted, asked, others, mirror>>
    BY <1>2, <1>4, <2>2
  <2>4. again.pc \notin {"idle", "tool", "done"} /\ calls[c].pc # "idle"
    BY <1>1, <2>1
  <2> QED BY <1>4, <2>1, <2>3, <2>4, GoKeeps
<1>5. CASE Fails(c)
  BY <1>1, <1>2, <1>5, QuietlyFails
<1>6. \/ (calls' = [calls EXCEPT ![c] = go] /\ UNCHANGED mirror)
      \/ (calls' = [calls EXCEPT ![c] = again] /\ UNCHANGED mirror)
      \/ Fails(c)
  BY DEF Probe, Go
<1> QED BY <1>3, <1>4, <1>5, <1>6

LEMMA GetKeeps == ASSUME RunInv, NEW c \in Callers, GetWorkflow(c) PROVE RunInv'
<1>1. calls[c] \in Call /\ calls[c].pc = "get" /\ calls[c].wf \in Workflows
  BY NumberFacts DEF GetWorkflow, At
<1>2. UNCHANGED <<definition, active, execs, accepted, asked, others>>
  BY DEF GetWorkflow, n8n
<1> DEFINE p == extract_webhook_path(definition[calls[c].wf].nodes)
           o == [calls[c] EXCEPT !.pc = "post", !.path = p]
<1>3. p \in Paths \cup {NoPath}
  <2>1. definition[calls[c].wf] \in Definition
    BY <1>1, DefinitionAssumption DEF RunInv, RunTypeOK
  <2>2. definition[calls[c].wf].nodes \in Seq(Node)
    BY <2>1 DEF Definition
  <2> QED BY <2>2, PathType
<1>4. (calls' = [calls EXCEPT ![c] = o] /\ UNCHANGED mirror) \/ Fails(c)
  BY DEF GetWorkflow
<1> HIDE DEF p
<1>5. CASE calls' = [calls EXCEPT ![c] = o] /\ UNCHANGED mirror
  <2>1. /\ o \in Call /\ o.pc = "post" /\ o.n = calls[c].n /\ o.wf = calls[c].wf /\ o.exec = calls[c].exec
        /\ o.fell = calls[c].fell
    BY <1>1, <1>3 DEF Call, Places
  <2>2. Budget(calls[c]) = Budget(o) /\ Budget(o) \in 0 .. 2
    BY <1>1, <2>1, CallFields DEF Budget, Transports
  <2> HIDE DEF o
  <2>3. Budget(calls[c]) <= Budget(o) /\ UNCHANGED <<definition, active, execs, accepted, asked, others, mirror>>
    BY <1>2, <1>5, <2>2
  <2>4. o.pc \notin {"idle", "tool", "done"} /\ calls[c].pc # "idle"
    BY <1>1, <2>1
  <2> QED BY <1>5, <2>1, <2>3, <2>4, GoKeeps
<1>6. CASE Fails(c)
  BY <1>1, <1>2, <1>6, QuietlyFails
<1> QED BY <1>4, <1>5, <1>6

LEMMA PostKeeps == ASSUME RunInv, NEW c \in Callers, PostWebhook(c) PROVE RunInv'
<1>1. calls[c] \in Call /\ calls[c].pc = "post" /\ Budget(calls[c]) + 1 = Transports(calls[c]) /\ calls[c].n \in Int
  <2>1. calls[c] \in Call /\ calls[c].pc = "post" /\ Transports(calls[c]) \in {1, 2}
    BY NumberFacts DEF PostWebhook, At
  <2>2. Budget(calls[c]) = Transports(calls[c]) - 1
    BY <2>1 DEF Budget
  <2> QED BY <2>1, <2>2, NumberFacts
<1>2. UNCHANGED <<asked, others>>
  BY DEF PostWebhook
<1>3. CASE Fails(c) /\ UNCHANGED n8n
  BY <1>1, <1>2, <1>3, QuietlyFails DEF n8n
<1>4. ASSUME NEW w \in Serving(calls[c].path),
             accepted' = Append(accepted, Started(w, calls[c].n)),
             (calls' = [calls EXCEPT ![c].pc = "poll", ![c].tries = 0] /\ UNCHANGED mirror) \/ Fails(c),
             UNCHANGED <<definition, active, execs>>
      PROVE  RunInv'
  <2> DEFINE x == Started(w, calls[c].n)
             o == [calls[c] EXCEPT !.pc = "poll", !.tries = 0]
  <2>1. x \in Execution /\ x.by = calls[c].n
    <3>1. w \in Workflows
      BY <1>4 DEF Serving, RunInv, RunTypeOK
    <3> QED BY <1>1, <3>1, StartedType
  <2> HIDE DEF x
  <2>2. accepted' = Append(accepted, x)
    BY <1>4 DEF x
  <2>3. /\ execs' \in Seq(Execution) /\ accepted' \in Seq(Execution) /\ Stand(execs, execs')
        /\ NoMore(execs, accepted, execs', accepted', calls[c].n)
        /\ Cardinality(Triggers(execs', accepted', calls[c].n)) <= Transports(calls[c])
    BY <1>1, <1>4, <2>1, <2>2, OneTriggered, NoneTriggered
  <2>4. CASE Fails(c)
    BY <1>1, <1>2, <1>4, <2>3, <2>4, FailsKeeps
  <2>5. CASE calls' = [calls EXCEPT ![c].pc = "poll", ![c].tries = 0] /\ UNCHANGED mirror
    <3>1. calls' = [calls EXCEPT ![c] = o] /\ UNCHANGED mirror
      BY <2>5
    <3>2. /\ o \in Call /\ o.pc = "poll" /\ o.n = calls[c].n /\ o.wf = calls[c].wf /\ o.exec = calls[c].exec
          /\ o.fell = calls[c].fell
      BY <1>1 DEF Call, Places
    <3>3. Budget(o) = Transports(calls[c])
      BY <3>2 DEF Budget, Transports
    <3>4. o.exec \in {0} \cup DOMAIN execs'
      BY <1>4, <3>2, NumberFacts
    <3> HIDE DEF o
    <3> QED BY <1>1, <1>2, <1>4, <2>3, <3>1, <3>2, <3>3, <3>4, GoesOn
  <2> QED BY <1>4, <2>4, <2>5
<1>5. ASSUME NEW w \in Serving(calls[c].path),
             execs' = Append(execs, Started(w, calls[c].n)),
             calls' = [calls EXCEPT ![c].pc = "blocked", ![c].exec = Len(execs) + 1],
             UNCHANGED <<definition, active, accepted, mirror>>
      PROVE  RunInv'
  <2> DEFINE x == Started(w, calls[c].n)
             o == [calls[c] EXCEPT !.pc = "blocked", !.exec = Len(execs) + 1]
  <2>1. x \in Execution /\ x.by = calls[c].n
    <3>1. w \in Workflows
      BY <1>5 DEF Serving, RunInv, RunTypeOK
    <3> QED BY <1>1, <3>1, StartedType
  <2> HIDE DEF x
  <2>2. execs' = Append(execs, x)
    BY <1>5 DEF x
  <2>3. /\ execs' \in Seq(Execution) /\ accepted' \in Seq(Execution) /\ Stand(execs, execs')
        /\ NoMore(execs, accepted, execs', accepted', calls[c].n)
        /\ Cardinality(Triggers(execs', accepted', calls[c].n)) <= Transports(calls[c])
    BY <1>1, <1>5, <2>1, <2>2, OneTriggered, NoneTriggered
  <2>4. Len(execs) + 1 \in Nat /\ Len(execs) + 1 \in DOMAIN execs'
    BY <2>1, <2>2, NoneTriggered
  <2>5. calls' = [calls EXCEPT ![c] = o]
    BY <1>5
  <2>6. /\ o \in Call /\ o.pc = "blocked" /\ o.n = calls[c].n /\ o.wf = calls[c].wf /\ o.exec = Len(execs) + 1
        /\ o.fell = calls[c].fell
    BY <1>1, <2>4 DEF Call, Places
  <2>7. Budget(o) = Transports(calls[c])
    BY <2>6 DEF Budget, Transports
  <2> HIDE DEF o
  <2> QED BY <1>1, <1>2, <1>5, <2>3, <2>4, <2>5, <2>6, <2>7, GoesOn
<1> QED BY <1>3, <1>4, <1>5 DEF PostWebhook

LEMMA AnswersKeep == ASSUME RunInv, NEW c \in Callers, WebhookAnswers(c) PROVE RunInv'
<1>1. calls[c] \in Call /\ calls[c].pc = "blocked"
  BY NumberFacts DEF WebhookAnswers, At
<1>2. UNCHANGED <<definition, active, execs, accepted, asked, others>>
  BY DEF WebhookAnswers, n8n
<1> DEFINE o == [calls[c] EXCEPT !.pc = "query"]
<1>3. CASE calls' = [calls EXCEPT ![c] = o] /\ UNCHANGED mirror
  <2>1. /\ o \in Call /\ o.pc = "query" /\ o.n = calls[c].n /\ o.wf = calls[c].wf /\ o.exec = calls[c].exec
        /\ o.fell = calls[c].fell
    BY <1>1 DEF Call, Places
  <2>2. Budget(calls[c]) = Budget(o) /\ Budget(o) \in 0 .. 2
    BY <1>1, <2>1, CallFields DEF Budget, Transports
  <2> HIDE DEF o
  <2>3. Budget(calls[c]) <= Budget(o) /\ UNCHANGED <<definition, active, execs, accepted, asked, others, mirror>>
    BY <1>2, <1>3, <2>2
  <2>4. o.pc \notin {"idle", "tool", "done"} /\ calls[c].pc # "idle"
    BY <1>1, <2>1
  <2> QED BY <1>3, <2>1, <2>3, <2>4, GoKeeps
<1>4. CASE Fails(c)
  BY <1>1, <1>2, <1>4, QuietlyFails
<1>5. (calls' = [calls EXCEPT ![c] = o] /\ UNCHANGED mirror) \/ Fails(c)
  BY DEF WebhookAnswers, Go
<1> QED BY <1>3, <1>4, <1>5

(* What is listed first is reported. *)
LEMMA LatestIsTold ==
  ASSUME RunInv, NEW c \in Callers, calls[c].pc \notin {"idle", "tool"},
         NEW i, i = parse_latest_execution(calls[c].wf), i # 0, Returns(c, i, map_status(execs[i].status)),
         UNCHANGED <<definition, active, execs, accepted, asked, others>>
  PROVE  RunInv'
<1>1. execs \in Seq(Execution) /\ calls[c].exec \in {0} \cup DOMAIN execs
  BY NumberFacts, NoneTriggered
<1>2. i \in DOMAIN execs /\ execs[i].wf = calls[c].wf /\ \A j \in DOMAIN execs : execs[j].wf = calls[c].wf => j <= i
  BY <1>1, LatestFacts
<1>3. i \in Nat /\ map_status(execs[i].status) \in RunStatus
  BY <1>1, <1>2, StatusType
<1>4. TellsOf(execs', i, calls[c].wf, map_status(execs[i].status))
  BY <1>2 DEF TellsOf
<1>5. calls[c].exec # 0 /\ execs'[calls[c].exec].wf = calls[c].wf => i >= calls[c].exec
  BY <1>1, <1>2
<1> QED BY <1>3, <1>4, <1>5, NoneTriggered, ReturnsKeeps

LEMMA QueryKeeps == ASSUME RunInv, NEW c \in Callers, QueryOnce(c) PROVE RunInv'
<1>1. calls[c].pc = "query" /\ UNCHANGED <<definition, active, execs, accepted, asked, others>>
  BY DEF QueryOnce, At, n8n
<1>2. CASE Fails(c)
  BY <1>1, <1>2, QuietlyFails
<1>3. ASSUME NEW i, i = parse_latest_execution(calls[c].wf), i # 0, Returns(c, i, map_status(execs[i].status))
      PROVE  RunInv'
  BY <1>1, <1>3, LatestIsTold
<1> QED BY <1>2, <1>3 DEF QueryOnce

LEMMA PollKeeps == ASSUME RunInv, NEW c \in Callers, Poll(c) PROVE RunInv'
<1>1. calls[c].pc = "poll" /\ UNCHANGED <<definition, active, execs, accepted, asked, others>>
  BY DEF Poll, At, n8n
<1>2. CASE Fails(c)
  BY <1>1, <1>2, QuietlyFails
<1>3. ASSUME NEW i, i = parse_latest_execution(calls[c].wf), i # 0, Returns(c, i, map_status(execs[i].status))
      PROVE  RunInv'
  BY <1>1, <1>3, LatestIsTold
<1> DEFINE o == [calls[c] EXCEPT !.tries = calls[c].tries + 1]
<1>4. CASE calls' = [calls EXCEPT ![c] = o] /\ UNCHANGED mirror
  <2>1. /\ o \in Call /\ o.pc = "poll" /\ o.n = calls[c].n /\ o.wf = calls[c].wf /\ o.exec = calls[c].exec
        /\ o.fell = calls[c].fell
    BY <1>1, NumberFacts DEF Call, Places
  <2>2. Budget(calls[c]) = Budget(o) /\ Budget(o) \in 0 .. 2
    BY <1>1, <2>1, CallFields DEF Budget, Transports
  <2> HIDE DEF o
  <2>3. Budget(calls[c]) <= Budget(o) /\ UNCHANGED <<definition, active, execs, accepted, asked, others, mirror>>
    BY <1>1, <1>4, <2>2
  <2>4. o.pc \notin {"idle", "tool", "done"} /\ calls[c].pc # "idle"
    BY <1>1, <2>1
  <2> QED BY <1>4, <2>1, <2>3, <2>4, GoKeeps
<1> QED BY <1>2, <1>3, <1>4 DEF Poll

LEMMA ToolKeeps == ASSUME RunInv, NEW c \in Callers, CallTool(c) PROVE RunInv'
<1>1. /\ calls[c] \in Call /\ calls[c].pc = "tool" /\ calls[c].fell = FALSE /\ calls[c].wf \in Workflows
      /\ calls[c].n \in Int /\ At(c, "tool")
  <2>1. calls[c].pc = "tool" /\ At(c, "tool")
    BY DEF CallTool, At
  <2>2. calls[c].fell = FALSE
    BY <2>1 DEF RunInv, CallInv
  <2> QED BY <2>1, <2>2, NumberFacts
<1>2. Budget(calls[c]) = 0 /\ Transports(calls[c]) = 1
  BY <1>1 DEF Budget, Transports
<1>3. UNCHANGED <<definition, active, accepted, asked, others>>
  BY DEF CallTool
<1> DEFINE x == Started(calls[c].wf, calls[c].n)
           o == [calls[c] EXCEPT !.pc = "get", !.fell = TRUE]
<1>4. x \in Execution /\ x.by = calls[c].n
  BY <1>1, StartedType
<1>5. execs' = execs \/ execs' = Append(execs, x)
  BY DEF CallTool
<1> HIDE DEF x
<1>6. /\ execs' \in Seq(Execution) /\ accepted' \in Seq(Execution) /\ Stand(execs, execs')
      /\ NoMore(execs, accepted, execs', accepted', calls[c].n)
      /\ Cardinality(Triggers(execs', accepted', calls[c].n)) <= 1
  <2>1. CASE execs' = execs
    <3>1. Cardinality(Triggers(execs', accepted', calls[c].n)) <= 1
      BY <1>2, <1>3, <2>1, NoneTriggered
    <3> QED BY <1>3, <2>1, <3>1, NoneTriggered
  <2>2. CASE execs' = Append(execs, x)
    BY <1>2, <1>3, <1>4, <2>2, OneTriggered, NoneTriggered
  <2> QED BY <1>5, <2>1, <2>2
<1>7. CASE Fails(c)
  BY <1>1, <1>2, <1>3, <1>6, <1>7, FailsKeeps
<1>8. ASSUME NEW id \in {0, Len(execs) + 1}, Returns(c, id, "Success")
      PROVE  RunInv'
  <2>1. id \in Nat /\ "Success" \in RunStatus
    BY NoneTriggered DEF RunStatus
  <2> QED BY <1>1, <1>2, <1>3, <1>6, <1>8, <2>1, ReturnsKeeps
<1>9. CASE calls' = [calls EXCEPT ![c].pc = "get", ![c].fell = TRUE] /\ UNCHANGED mirror
  <2>1. calls' = [calls EXCEPT ![c] = o]
    BY <1>9
  <2>2. /\ o \in Call /\ o.pc = "get" /\ o.n = calls[c].n /\ o.wf = calls[c].wf /\ o.exec = calls[c].exec
        /\ o.fell = TRUE
    BY <1>1 DEF Call, Places
  <2>3. Budget(o) = 1
    BY <2>2 DEF Budget, Transports
  <2>4. o.exec \in {0} \cup DOMAIN execs'
    BY <1>6, <2>2, NumberFacts DEF Stand
  <2> HIDE DEF o
  <2>5. UNCHANGED <<definition, active, asked, others, mirror>>
    BY <1>3, <1>9
  <2>6. o.pc \notin {"idle", "tool", "done"} /\ calls[c].pc # "idle"
    BY <1>1, <2>2
  <2> QED BY <1>6, <2>1, <2>2, <2>3, <2>4, <2>5, <2>6, GoesOn
<1> QED BY <1>7, <1>8, <1>9 DEF CallTool

-----------------------------------------------------------------------------
(* n8n and its users. *)

LEMMA SameOfOthers ==
  ASSUME RunInv, definition' \in [Workflows -> Definitions], active' \subseteq Workflows, others' \in Nat,
         UNCHANGED <<execs, accepted, calls, mirror, asked>>
  PROVE  RunInv'
<1>1. execs \in Seq(Execution) /\ accepted \in Seq(Execution)
  BY DEF RunInv, RunTypeOK
<1>2. NoMore(execs, accepted, execs, accepted, Others)
  <2>1. ASSUME NEW n \in Nat
        PROVE  Cardinality(Triggers(execs, accepted, n)) \in Nat
    <3>1. n \in Int
      OBVIOUS
    <3> QED BY <1>1, <3>1, TriggersFinite
  <2> QED BY <2>1 DEF NoMore
<1> QED BY <1>1, <1>2, SameStand, OthersKeep

LEMMA RegistersKeep == RunInv /\ Registers => RunInv'
<1> SUFFICES ASSUME RunInv, Registers PROVE RunInv'
  OBVIOUS
<1>1. /\ execs \in Seq(Execution) /\ accepted \in Seq(Execution) /\ accepted # <<>>
      /\ definition \in [Workflows -> Definitions] /\ active \subseteq Workflows /\ others \in Nat
  BY DEF RunInv, RunTypeOK, Registers
<1>2. Head(accepted) \in Execution /\ Tail(accepted) \in Seq(Execution)
  BY <1>1
<1>3. UNCHANGED <<definition, active, calls, mirror, asked, others>> /\ accepted' = Tail(accepted)
  BY DEF Registers
<1>4. execs' = Append(execs, Head(accepted)) \/ execs' = execs
  BY DEF Registers
<1>5. execs' \in Seq(Execution) /\ Stand(execs, execs')
  BY <1>1, <1>2, <1>4, MoreStand, SameStand
<1>6. NoMore(execs, accepted, execs', accepted', Others)
  <2>1. ASSUME NEW n \in Nat
        PROVE  /\ Cardinality(Triggers(execs', accepted', n)) <= Cardinality(Triggers(execs, accepted, n))
               /\ Triggers(execs, accepted, n) = {} => Triggers(execs', accepted', n) = {}
    <3>1. n \in Int /\ Cardinality(Triggers(execs, accepted, n)) \in Nat
      <4>1. n \in Int
        OBVIOUS
      <4> QED BY <1>1, <4>1, TriggersFinite
    <3>2. CASE execs' = Append(execs, Head(accepted))
      <4>1. Triggers(execs', accepted', n) = Triggers(execs, accepted, n)
        BY <1>1, <1>3, <3>1, <3>2, TriggersOfTail
      <4> QED BY <3>1, <4>1
    <3>3. CASE execs' = execs
      BY <1>1, <1>3, <3>1, <3>3, TriggersOfTail
    <3> QED BY <1>4, <3>2, <3>3
  <2> QED BY <2>1 DEF NoMore
<1>7. accepted' \in Seq(Execution) /\ definition' \in [Workflows -> Definitions] /\ active' \subseteq Workflows /\ others' \in Nat
  BY <1>1, <1>2, <1>3
<1> QED BY <1>3, <1>5, <1>6, <1>7, OthersKeep

LEMMA ProceedsKeeps == ASSUME RunInv, NEW i \in DOMAIN execs, Proceeds(i) PROVE RunInv'
<1>1. /\ execs \in Seq(Execution) /\ accepted \in Seq(Execution) /\ execs[i] \in Execution
      /\ definition \in [Workflows -> Definitions] /\ active \subseteq Workflows /\ others \in Nat
  BY DEF RunInv, RunTypeOK
<1>2. PICK s \in {"waiting"} \cup Endings : execs' = [execs EXCEPT ![i].status = s]
  BY DEF Proceeds
<1> DEFINE x == [execs[i] EXCEPT !.status = s]
<1>3. x \in Execution /\ x.wf = execs[i].wf /\ x.by = execs[i].by
  BY <1>1 DEF Execution
<1>4. execs' = [execs EXCEPT ![i] = x]
  BY <1>2
<1> HIDE DEF x
<1>5. /\ execs' \in Seq(Execution) /\ Len(execs') = Len(execs) /\ execs'[i] = x
      /\ \A j \in DOMAIN execs \ {i} : execs'[j] = execs[j]
  BY <1>1, <1>3, <1>4
<1>6. execs[i].status \in {"running", "waiting"}
  BY DEF Proceeds
<1>7. Stand(execs, execs')
  BY <1>1, <1>3, <1>5, <1>6 DEF Stand
<1>8. NoMore(execs, accepted, execs', accepted, Others)
  <2>1. ASSUME NEW n \in Nat
        PROVE  /\ Triggers(execs', accepted, n) = Triggers(execs, accepted, n)
               /\ Cardinality(Triggers(execs, accepted, n)) \in Nat
    <3>1. n \in Int
      OBVIOUS
    <3> QED BY <1>1, <1>3, <1>4, <3>1, TriggersOfProceeding, TriggersFinite
  <2> QED BY <2>1 DEF NoMore
<1>9. UNCHANGED <<definition, active, accepted, calls, mirror, asked, others>>
  BY DEF Proceeds
<1> QED BY <1>1, <1>5, <1>7, <1>8, <1>9, OthersKeep

LEMMA StartedByOthersKeeps == ASSUME RunInv, NEW w \in Workflows, StartedByOthers(w) PROVE RunInv'
<1>1. /\ execs \in Seq(Execution) /\ accepted \in Seq(Execution)
      /\ definition \in [Workflows -> Definitions] /\ active \subseteq Workflows /\ others \in Nat
  BY DEF RunInv, RunTypeOK
<1> DEFINE x == Started(w, Others)
<1>2. Others \in Int /\ x \in Execution /\ x.by = Others
  <2>1. Others \in Int
    BY DEF Others
  <2> QED BY <2>1, StartedType
<1>3. execs' = Append(execs, x) /\ UNCHANGED <<definition, active, accepted, calls, mirror, asked>> /\ others' = others + 1
  BY DEF StartedByOthers
<1> HIDE DEF x
<1>4. NoMore(execs, accepted, execs', accepted, Others)
  <2>1. ASSUME NEW n \in Nat, n # Others
        PROVE  /\ Cardinality(Triggers(execs', accepted, n)) <= Cardinality(Triggers(execs, accepted, n))
               /\ Triggers(execs, accepted, n) = {} => Triggers(execs', accepted, n) = {}
    <3>1. n \in Int /\ x.by # n
      BY <1>2, <2>1
    <3> QED BY <1>1, <1>2, <1>3, <3>1, TriggersOfRegistered
  <2> QED BY <2>1 DEF NoMore
<1>5. execs' \in Seq(Execution) /\ Stand(execs, execs') /\ others' \in Nat
  BY <1>1, <1>2, <1>3, MoreStand
<1> QED BY <1>1, <1>3, <1>4, <1>5, OthersKeep

LEMMA SwitchesKeep ==
  ASSUME RunInv, NEW w \in Workflows,
         activate_workflow(w) \/ deactivate_workflow(w) \/ \E d \in Definitions : update_workflow(w, d)
  PROVE  RunInv'
<1>1. definition \in [Workflows -> Definitions] /\ active \subseteq Workflows /\ others \in Nat
  BY DEF RunInv, RunTypeOK
<1>2. UNCHANGED <<execs, accepted, calls, mirror, asked>> /\ others' = others + 1
  BY DEF activate_workflow, deactivate_workflow, update_workflow
<1>3. definition' \in [Workflows -> Definitions]
  BY <1>1 DEF activate_workflow, deactivate_workflow, update_workflow
<1>4. active' \subseteq Workflows
  BY <1>1 DEF activate_workflow, deactivate_workflow, update_workflow
<1>5. others' \in Nat
  BY <1>1, <1>2
<1> QED BY <1>2, <1>3, <1>4, <1>5, SameOfOthers

-----------------------------------------------------------------------------
LEMMA RunInit == Init => RunInv
<1> SUFFICES ASSUME Init PROVE RunInv
  OBVIOUS
<1>1. /\ definition \in [Workflows -> Definitions] /\ active = Workflows /\ execs = <<>> /\ accepted = <<>>
      /\ calls = [c \in Callers |-> NoCall] /\ mirror = <<>> /\ asked = 0 /\ others = 0
  BY BeginningAssumption DEF Init
<1>2. <<>> \in Seq(Execution) /\ Len(<<>>) = 0 /\ DOMAIN <<>> = {}
  OBVIOUS
<1>3. RunTypeOK
  BY <1>1, <1>2, NoCallType DEF RunTypeOK
<1>4. NoCall.pc = "idle" /\ NoCall.n = 0 /\ NoCall.exec = 0
  BY DEF NoCall
<1>5. CallInv /\ NumberInv
  BY <1>1, <1>4 DEF CallInv, NumberInv, At
<1>6. \A n : Triggers(execs, accepted, n) = {}
  BY <1>1, <1>2 DEF Triggers
<1>7. CountInv
  <2>1. Cardinality({}) = 0
    BY FS_EmptySet
  <2>2. Budget(NoCall) = 0
    BY <1>4 DEF Budget
  <2>3. ASSUME NEW c \in Callers
        PROVE  Cardinality(Triggered(calls[c].n)) <= Budget(calls[c])
    <3>1. calls[c] = NoCall /\ Triggered(calls[c].n) = {}
      BY <1>1, <1>6 DEF Triggered
    <3> QED BY <2>1, <2>2, <3>1
  <2> QED BY <1>6, <2>3 DEF CountInv, Triggered
<1>8. ReportInv
  BY <1>1, <1>2, <1>4 DEF ReportInv, Mirrors, Reports
<1> QED BY <1>3, <1>5, <1>7, <1>8 DEF RunInv

LEMMA RunStep == RunInv /\ [Next]_vars => RunInv'
<1> SUFFICES ASSUME RunInv, [Next]_vars PROVE RunInv'
  OBVIOUS
<1>1. CASE UNCHANGED vars
  <2>1. UNCHANGED <<definition, active, execs, accepted, calls, mirror, asked, others>>
    BY <1>1 DEF vars
  <2>2. definition' \in [Workflows -> Definitions] /\ active' \subseteq Workflows /\ others' \in Nat
    BY <2>1 DEF RunInv, RunTypeOK
  <2> QED BY <2>1, <2>2, SameOfOthers
<1>2. ASSUME NEW c \in Callers, Steps(c) PROVE RunInv'
  BY <1>2, ProbeKeeps, GetKeeps, PostKeeps, AnswersKeep, QueryKeeps, PollKeeps, ToolKeeps DEF Steps
<1>3. ASSUME NEW c \in Callers, NEW w \in Workflows, NEW via \in {"runner", "connector", "adapter"},
             RunWorkflow(c, w, via)
      PROVE  RunInv'
  BY <1>3, RunKeeps
<1>4. CASE Registers
  BY <1>4, RegistersKeep
<1>5. ASSUME NEW i \in DOMAIN execs, Proceeds(i) PROVE RunInv'
  BY <1>5, ProceedsKeeps
<1>6. ASSUME NEW w \in Workflows, StartedByOthers(w) PROVE RunInv'
  BY <1>6, StartedByOthersKeeps
<1>7. ASSUME NEW w \in Workflows,
             activate_workflow(w) \/ deactivate_workflow(w) \/ \E d \in Definitions : update_workflow(w, d)
      PROVE  RunInv'
  BY <1>7, SwitchesKeep
<1> QED BY <1>1, <1>2, <1>3, <1>4, <1>5, <1>6, <1>7 DEF Next

LEMMA RunInvHolds == Spec => []RunInv
BY RunInit, RunStep, PTL DEF Spec

(* The state of n8n, of the calls and of the mirror has its type. *)
THEOREM RunTypeCorrect == Spec => []RunTypeOK
<1>1. RunInv => RunTypeOK
  BY DEF RunInv
<1> QED BY <1>1, RunInvHolds, PTL

(* What a call over REST reports is an execution of the workflow it asked for,
   not older than the one it has waited for, and as it has ended; and so is
   what the mirror keeps, whatever other users start, edit and switch. *)
THEOREM ReportsAreTrue == Spec => []ReportIsTrue
<1>1. RunInv => ReportIsTrue
  BY DEF RunInv, ReportInv, Reports, Mirrors, TellsOf, ReportIsTrue, Tells, At
<1> QED BY <1>1, RunInvHolds, PTL

(* run_workflow starts the workflow once, and twice only when the MCP server
   answered with an error and REST was there to repeat the call. *)
THEOREM OncePerTransport == Spec => []RunsOncePerTransport
<1>1. RunInv => RunsOncePerTransport
  <2> SUFFICES ASSUME RunInv, NEW c \in Callers
               PROVE  Cardinality({i \in DOMAIN execs : execs[i].by = calls[c].n} \cup
                                  {i + Len(execs) : i \in {j \in DOMAIN accepted : accepted[j].by = calls[c].n}})
                        <= Transports(calls[c])
    BY DEF RunsOncePerTransport, Transports
  <2> DEFINE n == calls[c].n
             mine == {i \in DOMAIN execs : execs[i].by = n} \cup
                     {i + Len(execs) : i \in {j \in DOMAIN accepted : accepted[j].by = n}}
  <2>1. execs \in Seq(Execution) /\ accepted \in Seq(Execution) /\ Len(execs) \in Nat /\ Len(accepted) \in Nat
    BY NoneTriggered
  <2>2. ASSUME NEW k \in Triggers(execs, accepted, n)
        PROVE  k \in mine
    <3>1. k \in 1 .. Len(execs) + Len(accepted) /\ Nth(execs, accepted, k).by = n
      BY <2>2 DEF Triggers
    <3>2. CASE k <= Len(execs)
      BY <2>1, <3>1, <3>2 DEF Nth
    <3>3. CASE k > Len(execs)
      <4>1. k - Len(execs) \in DOMAIN accepted /\ (k - Len(execs)) + Len(execs) = k
        BY <2>1, <3>1, <3>3
      <4>2. accepted[k - Len(execs)].by = n
        BY <2>1, <3>1, <3>3 DEF Nth
      <4> QED BY <4>1, <4>2
    <3> QED BY <2>1, <3>1, <3>2, <3>3
  <2>3. ASSUME NEW k \in mine
        PROVE  k \in Triggers(execs, accepted, n)
    <3>1. CASE k \in DOMAIN execs /\ execs[k].by = n
      BY <2>1, <3>1 DEF Triggers, Nth
    <3>2. ASSUME NEW j \in DOMAIN accepted, accepted[j].by = n, k = j + Len(execs)
          PROVE  k \in Triggers(execs, accepted, n)
      <4>1. k \in 1 .. Len(execs) + Len(accepted) /\ ~(k <= Len(execs)) /\ k - Len(execs) = j
        BY <2>1, <3>2
      <4> QED BY <3>2, <4>1 DEF Triggers, Nth
    <3> QED BY <2>3, <3>1, <3>2
  <2>4. mine = Triggers(execs, accepted, n)
    BY <2>2, <2>3
  <2> QED BY <2>4, NoneTriggered
<1> QED BY <1>1, RunInvHolds, PTL
=============================================================================
