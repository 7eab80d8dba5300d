-------------------------- MODULE TuiShell_proofs --------------------------
(* What the keys of the terminal UI and the answers that come between them may
   do, for any providers, models, catalogues, texts and bounds; and what is left
   of the terminal itself. *)
EXTENDS TuiShell, TuiTerminal, FiniteSetTheorems, SequenceTheorems, WellFoundedInduction, TLAPS

-----------------------------------------------------------------------------
(* Numbers.  A set that has m, and with each number below n the next, has all
   from m to n. *)
LEMMA Smallest ==
  ASSUME NEW S \in SUBSET Nat, S # {}
  PROVE  \E i \in S : \A j \in S : i <= j
<1>1. IsWellFoundedOn(OpToRel(<, Nat), Nat)
  BY NatLessThanWellFounded
<1>2. PICK i \in S : \A j \in S : <<j, i>> \notin OpToRel(<, Nat)
  BY <1>1, WFMin
<1>3. ASSUME NEW j \in S PROVE i <= j
  <2>1. <<j, i>> \notin OpToRel(<, Nat)
    BY <1>2
  <2>2. <<j, i>> \in Nat \X Nat /\ <<j, i>>[1] = j /\ <<j, i>>[2] = i
    OBVIOUS
  <2>3. ~ (j < i)
    BY <2>1, <2>2 DEF OpToRel
  <2> QED BY <2>3
<1> QED BY <1>3

LEMMA UpTo ==
  ASSUME NEW m \in Nat, NEW n \in Nat, NEW S, m \in S,
         \A i \in m..n : (i # n /\ i \in S) => i + 1 \in S
  PROVE  m..n \subseteq S
<1> DEFINE missing == {i \in m..n : i \notin S}
<1>1. missing \in SUBSET Nat
  OBVIOUS
<1>2. ASSUME missing # {} PROVE FALSE
  <2>1. PICK k \in missing : \A j \in missing : k <= j
    BY <1>1, <1>2, Smallest
  <2>2. k \in m..n /\ k # m /\ k \notin S
    BY <2>1
  <2>3. k - 1 \in m..n /\ k - 1 # n /\ k - 1 \notin missing
    BY <2>1, <2>2
  <2>4. (k - 1) + 1 \in S
    BY <2>3
  <2> QED BY <2>2, <2>4
<1> QED BY <1>2

(* A function on m..n whose values are each computed from the one before. *)
Computed(f, m, n, first, step) == \A i \in m..n : f[i] = IF i = m THEN first ELSE step[i][f[i - 1]]

LEMMA Recursion ==
  ASSUME NEW T, NEW m \in Nat, NEW n \in Nat, m <= n, NEW first \in T, NEW step \in [m..n -> [T -> T]]
  PROVE  \E f \in [m..n -> T] : Computed(f, m, n, first, step)
<1> DEFINE S == {k \in m..n : \E f \in [m..k -> T] : Computed(f, m, k, first, step)}
<1>1. m \in S
  <2> DEFINE f == [i \in m..m |-> first]
  <2>1. f \in [m..m -> T] /\ Computed(f, m, m, first, step)
    BY DEF Computed
  <2> HIDE DEF f
  <2>2. \E h \in [m..m -> T] : Computed(h, m, m, first, step)
    BY <2>1
  <2> QED BY <2>2
<1>2. ASSUME NEW k \in m..n, k # n, k \in S PROVE k + 1 \in S
  <2>1. PICK f \in [m..k -> T] : Computed(f, m, k, first, step)
    BY <1>2
  <2> DEFINE g == [i \in m..(k + 1) |-> IF i = k + 1 THEN step[k + 1][f[k]] ELSE f[i]]
  <2>2. k + 1 \in m..n /\ k \in m..k /\ k \in Int
    BY <1>2
  <2>3. f[k] \in T /\ step[k + 1][f[k]] \in T
    BY <2>2
  <2>4. g \in [m..(k + 1) -> T]
    <3>1. ASSUME NEW i \in m..(k + 1), i # k + 1 PROVE i \in m..k
      BY <3>1, <2>2
    <3> QED BY <2>3, <3>1
  <2>5. ASSUME NEW i \in m..(k + 1) PROVE g[i] = IF i = m THEN first ELSE step[i][g[i - 1]]
    <3>1. CASE i = k + 1
      <4>1. k \in m..(k + 1) /\ k # k + 1 /\ i - 1 = k /\ i # m
        BY <3>1, <2>2
      <4>2. g[k] = f[k] /\ g[i] = step[k + 1][f[k]]
        BY <4>1, <3>1
      <4> QED BY <4>1, <4>2, <3>1
    <3>2. CASE i # k + 1
      <4>1. i \in m..k /\ g[i] = f[i]
        BY <3>2, <2>2
      <4>2. i # m => (i - 1 \in m..(k + 1) /\ i - 1 # k + 1 /\ g[i - 1] = f[i - 1])
        BY <4>1, <2>2
      <4> QED BY <4>1, <4>2, <2>1 DEF Computed
    <3> QED BY <3>1, <3>2
  <2>6. Computed(g, m, k + 1, first, step)
    BY <2>5 DEF Computed
  <2> QED BY <2>2, <2>4, <2>6
<1> HIDE DEF S
<1>3. m..n \subseteq S
  BY <1>1, <1>2, UpTo
<1>4. n \in S
  BY <1>3
<1> QED BY <1>4 DEF S

-----------------------------------------------------------------------------
(* The list of providers without one backend, built entry by entry. *)
Kept(s, backend, f) ==
  \A n \in 0..Len(s) : f[n] = IF n = 0 THEN <<>>
                              ELSE IF s[n].backend = backend THEN f[n - 1] ELSE Append(f[n - 1], s[n])

LEMMA WithoutIsKept ==
  ASSUME NEW T, NEW s \in Seq(T), NEW backend
  PROVE  \E f : Kept(s, backend, f) /\ without(s, backend) = f[Len(s)]
<1> DEFINE value(f, n) == IF n = 0 THEN <<>>
                          ELSE IF s[n].backend = backend THEN f[n - 1] ELSE Append(f[n - 1], s[n])
           step == [n \in 0..Len(s) |-> [k \in Seq(T) |->
                      IF n = 0 THEN k ELSE IF s[n].backend = backend THEN k ELSE Append(k, s[n])]]
           it == CHOOSE f : f = [n \in 0..Len(s) |-> value(f, n)]
<1>1. Len(s) \in Nat /\ 0 <= Len(s) /\ <<>> \in Seq(T)
  OBVIOUS
<1>2. \A n \in 0..Len(s) : n # 0 => s[n] \in T
  BY <1>1
<1>3. step \in [0..Len(s) -> [Seq(T) -> Seq(T)]]
  BY <1>2
<1>4. PICK g \in [0..Len(s) -> Seq(T)] : Computed(g, 0, Len(s), <<>>, step)
  <2> HIDE DEF step
  <2> QED BY <1>1, <1>3, Recursion
<1>5. ASSUME NEW n \in 0..Len(s) PROVE g[n] = value(g, n)
  <2>1. n # 0 => n - 1 \in 0..Len(s)
    BY <1>1
  <2>2. n # 0 => g[n - 1] \in Seq(T)
    BY <2>1
  <2> QED BY <1>4, <2>2 DEF Computed
<1>6. g = [n \in 0..Len(s) |-> value(g, n)]
  BY <1>5
<1>7. it = [n \in 0..Len(s) |-> value(it, n)]
  <2>1. \E f : f = [n \in 0..Len(s) |-> value(f, n)]
    BY <1>6
  <2> QED BY <2>1
<1>8. without(s, backend) = it[Len(s)]
  BY DEF without
<1> HIDE DEF it, step
<1>9. Kept(s, backend, it)
  BY <1>7 DEF Kept
<1> QED BY <1>8, <1>9

(* What is kept of the first n entries: a list of entries, none of the backend,
   each other one of them, and each once. *)
KeptOf(s, backend, n, T, k) ==
  /\ k \in Seq(T)
  /\ \A i \in 1..Len(k) : \E m \in 1..n : k[i] = s[m] /\ s[m].backend # backend
  /\ \A m \in 1..n : s[m].backend # backend => \E i \in 1..Len(k) : k[i] = s[m]
  /\ \A i, j \in 1..Len(k) : k[i].backend = k[j].backend => i = j

LEMMA KeptFacts ==
  ASSUME NEW T, NEW s \in Seq(T), NEW backend, NEW f, Kept(s, backend, f),
         \A i, j \in 1..Len(s) : s[i].backend = s[j].backend => i = j
  PROVE  \A n \in 0..Len(s) : KeptOf(s, backend, n, T, f[n])
<1> DEFINE S == {n \in 0..Len(s) : KeptOf(s, backend, n, T, f[n])}
<1>1. Len(s) \in Nat /\ 0 <= Len(s)
  OBVIOUS
<1>2. 0 \in S
  <2>1. 0 \in 0..Len(s) /\ f[0] = <<>>
    BY <1>1 DEF Kept
  <2>2. <<>> \in Seq(T) /\ Len(<<>>) = 0
    OBVIOUS
  <2>3. KeptOf(s, backend, 0, T, <<>>)
    BY <2>2 DEF KeptOf
  <2> QED BY <2>1, <2>3
<1>3. ASSUME NEW n \in 0..Len(s), n # Len(s), n \in S PROVE n + 1 \in S
  <2>1. n + 1 \in 0..Len(s) /\ n + 1 # 0 /\ (n + 1) - 1 = n /\ n \in Nat /\ n + 1 \in 1..Len(s)
    BY <1>3, <1>1
  <2>2. f[n + 1] = IF s[n + 1].backend = backend THEN f[n] ELSE Append(f[n], s[n + 1])
    BY <2>1 DEF Kept
  <2>3. \A m \in 1..(n + 1) : m \in 1..n \/ m = n + 1
    BY <2>1
  <2>4. KeptOf(s, backend, n, T, f[n])
    BY <1>3
  <2>5. PICK e \in T : e = s[n + 1]
    BY <2>1
  <2>6. CASE e.backend = backend
    <3>1. KeptOf(s, backend, n + 1, T, f[n])
      <4>1. \A m \in 1..n : m \in 1..(n + 1)
        BY <2>1
      <4> QED BY <2>3, <2>4, <2>5, <2>6, <4>1 DEF KeptOf
    <3> QED BY <3>1, <2>1, <2>2, <2>5, <2>6
  <2>7. CASE e.backend # backend
    <3>1. PICK k : k = f[n]
      OBVIOUS
    <3>2. k \in Seq(T) /\ Len(k) \in Nat
      BY <3>1, <2>4 DEF KeptOf
    <3>3. PICK more : more = Append(k, e)
      OBVIOUS
    <3>4. /\ more \in Seq(T) /\ Len(more) = Len(k) + 1
          /\ more[Len(k) + 1] = e /\ \A i \in 1..Len(k) : more[i] = k[i]
      BY <3>2, <3>3
    <3>5. \A i \in 1..Len(more) : i \in 1..Len(k) \/ i = Len(k) + 1
      BY <3>2, <3>4
    <3>6. ASSUME NEW i \in 1..Len(more) PROVE \E m \in 1..(n + 1) : more[i] = s[m] /\ s[m].backend # backend
      <4>1. CASE i = Len(k) + 1
        <5>1. n + 1 \in 1..(n + 1)
          BY <2>1
        <5> QED BY <4>1, <5>1, <3>4, <2>5, <2>7
      <4>2. CASE i \in 1..Len(k)
        <5>1. PICK m \in 1..n : k[i] = s[m] /\ s[m].backend # backend
          BY <4>2, <2>4, <3>1 DEF KeptOf
        <5>2. m \in 1..(n + 1)
          BY <2>1
        <5> QED BY <5>1, <5>2, <4>2, <3>4
      <4> QED BY <4>1, <4>2, <3>5
    <3>7. ASSUME NEW m \in 1..(n + 1), s[m].backend # backend PROVE \E i \in 1..Len(more) : more[i] = s[m]
      <4>1. CASE m = n + 1
        <5>1. Len(k) + 1 \in 1..Len(more)
          BY <3>2, <3>4
        <5> QED BY <4>1, <5>1, <3>4, <2>5
      <4>2. CASE m \in 1..n
        <5>1. PICK i \in 1..Len(k) : k[i] = s[m]
          BY <4>2, <3>7, <2>4, <3>1 DEF KeptOf
        <5>2. i \in 1..Len(more) /\ more[i] = k[i]
          BY <3>2, <3>4
        <5> QED BY <5>1, <5>2
      <4> QED BY <4>1, <4>2, <2>3
    <3>8. ASSUME NEW i \in 1..Len(k) PROVE k[i].backend # e.backend
      <4>1. PICK m \in 1..n : k[i] = s[m]
        BY <2>4, <3>1 DEF KeptOf
      <4>2. m \in 1..Len(s) /\ m # n + 1
        BY <2>1, <1>1
      <4> QED BY <4>1, <4>2, <2>1, <2>5
    <3>9. ASSUME NEW i \in 1..Len(more), NEW j \in 1..Len(more), more[i].backend = more[j].backend PROVE i = j
      <4>1. CASE i \in 1..Len(k) /\ j \in 1..Len(k)
        BY <4>1, <3>9, <3>4, <2>4, <3>1 DEF KeptOf
      <4>2. CASE i = Len(k) + 1 /\ j \in 1..Len(k)
        BY <4>2, <3>8, <3>9, <3>4
      <4>3. CASE i \in 1..Len(k) /\ j = Len(k) + 1
        BY <4>3, <3>8, <3>9, <3>4
      <4> QED BY <4>1, <4>2, <4>3, <3>5
    <3>10. KeptOf(s, backend, n + 1, T, more)
      BY <3>4, <3>6, <3>7, <3>9 DEF KeptOf
    <3>11. f[n + 1] = more
      BY <2>2, <2>5, <2>7, <3>1, <3>3
    <3> QED BY <3>10, <3>11, <2>1
  <2> QED BY <2>6, <2>7
<1> HIDE DEF S
<1>4. 0..Len(s) \subseteq S
  BY <1>1, <1>2, <1>3, UpTo
<1> QED BY <1>4 DEF S

(* A list in which no backend has two entries keeps that, and all its entries
   but that of the backend. *)
LEMMA WithoutFacts ==
  ASSUME NEW T, NEW s \in Seq(T), NEW backend,
         \A i, j \in 1..Len(s) : s[i].backend = s[j].backend => i = j
  PROVE  KeptOf(s, backend, Len(s), T, without(s, backend))
<1>1. PICK f : Kept(s, backend, f) /\ without(s, backend) = f[Len(s)]
  BY WithoutIsKept
<1>2. Len(s) \in 0..Len(s)
  OBVIOUS
<1> QED BY <1>1, <1>2, KeptFacts

-----------------------------------------------------------------------------
(* Providers.  A configuration is well formed if its list names no backend
   twice and the active provider is in it; its models fit if no provider but
   OpenRouter has one of OpenRouter's. *)
Config == [provider : Provider, providers : Seq(Provider)]

ListedOnce(s) ==
  /\ s \in Seq(Provider)
  /\ \A i \in 1..Len(s) : s[i].backend \in Backends
  /\ \A i, j \in 1..Len(s) : s[i].backend = s[j].backend => i = j
ActiveIn(p, s) == (Len(s) > 0 /\ p.backend # "" /\ p.model # "") => p \in Elements(s)
WellFormed(c) == c \in Config /\ ListedOnce(c.providers) /\ ActiveIn(c.provider, c.providers)

ModelFits(p) == (p.backend \in Known /\ p.model \in OpenRouterIds) => p.backend = "openrouter"
AllFit(c) == \A p \in Elements(c.providers) \cup {c.provider} : ModelFits(p)

LEMMA ElementsAre == \A s \in Seq(Provider) : Elements(s) = {s[i] : i \in 1..Len(s)} /\ Elements(s) \subseteq Provider
BY DEF Elements

LEMMA BlankType == Blank \in Provider /\ Blank.backend = "" /\ Blank.model = ""
BY DEF Blank, Provider

LEMMA EntryType ==
  ASSUME NEW backend \in Backends, NEW model \in Models
  PROVE  /\ Entry(backend, model) \in Provider
         /\ Entry(backend, model).backend = backend /\ Entry(backend, model).model = model
BY DEF Entry, Provider

LEMMA OldFileFacts ==
  ASSUME NEW p \in Provider
  PROVE  WellFormed(OldFile(p)) /\ (ModelFits(p) => AllFit(OldFile(p)))
<1>1. <<>> \in Seq(Provider) /\ Len(<<>>) = 0 /\ DOMAIN <<>> = {}
  OBVIOUS
<1>2. OldFile(p).provider = p /\ OldFile(p).providers = <<>> /\ OldFile(p) \in Config
  BY <1>1 DEF OldFile, Config
<1>3. Elements(<<>>) = {}
  BY <1>1 DEF Elements
<1> QED BY <1>1, <1>2, <1>3 DEF WellFormed, ListedOnce, ActiveIn, AllFit

(* The one entry of a backend, if there is one. *)
LEMMA PlacesAre ==
  ASSUME NEW c \in Config, ListedOnce(c.providers), NEW backend, Places(c, backend) # {}
  PROVE  /\ FirstOf(Places(c, backend)) \in 1..Len(c.providers)
         /\ c.providers[FirstOf(Places(c, backend))].backend = backend
<1>1. DOMAIN c.providers = 1..Len(c.providers)
  BY DEF ListedOnce
<1>2. PICK i \in 1..Len(c.providers) : i \in Places(c, backend)
  BY <1>1 DEF Places
<1>3. \A j \in Places(c, backend) : j = i
  BY <1>1, <1>2 DEF Places, ListedOnce
<1>4. i <= i
  BY <1>2
<1>5. FirstOf(Places(c, backend)) = i
  BY <1>2, <1>3, <1>4 DEF FirstOf
<1> QED BY <1>1, <1>2, <1>5 DEF Places

LEMMA UpsertFacts ==
  ASSUME NEW c \in Config, ListedOnce(c.providers), NEW p \in Provider, p.backend \in Backends
  PROVE  LET u == upsert_configured_provider(c, p) IN
         /\ u \in Config /\ u.provider = c.provider /\ ListedOnce(u.providers)
         /\ p \in Elements(u.providers) /\ Elements(u.providers) \subseteq Elements(c.providers) \cup {p}
<1> DEFINE u == upsert_configured_provider(c, p)
<1>1. PICK s \in Seq(Provider) : s = c.providers
  BY DEF Config
<1>2. ListedOnce(s) /\ Len(s) \in Nat /\ c.provider \in Provider
  BY <1>1 DEF Config
<1>3. ASSUME NEW t \in Seq(Provider), u = [c EXCEPT !.providers = t], ListedOnce(t), p \in Elements(t),
             Elements(t) \subseteq Elements(s) \cup {p}
      PROVE  /\ u \in Config /\ u.provider = c.provider /\ ListedOnce(u.providers)
             /\ p \in Elements(u.providers) /\ Elements(u.providers) \subseteq Elements(c.providers) \cup {p}
  <2>1. u.providers = t /\ u.provider = c.provider /\ u \in Config
    BY <1>3 DEF Config
  <2> QED BY <2>1, <1>1, <1>3
<1>4. CASE Places(c, p.backend) # {}
  <2>1. PICK i : i = FirstOf(Places(c, p.backend))
    OBVIOUS
  <2>2. i \in 1..Len(s) /\ s[i].backend = p.backend
    BY <1>1, <1>4, <2>1, PlacesAre
  <2>3. PICK t : t = [s EXCEPT ![i] = p]
    OBVIOUS
  <2>4. t \in Seq(Provider) /\ Len(t) = Len(s) /\ t[i] = p /\ \A j \in 1..Len(s) : j # i => t[j] = s[j]
    BY <2>2, <2>3
  <2>5. u = [c EXCEPT !.providers = t]
    BY <1>1, <1>4, <2>1, <2>3 DEF upsert_configured_provider
  <2>6. ListedOnce(t)
    BY <1>2, <2>2, <2>4 DEF ListedOnce
  <2>7. p \in Elements(t) /\ Elements(t) \subseteq Elements(s) \cup {p}
    BY <2>2, <2>4, ElementsAre
  <2> QED BY <1>3, <2>4, <2>5, <2>6, <2>7
<1>5. CASE Places(c, p.backend) = {}
  <2>1. PICK t : t = Append(s, p)
    OBVIOUS
  <2>2. t \in Seq(Provider) /\ Len(t) = Len(s) + 1 /\ t[Len(s) + 1] = p /\ \A j \in 1..Len(s) : t[j] = s[j]
    BY <2>1
  <2>3. \A j \in 1..Len(t) : j \in 1..Len(s) \/ j = Len(s) + 1
    BY <2>2, <1>2
  <2>4. \A j \in 1..Len(s) : s[j].backend # p.backend
    BY <1>1, <1>5 DEF Places
  <2>5. u = [c EXCEPT !.providers = t]
    BY <1>1, <1>5, <2>1 DEF upsert_configured_provider
  <2>6. ListedOnce(t)
    BY <1>2, <2>2, <2>3, <2>4 DEF ListedOnce
  <2>7. Len(s) + 1 \in 1..Len(t)
    BY <1>2, <2>2
  <2>8. p \in Elements(t) /\ Elements(t) \subseteq Elements(s) \cup {p}
    BY <2>2, <2>3, <2>7, ElementsAre
  <2> QED BY <1>3, <2>2, <2>5, <2>6, <2>8
<1> QED BY <1>4, <1>5

LEMMA ActivateFacts ==
  ASSUME NEW c, WellFormed(c), NEW p \in Provider, p.backend \in Backends
  PROVE  /\ WellFormed(Activate(c, p))
         /\ AllFit(c) /\ ModelFits(p) => AllFit(Activate(c, p))
<1>1. PICK u : u = upsert_configured_provider(c, p)
  OBVIOUS
<1>2. /\ u \in Config /\ ListedOnce(u.providers)
      /\ p \in Elements(u.providers) /\ Elements(u.providers) \subseteq Elements(c.providers) \cup {p}
  BY <1>1, UpsertFacts DEF WellFormed
<1>3. PICK a : a = Activate(c, p)
  OBVIOUS
<1>4. a \in Config /\ a.provider = p /\ a.providers = u.providers
  BY <1>1, <1>2, <1>3 DEF Activate, Config
<1>5. WellFormed(a)
  BY <1>2, <1>4 DEF WellFormed, ActiveIn
<1>6. AllFit(c) /\ ModelFits(p) => AllFit(a)
  BY <1>2, <1>4 DEF AllFit
<1> QED BY <1>3, <1>5, <1>6

LEMMA SyncFacts ==
  ASSUME NEW c \in Config, ListedOnce(c.providers)
  PROVE  /\ WellFormed(sync_active_provider_entry(c))
         /\ AllFit(c) => AllFit(sync_active_provider_entry(c))
<1>1. CASE c.provider.backend = "" \/ c.provider.model = ""
  BY <1>1 DEF sync_active_provider_entry, WellFormed, ActiveIn
<1>2. CASE ~ (c.provider.backend = "" \/ c.provider.model = "")
  <2>1. c.provider \in Provider /\ c.provider.backend \in Backends
    BY <1>2 DEF Config, Provider
  <2>2. PICK u : u = upsert_configured_provider(c, c.provider)
    OBVIOUS
  <2>3. /\ u \in Config /\ u.provider = c.provider /\ ListedOnce(u.providers)
        /\ c.provider \in Elements(u.providers) /\ Elements(u.providers) \subseteq Elements(c.providers) \cup {c.provider}
    BY <2>1, <2>2, UpsertFacts
  <2>4. WellFormed(u)
    BY <2>3 DEF WellFormed, ActiveIn
  <2>5. AllFit(c) => AllFit(u)
    BY <2>3 DEF AllFit
  <2> QED BY <1>2, <2>2, <2>4, <2>5 DEF sync_active_provider_entry
<1> QED BY <1>1, <1>2

LEMMA RemovedFacts ==
  ASSUME NEW c, WellFormed(c), NEW backend
  PROVE  WellFormed(removed(c, backend)) /\ (AllFit(c) => AllFit(removed(c, backend)))
<1>1. PICK s \in Seq(Provider) : s = c.providers
  BY DEF WellFormed, Config
<1>2. PICK rest : rest = without(s, backend)
  OBVIOUS
<1>3. ListedOnce(s) /\ ActiveIn(c.provider, s) /\ c.provider \in Provider
  BY <1>1 DEF WellFormed, Config
<1>4. KeptOf(s, backend, Len(s), Provider, rest)
  BY <1>2, <1>3, WithoutFacts DEF ListedOnce
<1>5. rest \in Seq(Provider) /\ ListedOnce(rest)
  BY <1>3, <1>4 DEF KeptOf, ListedOnce
<1>a. Len(rest) \in Nat /\ Len(s) \in Nat
  BY <1>5
<1>b. Len(rest) > 0 => 1 \in 1..Len(rest)
  BY <1>a
<1>c. \A m \in 1..Len(s) : Len(s) > 0
  BY <1>a
<1>6. Elements(rest) \subseteq Elements(s)
  BY <1>4, <1>5, ElementsAre DEF KeptOf
<1>7. PICK r : r = removed(c, backend)
  OBVIOUS
<1>8. /\ r.providers = rest
      /\ r.provider = IF c.provider.backend # backend THEN c.provider ELSE IF rest # <<>> THEN rest[1] ELSE Blank
  BY <1>1, <1>2, <1>7 DEF removed
<1>9. rest # <<>> => 1 \in 1..Len(rest) /\ rest[1] \in Elements(rest) /\ rest[1] \in Provider
  BY <1>5, ElementsAre
<1>10. r \in Config
  <2>1. r.provider \in Provider
    BY <1>3, <1>8, <1>9, BlankType
  <2>2. r = [providers |-> rest, provider |-> r.provider]
    BY <1>1, <1>2, <1>7, <1>8 DEF removed
  <2> QED BY <2>1, <2>2, <1>5 DEF Config
<1>11. ActiveIn(r.provider, rest)
  <2>1. CASE c.provider.backend # backend
    <3> SUFFICES ASSUME Len(rest) > 0, c.provider.backend # "", c.provider.model # ""
                 PROVE  c.provider \in Elements(rest)
      BY <2>1, <1>8 DEF ActiveIn
    <3>1. PICK i \in 1..Len(rest), m \in 1..Len(s) : rest[i] = s[m]
      <4>1. 1 \in 1..Len(rest)
        BY <1>b
      <4> QED BY <4>1, <1>4 DEF KeptOf
    <3>2. Len(s) > 0
      BY <3>1, <1>c
    <3>3. PICK k \in 1..Len(s) : s[k] = c.provider
      BY <3>2, <1>3, ElementsAre DEF ActiveIn
    <3>4. \E j \in 1..Len(rest) : rest[j] = s[k]
      BY <3>3, <2>1, <1>4 DEF KeptOf
    <3> QED BY <3>3, <3>4, <1>5, ElementsAre
  <2>2. CASE ~ (c.provider.backend # backend) /\ rest # <<>>
    BY <2>2, <1>8, <1>9 DEF ActiveIn
  <2>3. CASE ~ (c.provider.backend # backend) /\ rest = <<>>
    BY <2>3, <1>8, BlankType DEF ActiveIn
  <2> QED BY <2>1, <2>2, <2>3
<1>12. WellFormed(r)
  BY <1>5, <1>8, <1>10, <1>11 DEF WellFormed
<1>13. AllFit(c) => AllFit(r)
  <2>1. ModelFits(Blank)
    BY BlankType, ProvidersAssumption DEF ModelFits
  <2>2. r.provider \in Elements(s) \cup {c.provider, Blank}
    BY <1>6, <1>8, <1>9
  <2> QED BY <1>1, <1>6, <1>8, <2>1, <2>2 DEF AllFit
<1> QED BY <1>7, <1>12, <1>13

LEMMA NormalizeFacts ==
  ASSUME NEW c, WellFormed(c)
  PROVE  WellFormed(normalize_configured_providers(c)) /\ (AllFit(c) => AllFit(normalize_configured_providers(c)))
<1>1. CASE c.providers = <<>> /\ c.provider.backend # "" /\ c.provider.model # ""
  <2>1. PICK s : s = <<c.provider>>
    OBVIOUS
  <2>2. c.provider \in Provider /\ c.provider.backend \in Backends
    BY <1>1 DEF WellFormed, Config, Provider
  <2>3. s \in Seq(Provider) /\ Len(s) = 1 /\ s[1] = c.provider /\ 1..Len(s) = {1}
    BY <2>1, <2>2
  <2>4. PICK n : n = [c EXCEPT !.providers = s]
    OBVIOUS
  <2>5. n \in Config /\ n.providers = s /\ n.provider = c.provider
    BY <2>3, <2>4 DEF WellFormed, Config
  <2>6. Elements(s) = {c.provider}
    BY <2>3, ElementsAre
  <2>7. WellFormed(n) /\ (AllFit(c) => AllFit(n))
    BY <2>2, <2>3, <2>5, <2>6 DEF WellFormed, ListedOnce, ActiveIn, AllFit
  <2> QED BY <1>1, <2>1, <2>4, <2>7 DEF normalize_configured_providers
<1>2. CASE ~ (c.providers = <<>> /\ c.provider.backend # "" /\ c.provider.model # "")
  BY <1>2 DEF normalize_configured_providers
<1> QED BY <1>1, <1>2

-----------------------------------------------------------------------------
(* The state: what is held of configurations, wherever, is well formed, and
   fits unless an unchecked model was taken over; catalogues lie under the
   backend they were fetched from. *)
Held == current_config \cup file \cup UNION {t.config : t \in tasks}
Task == [kind : {"save", "load", "fetch"}, config : SUBSET Config, for : Provider]
Popup == [visible : BOOLEAN, provider : Nat, model : Nat, column : {"Provider", "Model"}]
Catalogue == [backend : Backends \cup {""}, ids : Lists \cup {<<>>}]

ProvidersTypeOK ==
  /\ current_config \subseteq Config /\ file \subseteq Config /\ tasks \subseteq Task
  /\ popup \in Popup /\ dynamic_models \in [Backends \cup {""} -> Catalogue]
  /\ unchecked \in BOOLEAN
AllWellFormed == \A c \in Held : WellFormed(c)
HeldFits == unchecked \/ \A c \in Held : AllFit(c)
FiledRight == \A b \in Backends \cup {""} : dynamic_models[b].backend \in {"", b}
ProviderInv == ProvidersTypeOK /\ AllWellFormed /\ HeldFits /\ FiledRight

LEMMA Keeps ==
  ASSUME ProviderInv, ProvidersTypeOK', FiledRight', unchecked => unchecked',
         \A c \in Held' : c \in Held \/ (WellFormed(c) /\ (unchecked' \/ AllFit(c)))
  PROVE  ProviderInv'
<1>1. AllWellFormed'
  BY DEF ProviderInv, AllWellFormed
<1>2. HeldFits'
  BY DEF ProviderInv, HeldFits
<1> QED BY <1>1, <1>2 DEF ProviderInv

LEMMA EnsureFacts ==
  ASSUME ProviderInv
  PROVE  WellFormed(ensure_config) /\ (unchecked \/ AllFit(ensure_config))
<1>1. \A c \in current_config : WellFormed(c) /\ (unchecked \/ AllFit(c))
  BY DEF ProviderInv, AllWellFormed, HeldFits, Held
<1>2. CASE current_config = {}
  <2>1. ModelFits(Blank)
    BY BlankType, ProvidersAssumption DEF ModelFits
  <2> QED BY <1>2, <2>1, OldFileFacts, BlankType DEF ensure_config
<1>3. CASE current_config # {}
  <2>1. (CHOOSE c \in current_config : TRUE) \in current_config
    BY <1>3
  <2> QED BY <1>1, <1>3, <2>1 DEF ensure_config
<1> QED BY <1>2, <1>3

(* A task that carries no configuration. *)
Light == {t \in Task : t.config = {}}

LEMMA LoadIsLight == Load \in Light /\ Load.config = {}
BY BlankType DEF Load, Light, Task

LEMMA FetchIsLight ==
  ASSUME NEW p \in Provider
  PROVE  Fetch(p) \in Light /\ Fetch(p).config = {} /\ Fetch(p).for.backend = p.backend
<1>1. [p EXCEPT !.model = ""] \in Provider /\ [p EXCEPT !.model = ""].backend = p.backend
  BY DEF Provider
<1> QED BY <1>1 DEF Fetch, Light, Task

LEMMA SaveFacts ==
  ASSUME NEW c \in Config
  PROVE  Save({c}) \in Task /\ Save({c}).config = {c}
BY BlankType DEF Save, Task

LEMMA QueueIsLight ==
  ASSUME NEW p \in Provider
  PROVE  queue_models_fetch(p) \subseteq Light
<1>1. [p EXCEPT !.endpoint = TRUE] \in Provider
  BY DEF Provider
<1> QED BY <1>1, FetchIsLight DEF queue_models_fetch

LEMMA MaybeFetchIsLight ==
  ASSUME WellFormed(ensure_config)
  PROVE  maybe_fetch_models \subseteq Light
<1>1. ensure_config.providers \in Seq(Provider)
  BY DEF WellFormed, ListedOnce
<1>2. \A i \in DOMAIN configured_providers : configured_providers[i] \in Provider
  BY <1>1 DEF configured_providers
<1>3. selected_configured_provider \subseteq Provider
  BY <1>2 DEF selected_configured_provider
<1>4. \A q \in selected_configured_provider : queue_models_fetch(q) \subseteq Light
  BY <1>3, QueueIsLight
<1> QED BY <1>4 DEF maybe_fetch_models

LEMMA CommandIsLight ==
  ASSUME NEW c \in Config
  PROVE  current_provider_models_command(c) \subseteq Light
<1>1. c.provider \in Provider
  BY DEF Config
<1> QED BY <1>1, QueueIsLight DEF current_provider_models_command

(* What a change of the configuration leaves, whichever command it was. *)
LEMMA StoreKeeps ==
  ASSUME ProviderInv, NEW c, NEW more \in SUBSET Light, Store(c, more), WellFormed(c),
         popup' \in Popup, unchecked' \in BOOLEAN, unchecked => unchecked', unchecked' \/ AllFit(c)
  PROVE  ProviderInv'
<1>1. /\ current_config' = {c} /\ tasks' = tasks \cup {Save({c})} \cup more
      /\ dynamic_models' = dynamic_models /\ file' = file
  BY DEF Store, Emit
<1>2. c \in Config
  BY DEF WellFormed
<1>3. ProvidersTypeOK'
  BY <1>1, <1>2, SaveFacts DEF ProviderInv, ProvidersTypeOK, Light
<1>4. FiledRight'
  BY <1>1 DEF ProviderInv, FiledRight
<1>5. ASSUME NEW d \in Held' PROVE d \in Held \/ d = c
  <2>1. CASE d \in current_config' \cup file'
    BY <2>1, <1>1 DEF Held
  <2>2. CASE d \in UNION {t.config : t \in tasks'}
    <3>1. PICK t \in tasks' : d \in t.config
      BY <2>2
    <3>2. CASE t \in tasks
      BY <3>1, <3>2 DEF Held
    <3>3. CASE t = Save({c})
      BY <3>1, <3>3, <1>2, SaveFacts
    <3>4. CASE t \in more
      BY <3>1, <3>4 DEF Light
    <3> QED BY <3>1, <3>2, <3>3, <3>4, <1>1
  <2> QED BY <2>1, <2>2 DEF Held
<1> QED BY <1>3, <1>4, <1>5, Keeps

(* What moving in the popup, fetching and failing leave. *)
LEMMA TasksKeep ==
  ASSUME ProviderInv, NEW more \in SUBSET Light, tasks' \subseteq tasks \cup more, popup' \in Popup,
         current_config' = current_config, file' = file, unchecked' = unchecked,
         dynamic_models' \in [Backends \cup {""} -> Catalogue], FiledRight'
  PROVE  ProviderInv'
<1>1. ProvidersTypeOK'
  BY DEF ProviderInv, ProvidersTypeOK, Light
<1>2. ASSUME NEW d \in Held' PROVE d \in Held
  <2>1. CASE d \in current_config' \cup file'
    BY <2>1 DEF Held
  <2>2. CASE d \in UNION {t.config : t \in tasks'}
    <3>1. PICK t \in tasks' : d \in t.config
      BY <2>2
    <3>2. t \in tasks
      BY <3>1 DEF Light
    <3> QED BY <3>1, <3>2 DEF Held
  <2> QED BY <2>1, <2>2 DEF Held
<1> QED BY <1>1, <1>2, Keeps

LEMMA ActivateKeeps ==
  ASSUME ProviderInv, NEW p \in Provider, p.backend \in Backends, NEW more \in SUBSET Light,
         Store(Activate(ensure_config, p), more), popup' \in Popup, unchecked' \in BOOLEAN, unchecked => unchecked',
         unchecked' \/ ModelFits(p)
  PROVE  ProviderInv'
<1>1. PICK c : c = Activate(ensure_config, p)
  OBVIOUS
<1>2. PICK e : e = ensure_config
  OBVIOUS
<1>3. WellFormed(e) /\ (unchecked \/ AllFit(e))
  BY <1>2, EnsureFacts
<1>4. WellFormed(c) /\ (AllFit(e) /\ ModelFits(p) => AllFit(c))
  BY <1>1, <1>2, <1>3, ActivateFacts
<1>5. Store(c, more)
  BY <1>1
<1> QED BY <1>3, <1>4, <1>5, StoreKeeps

LEMMA SetActiveKeeps ==
  ASSUME ProviderInv, NEW p \in Provider, Store(SetActive(p), {}), popup' \in Popup, unchecked' \in BOOLEAN,
         unchecked => unchecked', unchecked' \/ ModelFits(p)
  PROVE  ProviderInv'
<1>1. PICK e : e = ensure_config
  OBVIOUS
<1>2. WellFormed(e) /\ (unchecked \/ AllFit(e))
  BY <1>1, EnsureFacts
<1>3. PICK a : a = [e EXCEPT !.provider = p]
  OBVIOUS
<1>4. a \in Config /\ a.providers = e.providers /\ a.provider = p
  BY <1>2, <1>3 DEF WellFormed, Config
<1>5. ListedOnce(a.providers) /\ (AllFit(e) /\ ModelFits(p) => AllFit(a))
  BY <1>2, <1>4 DEF WellFormed, AllFit
<1>6. PICK c : c = sync_active_provider_entry(a)
  OBVIOUS
<1>7. WellFormed(c) /\ (AllFit(a) => AllFit(c))
  BY <1>4, <1>5, <1>6, SyncFacts
<1>8. Store(c, {})
  BY <1>1, <1>3, <1>6 DEF SetActive
<1> QED BY <1>2, <1>5, <1>7, <1>8, StoreKeeps

LEMMA RemovedKeeps ==
  ASSUME ProviderInv, NEW backend, Store(removed(ensure_config, backend), {}), popup' \in Popup, unchecked' = unchecked
  PROVE  ProviderInv'
<1>1. PICK e : e = ensure_config
  OBVIOUS
<1>2. WellFormed(e) /\ (unchecked \/ AllFit(e))
  BY <1>1, EnsureFacts
<1>3. PICK c : c = removed(e, backend)
  OBVIOUS
<1>4. WellFormed(c) /\ (AllFit(e) => AllFit(c))
  BY <1>2, <1>3, RemovedFacts
<1>5. Store(c, {}) /\ unchecked \in BOOLEAN
  BY <1>1, <1>3 DEF ProviderInv, ProvidersTypeOK
<1> QED BY <1>2, <1>4, <1>5, StoreKeeps

MaybeModel == {""} \cup Models

(* A model in another's place. *)
LEMMA ModelUpdate ==
  ASSUME NEW p \in Provider, NEW m \in MaybeModel
  PROVE  [p EXCEPT !.model = m] \in Provider /\ [p EXCEPT !.model = m].backend = p.backend /\ [p EXCEPT !.model = m].model = m
BY DEF Provider, MaybeModel

LEMMA KeyUpdate ==
  ASSUME NEW p \in Provider, NEW key \in BOOLEAN
  PROVE  /\ [p EXCEPT !.key = key] \in Provider
         /\ [p EXCEPT !.key = key].backend = p.backend /\ [p EXCEPT !.key = key].model = p.model
BY DEF Provider

LEMMA AuthUpdate ==
  ASSUME NEW p \in Provider, NEW auth \in {"ApiKey", "OpenAiOAuth", "Codex"}, NEW key \in BOOLEAN
  PROVE  /\ [p EXCEPT !.auth_method = auth, !.key = key] \in Provider
         /\ [p EXCEPT !.auth_method = auth, !.key = key].backend = p.backend
         /\ [p EXCEPT !.auth_method = auth, !.key = key].model = p.model
BY DEF Provider

LEMMA ValidFits ==
  ASSUME NEW p, p.backend \in Known => validate_provider_model(p.backend, p.model)
  PROVE  ModelFits(p)
BY DEF validate_provider_model, ModelFits

LEMMA CommandKeeps == ProviderInv /\ Command => ProviderInv'
<1> SUFFICES ASSUME ProviderInv, Command PROVE ProviderInv'
  OBVIOUS
<1>1. popup \in Popup /\ unchecked \in BOOLEAN
  BY DEF ProviderInv, ProvidersTypeOK
<1>2. PICK e : e = ensure_config
  OBVIOUS
<1>3. WellFormed(e) /\ e.provider \in Provider /\ (unchecked \/ ModelFits(e.provider))
  BY <1>2, EnsureFacts DEF WellFormed, Config, AllFit
<1>4. ASSUME NEW b \in Backends, NEW m \in Models, SetProvider(b, m) PROVE ProviderInv'
  <2>1. PICK i \in Places(e, b) :
          /\ validate_provider_model(b, m)
          /\ Store(Activate(ensure_config, [configured_providers[i] EXCEPT !.model = m]), {})
    BY <1>2, <1>4 DEF SetProvider
  <2>2. PICK q : q = configured_providers[i]
    OBVIOUS
  <2>3. q \in Provider /\ q.backend = b
    BY <1>2, <1>3, <2>1, <2>2 DEF Places, configured_providers, WellFormed, ListedOnce
  <2>4. PICK p \in Provider : p = [q EXCEPT !.model = m] /\ p.backend = b /\ p.model = m
    BY <2>3, ModelUpdate DEF MaybeModel
  <2>5. Store(Activate(ensure_config, p), {}) /\ ModelFits(p)
    BY <2>1, <2>2, <2>4, ValidFits
  <2>6. popup' \in Popup /\ unchecked' = unchecked /\ p.backend \in Backends /\ {} \in SUBSET Light
    BY <1>1, <1>4, <2>4 DEF SetProvider
  <2> QED BY <1>1, <2>5, <2>6, ActivateKeeps
<1>5. ASSUME NEW b \in Backends, NEW m \in Models, AddKnownProvider(b, m) PROVE ProviderInv'
  <2>1. PICK p : p = [Entry(b, m) EXCEPT !.key = b # "codex"]
    OBVIOUS
  <2>2. p \in Provider /\ p.backend = b /\ p.model = m
    BY <2>1, EntryType, KeyUpdate
  <2>3. Store(Activate(ensure_config, p), {}) /\ ModelFits(p) /\ UNCHANGED <<popup, unchecked>>
    BY <1>5, <2>1, <2>2, ValidFits DEF AddKnownProvider
  <2> QED BY <1>1, <2>2, <2>3, ActivateKeeps
<1>6. ASSUME NEW b \in Backends, NEW m \in Models, AddCustomProvider(b, m) PROVE ProviderInv'
  <2>1. PICK key \in BOOLEAN : Store(Activate(ensure_config, [Entry(b, m) EXCEPT !.key = key]), {})
    BY <1>6 DEF AddCustomProvider
  <2>2. PICK p : p = [Entry(b, m) EXCEPT !.key = key]
    OBVIOUS
  <2>3. p \in Provider /\ p.backend = b /\ p.model = m
    BY <2>2, EntryType, KeyUpdate
  <2>4. Store(Activate(ensure_config, p), {}) /\ ModelFits(p) /\ UNCHANGED <<popup, unchecked>>
    BY <1>6, <2>1, <2>2, <2>3, ValidFits DEF AddCustomProvider, known_provider
  <2> QED BY <1>1, <2>3, <2>4, ActivateKeeps
<1>7. ASSUME NEW m \in Models, AddOpenAiOAuthProvider(m) PROVE ProviderInv'
  <2>1. PICK p : p = [Entry("openai", m) EXCEPT !.auth_method = "OpenAiOAuth", !.key = FALSE]
    OBVIOUS
  <2>2. "openai" \in Backends
    BY ProvidersAssumption
  <2>a. PICK new \in Provider : new = Entry("openai", m) /\ new.backend = "openai" /\ new.model = m
    BY <2>2, EntryType
  <2>3. p \in Provider /\ p.backend = "openai" /\ p.model = m
    BY <2>1, <2>a, AuthUpdate
  <2>4. Store(Activate(ensure_config, p), {}) /\ ModelFits(p) /\ UNCHANGED <<popup, unchecked>>
    BY <1>7, <2>1, <2>3, ValidFits DEF AddOpenAiOAuthProvider
  <2> QED BY <1>1, <2>2, <2>3, <2>4, ActivateKeeps
<1>8. ASSUME NEW m \in Models, SetModel(m) PROVE ProviderInv'
  <2>1. PICK p \in Provider : p = [e.provider EXCEPT !.model = m]
    BY <1>3, ModelUpdate DEF MaybeModel
  <2>2. Store(SetActive(p), {}) /\ unchecked' = TRUE /\ popup' = popup
    BY <1>2, <1>8, <2>1 DEF SetModel
  <2> QED BY <1>1, <2>2, SetActiveKeeps
<1>9. CASE SetEndpoint
  <2>1. PICK p : p = [e.provider EXCEPT !.endpoint = TRUE]
    OBVIOUS
  <2>2. p \in Provider /\ p.backend = e.provider.backend /\ p.model = e.provider.model
    BY <1>3, <2>1 DEF Provider
  <2>3. Store(SetActive(p), {}) /\ UNCHANGED <<popup, unchecked>>
    BY <1>2, <1>9, <2>1 DEF SetEndpoint
  <2>4. unchecked \/ ModelFits(p)
    BY <1>3, <2>2 DEF ModelFits
  <2> QED BY <1>1, <2>2, <2>3, <2>4, SetActiveKeeps
<1>10. CASE SetKeyRef
  <2>1. PICK p : p = [e.provider EXCEPT !.key = TRUE, !.auth_method = "ApiKey"]
    OBVIOUS
  <2>2. p \in Provider /\ p.backend = e.provider.backend /\ p.model = e.provider.model
    BY <1>3, <2>1 DEF Provider
  <2>3. Store(SetActive(p), {}) /\ UNCHANGED <<popup, unchecked>>
    BY <1>2, <1>10, <2>1 DEF SetKeyRef
  <2>4. unchecked \/ ModelFits(p)
    BY <1>3, <2>2 DEF ModelFits
  <2> QED BY <1>1, <2>2, <2>3, <2>4, SetActiveKeeps
<1>11. ASSUME NEW b \in Backends, RemoveProvider(b) PROVE ProviderInv'
  BY <1>1, <1>11, RemovedKeeps DEF RemoveProvider
<1> QED BY <1>4, <1>5, <1>6, <1>7, <1>8, <1>9, <1>10, <1>11 DEF Command

(* The popup: what it shows of a provider is in the list, and the model it
   picks is one of the catalogue of that provider. *)
LEMMA ChoiceType ==
  ASSUME ProviderInv
  PROVE  \A q \in Choice : q \in Provider /\ q.backend \in Backends
<1>1. ListedOnce(ensure_config.providers)
  BY EnsureFacts DEF WellFormed
<1> QED BY <1>1 DEF Choice, configured_providers, ListedOnce

LEMMA ModelsType ==
  ASSUME ProviderInv, NEW q \in Provider
  PROVE  models_for(q) \in Seq(MaybeModel) /\ models_for(q) # <<>>
<1>1. q.backend \in Backends \cup {""} /\ q.model \in MaybeModel
  BY DEF Provider, MaybeModel
<1>2. dynamic_models[q.backend].ids \in Lists \cup {<<>>}
  BY <1>1 DEF ProviderInv, ProvidersTypeOK, Catalogue
<1>3. CASE HasModels(q.backend)
  <2>1. PICK ids : ids = dynamic_models[q.backend].ids
    OBVIOUS
  <2>2. ids \in Seq(Models) /\ ids # <<>>
    BY <1>2, <1>3, <2>1, ProvidersAssumption DEF HasModels
  <2>3. ids \in Seq(MaybeModel)
    <3>1. Models \subseteq MaybeModel
      BY DEF MaybeModel
    <3> QED BY <2>2, <3>1
  <2> QED BY <1>3, <2>1, <2>2, <2>3 DEF models_for, get_provider_models
<1>4. CASE ~HasModels(q.backend)
  <2>1. PICK m \in MaybeModel : m = q.model
    BY <1>1
  <2>2. <<m>> \in Seq(MaybeModel) /\ <<m>> # <<>>
    OBVIOUS
  <2> QED BY <1>4, <2>1, <2>2 DEF models_for
<1> QED BY <1>3, <1>4

LEMMA WithModelType ==
  ASSUME ProviderInv, NEW q \in Provider
  PROVE  WithModel(q) \in Provider /\ WithModel(q).backend = q.backend
<1>1. PICK ms \in Seq(MaybeModel) : ms = models_for(q)
  BY ModelsType
<1>2. popup.model \in Nat
  BY DEF ProviderInv, ProvidersTypeOK, Popup
<1>3. popup.model < Len(ms) => ms[popup.model + 1] \in MaybeModel
  <2>1. Len(ms) \in Nat
    OBVIOUS
  <2>2. popup.model < Len(ms) => popup.model + 1 \in 1..Len(ms)
    BY <2>1, <1>2
  <2> QED BY <2>2
<1>4. q.model \in MaybeModel
  BY DEF Provider, MaybeModel
<1>5. PICK m \in MaybeModel : m = IF popup.model < Len(ms) THEN ms[popup.model + 1] ELSE q.model
  BY <1>3, <1>4
<1>6. WithModel(q) = [q EXCEPT !.model = m]
  BY <1>1, <1>5 DEF WithModel
<1> QED BY <1>6, ModelUpdate

LEMMA PopupSelectKeeps == ProviderInv /\ PopupSelect => ProviderInv'
<1> SUFFICES ASSUME ProviderInv, PopupSelect PROVE ProviderInv'
  OBVIOUS
<1>1. popup \in Popup /\ unchecked \in BOOLEAN
  BY DEF ProviderInv, ProvidersTypeOK
<1>2. PICK p \in selected_popup_provider : Store(Activate(ensure_config, p), {})
  BY DEF PopupSelect
<1>3. PICK q \in Choice : p = WithModel(q) /\ validate_provider_model(p.backend, p.model)
  BY <1>2 DEF selected_popup_provider
<1>4. p \in Provider /\ p.backend \in Backends /\ ModelFits(p)
  BY <1>3, ChoiceType, WithModelType, ValidFits
<1>5. popup' \in Popup /\ unchecked' = unchecked
  BY <1>1 DEF PopupSelect, Hidden, Popup
<1> QED BY <1>1, <1>2, <1>4, <1>5, ActivateKeeps

LEMMA PopupDeleteKeeps == ProviderInv /\ PopupDelete => ProviderInv'
<1> SUFFICES ASSUME ProviderInv, PopupDelete PROVE ProviderInv'
  OBVIOUS
<1>1. popup \in Popup
  BY DEF ProviderInv, ProvidersTypeOK
<1>2. popup' \in Popup /\ unchecked' = unchecked
  BY <1>1 DEF PopupDelete, Hidden, Popup
<1>3. PICK p \in Choice : Store(removed(ensure_config, p.backend), {})
  BY DEF PopupDelete
<1> QED BY <1>2, <1>3, RemovedKeeps

LEMMA LastModelsType ==
  ASSUME ProviderInv
  PROVE  LastModels \subseteq Nat /\ LastModels # {}
<1>1. CASE selected_popup_provider = {}
  BY <1>1 DEF LastModels
<1>2. CASE selected_popup_provider # {}
  <2>1. ASSUME NEW p \in selected_popup_provider PROVE Len(models_for(p)) - 1 \in Nat
    <3>1. PICK q \in Choice : p = WithModel(q)
      BY DEF selected_popup_provider
    <3>2. p \in Provider
      BY <3>1, ChoiceType, WithModelType
    <3>3. PICK ms \in Seq(MaybeModel) : ms = models_for(p) /\ ms # <<>>
      BY <3>2, ModelsType
    <3>4. Len(ms) \in Nat /\ Len(ms) # 0
      BY <3>3
    <3> QED BY <3>3, <3>4
  <2> QED BY <1>2, <2>1 DEF LastModels
<1> QED BY <1>1, <1>2

LEMMA PopupMoveKeeps ==
  ASSUME ProviderInv, NEW action, PopupMove(action)
  PROVE  ProviderInv'
<1>1. /\ popup \in Popup /\ popup.provider \in Nat /\ popup.model \in Nat /\ FiledRight
      /\ dynamic_models \in [Backends \cup {""} -> Catalogue]
  BY DEF ProviderInv, ProvidersTypeOK, Popup
<1>2. UNCHANGED <<current_config, dynamic_models, file, changes, unchecked>>
  BY DEF PopupMove
<1>3. FiledRight'
  BY <1>1, <1>2 DEF FiledRight
<1>4. PICK fetches \in SUBSET Light : fetches = maybe_fetch_models
  BY MaybeFetchIsLight, EnsureFacts
<1>5. tasks' \subseteq tasks \cup fetches
  BY <1>4 DEF PopupMove, Emit
<1>6. PICK listed \in Nat : listed = Len(configured_providers)
  <2>1. ensure_config.providers \in Seq(Provider)
    BY EnsureFacts DEF WellFormed, ListedOnce
  <2> QED BY <2>1 DEF configured_providers
<1>7. PICK last \in Nat : last = CHOOSE n \in LastModels : TRUE
  <2>1. (CHOOSE n \in LastModels : TRUE) \in LastModels
    BY LastModelsType
  <2> QED BY <2>1, LastModelsType
<1>8. \A n \in Nat, m \in Nat : Up(n) \in Nat /\ Down(n, m) \in Nat
  BY DEF Up, Down
<1>9. popup' \in Popup
  <2>1. CASE popup' = [popup EXCEPT !.provider = Up(popup.provider)]
    BY <2>1, <1>1, <1>8 DEF Popup
  <2>2. CASE popup' = [popup EXCEPT !.provider = Down(popup.provider, listed), !.model = 0]
    BY <2>2, <1>1, <1>8 DEF Popup
  <2>3. CASE popup' = [popup EXCEPT !.model = Up(popup.model)]
    BY <2>3, <1>1, <1>8 DEF Popup
  <2>4. CASE popup' = [popup EXCEPT !.model = IF popup.model < last THEN popup.model + 1 ELSE last]
    <3>a. PICK n \in Nat : n = popup.model
      BY <1>1
    <3>b. (IF n < last THEN n + 1 ELSE last) \in Nat
      OBVIOUS
    <3>1. PICK m \in Nat : m = IF popup.model < last THEN popup.model + 1 ELSE last
      BY <3>a, <3>b
    <3> QED BY <2>4, <3>1, <1>1 DEF Popup
  <2>5. CASE popup' = [popup EXCEPT !.column = "Provider"]
    BY <2>5, <1>1 DEF Popup
  <2>6. CASE popup' = [popup EXCEPT !.column = "Model", !.model = 0]
    BY <2>6, <1>1 DEF Popup
  <2>7. CASE popup' = Hidden
    BY <2>7, <1>1 DEF Popup, Hidden
  <2> QED BY <1>6, <1>7, <2>1, <2>2, <2>3, <2>4, <2>5, <2>6, <2>7 DEF PopupMove
<1> QED BY <1>1, <1>2, <1>3, <1>5, <1>9, TasksKeep

LEMMA PopupOpens == ProviderInv /\ ShowProviderPopup => ProviderInv'
<1> SUFFICES ASSUME ProviderInv, ShowProviderPopup PROVE ProviderInv'
  OBVIOUS
<1>1. dynamic_models \in [Backends \cup {""} -> Catalogue] /\ FiledRight
  BY DEF ProviderInv, ProvidersTypeOK
<1>2. UNCHANGED <<current_config, dynamic_models, file, changes, unchecked>>
  BY DEF ShowProviderPopup
<1>3. PICK fetches \in SUBSET Light : fetches = maybe_fetch_models
  BY MaybeFetchIsLight, EnsureFacts
<1>4. tasks' = tasks \cup fetches /\ popup' \in Popup
  BY <1>3 DEF ShowProviderPopup, Emit, Popup
<1>5. FiledRight'
  BY <1>1, <1>2 DEF FiledRight
<1> QED BY <1>1, <1>2, <1>4, <1>5, TasksKeep

(* The answers. *)
LEMMA LoggedInKeeps ==
  ASSUME ProviderInv, NEW backend \in Backends, NEW auth \in {"ApiKey", "OpenAiOAuth", "Codex"}, NEW more \in SUBSET Light,
         LoggedIn(backend, auth, more), popup' = popup
  PROVE  ProviderInv'
<1>1. PICK e : e = ensure_config
  OBVIOUS
<1>2. e.provider.model \in {""} \cup Models
  BY <1>1, EnsureFacts DEF WellFormed, Config, Provider
<1>3. PICK m : m = IF ensure_config.provider.model = "" THEN "gpt" ELSE ensure_config.provider.model
  OBVIOUS
<1>4. m \in Models
  BY <1>1, <1>2, <1>3, ProvidersAssumption
<1>5. PICK new \in Provider : new = Entry(backend, m) /\ new.backend = backend
  BY <1>4, EntryType
<1>6. PICK p : p = [new EXCEPT !.auth_method = auth, !.key = FALSE]
  OBVIOUS
<1>9. p \in Provider /\ p.backend = backend
  BY <1>5, <1>6, AuthUpdate
<1>7. Store(Activate(ensure_config, p), more) /\ unchecked' = TRUE
  BY <1>3, <1>5, <1>6 DEF LoggedIn
<1>8. popup' \in Popup
  BY DEF ProviderInv, ProvidersTypeOK
<1> QED BY <1>7, <1>8, <1>9, ActivateKeeps

LEMMA WrittenKeeps ==
  ASSUME ProviderInv, NEW t \in tasks, Written(t)
  PROVE  ProviderInv'
<1>1. /\ file' = t.config /\ tasks' = (tasks \ {t}) \cup {Load}
      /\ UNCHANGED <<current_config, popup, dynamic_models, changes, unchecked>>
  BY DEF Written
<1>2. t \in Task /\ t.config \subseteq Config
  BY DEF ProviderInv, ProvidersTypeOK, Task
<1>3. ProvidersTypeOK'
  BY <1>1, <1>2, LoadIsLight DEF ProviderInv, ProvidersTypeOK, Light
<1>4. FiledRight'
  BY <1>1 DEF ProviderInv, FiledRight
<1>5. ASSUME NEW d \in Held' PROVE d \in Held
  <2>1. CASE d \in current_config'
    BY <2>1, <1>1 DEF Held
  <2>2. CASE d \in file'
    BY <2>2, <1>1 DEF Held
  <2>3. CASE d \in UNION {u.config : u \in tasks'}
    <3>1. PICK u \in tasks' : d \in u.config
      BY <2>3
    <3> QED BY <3>1, <1>1, LoadIsLight DEF Held
  <2> QED BY <2>1, <2>2, <2>3 DEF Held
<1> QED BY <1>1, <1>3, <1>4, <1>5, Keeps

LEMMA SnapshotKeeps ==
  ASSUME ProviderInv, NEW t \in tasks, SnapshotLoaded(t)
  PROVE  ProviderInv'
<1>1. PICK loaded : loaded = {normalize_configured_providers(d) : d \in file}
  OBVIOUS
<1>2. PICK fetches : fetches = UNION {current_provider_models_command(d) : d \in loaded}
  OBVIOUS
<1>3. /\ current_config' = loaded /\ tasks' = (tasks \ {t}) \cup fetches
      /\ UNCHANGED <<popup, dynamic_models, file, changes, unchecked>>
  BY <1>1, <1>2 DEF SnapshotLoaded
<1>4. \A d \in loaded : WellFormed(d) /\ (unchecked \/ AllFit(d))
  <2>1. \A d \in file : WellFormed(d) /\ (unchecked \/ AllFit(d))
    BY DEF ProviderInv, AllWellFormed, HeldFits, Held
  <2> QED BY <1>1, <2>1, NormalizeFacts
<1>5. loaded \subseteq Config
  BY <1>4 DEF WellFormed
<1>6. fetches \subseteq Light
  BY <1>2, <1>5, CommandIsLight
<1>7. ProvidersTypeOK'
  BY <1>3, <1>5, <1>6 DEF ProviderInv, ProvidersTypeOK, Light
<1>8. FiledRight'
  BY <1>3 DEF ProviderInv, FiledRight
<1>9. ASSUME NEW d \in Held' PROVE d \in Held \/ d \in loaded
  <2>1. CASE d \in current_config' \cup file'
    BY <2>1, <1>3 DEF Held
  <2>2. CASE d \in UNION {u.config : u \in tasks'}
    <3>1. PICK u \in tasks' : d \in u.config
      BY <2>2
    <3> QED BY <3>1, <1>3, <1>6 DEF Held, Light
  <2> QED BY <2>1, <2>2 DEF Held
<1> QED BY <1>3, <1>4, <1>7, <1>8, <1>9, Keeps

LEMMA FetchedKeeps ==
  ASSUME ProviderInv, NEW t \in tasks, NEW ids \in Lists, ModelsFetched(t, ids)
  PROVE  ProviderInv'
<1>1. PICK b : b = t.for.backend
  OBVIOUS
<1>2. PICK found : found = Fetched(b, ids)
  OBVIOUS
<1>3. /\ tasks' = tasks \ {t} /\ dynamic_models' = [dynamic_models EXCEPT ![b] = found]
      /\ UNCHANGED <<current_config, popup, file, changes, unchecked>>
  BY <1>1, <1>2 DEF ModelsFetched
<1>4. b \in Backends \cup {""}
  BY <1>1 DEF ProviderInv, ProvidersTypeOK, Task, Provider
<1>5. found \in Catalogue /\ found.backend = b
  BY <1>2, <1>4 DEF Fetched, Catalogue
<1>6. popup' \in Popup /\ dynamic_models \in [Backends \cup {""} -> Catalogue] /\ FiledRight
  BY <1>3 DEF ProviderInv, ProvidersTypeOK
<1>7. dynamic_models' \in [Backends \cup {""} -> Catalogue]
  BY <1>3, <1>5, <1>6
<1>8. FiledRight'
  BY <1>3, <1>4, <1>5, <1>6 DEF FiledRight
<1>9. tasks' \subseteq tasks \cup {} /\ {} \in SUBSET Light
  BY <1>3
<1> QED BY <1>3, <1>6, <1>7, <1>8, <1>9, TasksKeep

LEMMA FailedKeeps ==
  ASSUME ProviderInv, NEW t \in tasks, Failed(t)
  PROVE  ProviderInv'
<1>1. tasks' = tasks \ {t} /\ UNCHANGED <<current_config, popup, dynamic_models, file, changes, unchecked>>
  BY DEF Failed
<1>2. popup' \in Popup /\ dynamic_models' \in [Backends \cup {""} -> Catalogue]
  BY <1>1 DEF ProviderInv, ProvidersTypeOK
<1>3. FiledRight'
  BY <1>1 DEF ProviderInv, FiledRight
<1>4. tasks' \subseteq tasks \cup {} /\ {} \in SUBSET Light
  BY <1>1
<1> QED BY <1>1, <1>2, <1>3, <1>4, TasksKeep

LEMMA AnswerKeeps == ProviderInv /\ Answer => ProviderInv'
<1> SUFFICES ASSUME ProviderInv, Answer PROVE ProviderInv'
  OBVIOUS
<1>1. "openai" \in Backends /\ "codex" \in Backends
  BY ProvidersAssumption
<1>2. CASE ensure_openai_oauth_provider
  <2>1. PICK more \in SUBSET Light : more = {Load} \cup maybe_fetch_models
    <3>1. {Load} \cup maybe_fetch_models \subseteq Light
      BY LoadIsLight, MaybeFetchIsLight, EnsureFacts
    <3> QED BY <3>1
  <2>2. LoggedIn("openai", "OpenAiOAuth", more) /\ popup' = popup
    BY <1>2, <2>1 DEF ensure_openai_oauth_provider
  <2> QED BY <1>1, <2>2, LoggedInKeeps
<1>3. CASE ensure_codex_provider
  <2>1. LoggedIn("codex", "Codex", {}) /\ popup' = popup /\ {} \in SUBSET Light
    BY <1>3 DEF ensure_codex_provider
  <2> QED BY <1>1, <2>1, LoggedInKeeps
<1> QED BY <1>2, <1>3, WrittenKeeps, FetchedKeeps, FailedKeeps DEF Answer

LEMMA ProvidersRest == ProviderInv /\ UNCHANGED providerVars => ProviderInv'
<1> SUFFICES ASSUME ProviderInv, UNCHANGED providerVars PROVE ProviderInv'
  OBVIOUS
<1>1. UNCHANGED <<current_config, popup, dynamic_models, tasks, file, unchecked>>
  BY DEF providerVars
<1>2. Held' = Held
  BY <1>1 DEF Held
<1>3. ProvidersTypeOK' /\ FiledRight'
  BY <1>1 DEF ProviderInv, ProvidersTypeOK, FiledRight
<1> QED BY <1>1, <1>2, <1>3, Keeps

-----------------------------------------------------------------------------
(* The keys and the answers, all of them. *)
LEMMA ProvidersInitially == Init => ProviderInv
<1> SUFFICES ASSUME Init PROVE ProviderInv
  OBVIOUS
<1>1. /\ current_config = {} /\ popup = [visible |-> FALSE, provider |-> 0, model |-> 0, column |-> "Provider"]
      /\ dynamic_models = [b \in Backends \cup {""} |-> Unknown] /\ unchecked = FALSE
  BY DEF Init, ProvidersInit
<1>2. PICK first : first = [Blank EXCEPT !.backend = "openrouter", !.endpoint = TRUE]
  OBVIOUS
<1>3. tasks = {Load, Fetch(first)} /\ first \in Provider
  BY <1>2, ProvidersAssumption, BlankType DEF Init, ProvidersInit, Provider
<1>4. tasks \subseteq Light
  BY <1>3, LoadIsLight, FetchIsLight
<1>5. \A d \in file : WellFormed(d) /\ AllFit(d)
  <2>1. PICK p : p = Entry("openai", "gpt")
    OBVIOUS
  <2>2. PICK m, q :
           m \in OpenRouterIds /\ q = Entry("openrouter", m) /\ file \in {{}, {OldFile(p)}, {NewFile(p, q)}}
    BY <2>1 DEF Init, ProvidersInit
  <2>3. p \in Provider /\ p.backend = "openai" /\ p.model = "gpt" /\ "openai" \in Backends
    BY <2>1, EntryType, ProvidersAssumption
  <2>4. q \in Provider /\ q.backend = "openrouter" /\ q.model = m /\ "openrouter" \in Backends
    BY <2>2, EntryType, ProvidersAssumption
  <2>5. ModelFits(p) /\ ModelFits(q)
    BY <2>3, <2>4, ProvidersAssumption DEF ModelFits
  <2>6. WellFormed(OldFile(p)) /\ AllFit(OldFile(p))
    BY <2>3, <2>5, OldFileFacts
  <2>7. WellFormed(NewFile(p, q)) /\ AllFit(NewFile(p, q))
    <3>1. PICK s : s = <<p, q>>
      OBVIOUS
    <3>2. s \in Seq(Provider) /\ Len(s) = 2 /\ s[1] = p /\ s[2] = q /\ 1..Len(s) = {1, 2}
      BY <3>1, <2>3, <2>4
    <3>3. PICK n : n = NewFile(p, q)
      OBVIOUS
    <3>4. n \in Config /\ n.provider = q /\ n.providers = s
      BY <3>1, <3>2, <3>3, <2>4 DEF NewFile, Config
    <3>5. ListedOnce(s)
      BY <3>2, <2>3, <2>4 DEF ListedOnce
    <3>6. Elements(s) = {p, q}
      BY <3>2, ElementsAre
    <3> QED BY <3>3, <3>4, <3>5, <3>6, <2>5 DEF WellFormed, ActiveIn, AllFit
  <2> QED BY <2>2, <2>6, <2>7
<1>6. Unknown \in Catalogue /\ Unknown.backend = ""
  BY DEF Unknown, Fetched, Catalogue
<1>7. ProvidersTypeOK
  <2>1. file \subseteq Config
    BY <1>5 DEF WellFormed
  <2>2. popup \in Popup
    BY <1>1 DEF Popup
  <2>3. dynamic_models \in [Backends \cup {""} -> Catalogue]
    BY <1>1, <1>6
  <2> QED BY <1>1, <1>4, <2>1, <2>2, <2>3 DEF ProvidersTypeOK, Light
<1>8. FiledRight
  BY <1>1, <1>6 DEF FiledRight
<1>9. Held = file
  BY <1>1, <1>4 DEF Held, Light
<1> QED BY <1>5, <1>7, <1>8, <1>9 DEF ProviderInv, AllWellFormed, HeldFits

LEMMA KeyKeepsProviders ==
  ASSUME ProviderInv, NEW action, NEW key, handle_action(action, key)
  PROVE  ProviderInv'
<1>1. CASE handle_popup_action(action)
  <2>1. CASE insert_add_provider_template
    <3>1. popup' = Hidden /\ UNCHANGED <<current_config, dynamic_models, tasks, file, changes, unchecked>>
      BY <2>1 DEF insert_add_provider_template
    <3>2. popup' \in Popup /\ dynamic_models' \in [Backends \cup {""} -> Catalogue] /\ FiledRight'
      BY <3>1 DEF ProviderInv, ProvidersTypeOK, FiledRight, Hidden, Popup
    <3>3. tasks' \subseteq tasks \cup {} /\ {} \in SUBSET Light
      BY <3>1
    <3> QED BY <3>1, <3>2, <3>3, TasksKeep
  <2> QED BY <1>1, <2>1, PopupMoveKeeps, PopupSelectKeeps, PopupDeleteKeeps DEF handle_popup_action
<1> QED BY <1>1, PopupOpens, ProvidersRest DEF handle_action

LEMMA ProvidersStep == ProviderInv /\ [Next]_shellVars => ProviderInv'
<1>1. ASSUME ProviderInv, Key PROVE ProviderInv'
  BY <1>1, KeyKeepsProviders DEF Key
<1>2. ASSUME ProviderInv, Submitted PROVE ProviderInv'
  BY <1>2, CommandKeeps DEF Submitted
<1>3. ASSUME ProviderInv, Answered PROVE ProviderInv'
  BY <1>3, AnswerKeeps, SnapshotKeeps DEF Answered
<1>4. ASSUME ProviderInv, UNCHANGED shellVars PROVE ProviderInv'
  BY <1>4, ProvidersRest DEF shellVars
<1> QED BY <1>1, <1>2, <1>3, <1>4 DEF Next

(* The inductive invariant of the providers. *)
THEOREM ProvidersInvariant == Spec => []ProviderInv
BY ProvidersInitially, ProvidersStep, PTL DEF Spec

(* Configurations, tasks, popup and catalogues keep their types. *)
THEOREM ProvidersTypeCorrect == Spec => []ProvidersTypeOK
<1>1. ProviderInv => ProvidersTypeOK
  BY DEF ProviderInv
<1> QED BY ProvidersInvariant, <1>1, PTL

(* The active provider is the entry of its backend, and no backend has two,
   for any providers, however they are set, added, picked, removed and loaded
   (app.rs:1149). *)
THEOREM ActiveStaysListed == Spec => []ActiveIsListed
<1>1. ProviderInv => ActiveIsListed
  <2> SUFFICES ASSUME ProviderInv, NEW c \in current_config, Len(c.providers) > 0
               PROVE  /\ (c.provider.backend # "" /\ c.provider.model # "") => c.provider \in Elements(c.providers)
                      /\ \A b \in Backends : Cardinality(Places(c, b)) <= 1
    BY DEF ActiveIsListed
  <2>1. WellFormed(c)
    BY DEF ProviderInv, AllWellFormed, Held
  <2>2. ASSUME NEW b \in Backends PROVE Cardinality(Places(c, b)) <= 1
    <3>1. DOMAIN c.providers = 1..Len(c.providers)
      BY <2>1 DEF WellFormed, ListedOnce
    <3>2. \A i, j \in Places(c, b) : i = j
      BY <2>1, <3>1 DEF WellFormed, ListedOnce, Places
    <3>3. CASE Places(c, b) = {}
      BY <3>3, FS_EmptySet
    <3>4. CASE Places(c, b) # {}
      <4>1. PICK i : Places(c, b) = {i}
        BY <3>2, <3>4
      <4>2. Cardinality({i}) = 1
        BY FS_Singleton
      <4> QED BY <4>1, <4>2
    <3> QED BY <3>3, <3>4
  <2> QED BY <2>1, <2>2 DEF WellFormed, ActiveIn
<1> QED BY ProvidersInvariant, <1>1, PTL

(* No provider meets the catalogue or the models of another, for any catalogues
   and however late they come (app.rs:1321, 1994). *)
THEOREM ModelsKeepToTheirProvider == Spec => []ModelsFitTheirProvider
<1>1. ProviderInv => ModelsFitTheirProvider
  <2> SUFFICES ASSUME ProviderInv PROVE ModelFitsProvider /\ CatalogueIsTheBackends
    BY DEF ModelsFitTheirProvider
  <2>1. unchecked \/ \A c \in current_config : AllFit(c)
    BY DEF ProviderInv, HeldFits, Held
  <2>2. ModelFitsProvider
    BY <2>1 DEF ModelFitsProvider, AllFit, ModelFits
  <2>3. CatalogueIsTheBackends
    BY DEF ProviderInv, FiledRight, CatalogueIsTheBackends
  <2> QED BY <2>2, <2>3
<1> QED BY ProvidersInvariant, <1>1, PTL

-----------------------------------------------------------------------------
(* Sequences. *)
LEMMA Parts ==
  ASSUME NEW S, NEW x \in Seq(S), NEW y \in Seq(S)
  PROVE  /\ SubSeq(x \o y, 1, Len(x)) = x
         /\ SubSeq(x \o y, Len(x) + 1, Len(x \o y)) = y
<1>1. x \o y \in Seq(S) /\ Len(x \o y) = Len(x) + Len(y) /\ Len(x) \in Nat /\ Len(y) \in Nat
  BY ConcatProperties
<1>2. \A i \in 1..Len(x) + Len(y) : (x \o y)[i] = IF i <= Len(x) THEN x[i] ELSE y[i - Len(x)]
  BY ConcatProperties
<1>3. SubSeq(x \o y, 1, Len(x)) = x
  <2> DEFINE p == SubSeq(x \o y, 1, Len(x))
  <2>1. \A i \in 1..Len(x) : (x \o y)[i] \in S /\ (x \o y)[i] = x[i]
    BY <1>1, <1>2
  <2>2. p \in Seq(S) /\ Len(p) = Len(x) /\ \A i \in 1..Len(x) : p[i] = (x \o y)[i]
    BY <1>1, <2>1, SubSeqProperties
  <2> HIDE DEF p
  <2>3. \A i \in 1..Len(p) : p[i] = x[i]
    BY <2>1, <2>2
  <2>4. p = x
    BY <2>2, <2>3, SeqEqual
  <2> QED BY <2>4 DEF p
<1>4. SubSeq(x \o y, Len(x) + 1, Len(x \o y)) = y
  <2> DEFINE q == SubSeq(x \o y, Len(x) + 1, Len(x \o y))
  <2>1. \A i \in Len(x) + 1..Len(x) + Len(y) : (x \o y)[i] \in S /\ (x \o y)[i] = y[i - Len(x)]
    BY <1>1, <1>2
  <2>2. q \in Seq(S) /\ Len(q) = Len(y)
    BY <1>1, <2>1, SubSeqProperties
  <2>3. \A i \in 1..Len(y) : q[i] = (x \o y)[Len(x) + 1 + i - 1]
    BY <1>1, <2>1, SubSeqProperties
  <2> HIDE DEF q
  <2>4. \A i \in 1..Len(q) : q[i] = y[i]
    BY <1>1, <2>1, <2>2, <2>3
  <2>5. q = y
    BY <2>2, <2>4, SeqEqual
  <2> QED BY <2>5 DEF q
<1> QED BY <1>3, <1>4

LEMMA Cat3 ==
  ASSUME NEW S, NEW x \in Seq(S), NEW y \in Seq(S), NEW z \in Seq(S)
  PROVE  /\ x \o y \o z \in Seq(S) /\ x \o y \in Seq(S)
         /\ Len(x \o y \o z) = Len(x) + Len(y) + Len(z)
         /\ x \o y \o z = x \o (y \o z)
<1>1. x \o y \in Seq(S) /\ Len(x \o y) = Len(x) + Len(y)
  BY ConcatProperties
<1>2. (x \o y) \o z \in Seq(S) /\ Len((x \o y) \o z) = Len(x \o y) + Len(z)
  BY <1>1, ConcatProperties
<1>3. (x \o y) \o z = x \o (y \o z)
  BY ConcatAssociative
<1> QED BY <1>1, <1>2, <1>3

LEMMA Cuts ==
  ASSUME NEW S, NEW s \in Seq(S), NEW n \in 0..Len(s)
  PROVE  /\ SubSeq(s, 1, n) \in Seq(S) /\ Len(SubSeq(s, 1, n)) = n
         /\ SubSeq(s, n + 1, Len(s)) \in Seq(S) /\ Len(SubSeq(s, n + 1, Len(s))) = Len(s) - n
         /\ SubSeq(s, 1, n) \o SubSeq(s, n + 1, Len(s)) = s
         /\ \A i \in 1..n : SubSeq(s, 1, n)[i] = s[i]
         /\ \A i \in 1..Len(s) - n : SubSeq(s, n + 1, Len(s))[i] = s[n + i]
<1>1. Len(s) \in Nat /\ \A i \in 1..Len(s) : s[i] \in S
  OBVIOUS
<1>2. n \in Int /\ \A i \in 1..n : s[i] \in S
  BY <1>1
<1>3. n + 1 \in Int /\ \A i \in n + 1..Len(s) : s[i] \in S
  BY <1>1
<1>4. SubSeq(s, 1, n) \in Seq(S) /\ Len(SubSeq(s, 1, n)) = IF 1 <= n THEN n - 1 + 1 ELSE 0
  BY <1>2, SubSeqProperties
<1>5. \A i \in 1..n - 1 + 1 : SubSeq(s, 1, n)[i] = s[1 + i - 1]
  BY <1>2, SubSeqProperties
<1>6. /\ SubSeq(s, n + 1, Len(s)) \in Seq(S)
      /\ Len(SubSeq(s, n + 1, Len(s))) = IF n + 1 <= Len(s) THEN Len(s) - (n + 1) + 1 ELSE 0
  BY <1>1, <1>3, SubSeqProperties
<1>7. \A i \in 1..Len(s) - (n + 1) + 1 : SubSeq(s, n + 1, Len(s))[i] = s[n + 1 + i - 1]
  BY <1>1, <1>3, SubSeqProperties
<1>8. SubSeq(s, 1, n) \o SubSeq(s, n + 1, Len(s)) = SubSeq(s, 1, Len(s))
  <2>1. 1 \in 1..Len(s) + 1 /\ n \in 1 - 1..Len(s) /\ Len(s) \in n..Len(s)
    BY <1>1
  <2> QED BY <2>1, ConcatAdjacentSubSeq
<1>9. SubSeq(s, 1, Len(s)) = s
  BY SubSeqFull
<1>10. \A i \in 1..n : SubSeq(s, 1, n)[i] = s[i]
  BY <1>5
<1>11. \A i \in 1..Len(s) - n : SubSeq(s, n + 1, Len(s))[i] = s[n + i]
  BY <1>1, <1>7
<1>12. Len(SubSeq(s, 1, n)) = n /\ Len(SubSeq(s, n + 1, Len(s))) = Len(s) - n
  BY <1>1, <1>4, <1>6
<1> QED BY <1>4, <1>6, <1>8, <1>9, <1>10, <1>11, <1>12

LEMMA OneAndItsPlace ==
  ASSUME NEW S, NEW a \in Seq(S), NEW x \in S, NEW b \in Seq(S)
  PROVE  /\ <<x>> \in Seq(S) /\ Len(<<x>>) = 1 /\ a \o <<x>> \in Seq(S) /\ a \o <<x>> \o b \in Seq(S)
         /\ Len(a \o <<x>> \o b) = Len(a) + 1 + Len(b)
         /\ (a \o <<x>> \o b)[Len(a) + 1] = x
         /\ SubSeq(a \o <<x>> \o b, 1, Len(a)) = a
         /\ SubSeq(a \o <<x>> \o b, Len(a) + 2, Len(a \o <<x>> \o b)) = b
<1>1. <<x>> \in Seq(S) /\ Len(<<x>>) = 1 /\ <<x>>[1] = x /\ Len(a) \in Nat /\ Len(b) \in Nat
  OBVIOUS
<1>0. PICK o \in Seq(S) : o = <<x>>
  BY <1>1
<1>0a. Len(o) = 1 /\ o[1] = x
  BY <1>0
<1>2. /\ a \o o \in Seq(S) /\ a \o o \o b \in Seq(S)
      /\ Len(a \o o \o b) = Len(a) + 1 + Len(b) /\ a \o o \o b = a \o (o \o b) /\ o \o b \in Seq(S)
  <2>1. a \o o \in Seq(S) /\ a \o o \o b \in Seq(S) /\ a \o o \o b = a \o (o \o b)
    BY <1>0, Cat3
  <2>2. Len(a \o o \o b) = Len(a) + Len(o) + Len(b)
    BY <1>0, <1>0a
  <2>3. o \o b \in Seq(S)
    BY <1>0, <1>0a, ConcatProperties
  <2> QED BY <2>1, <2>2, <2>3, <1>0a
<1>3. Len(a \o o) = Len(a) + 1 /\ (a \o o)[Len(a) + 1] = x
  <2>1. /\ Len(a \o o) = Len(a) + Len(o)
        /\ \A i \in 1..Len(a) + Len(o) : (a \o o)[i] = IF i <= Len(a) THEN a[i] ELSE o[i - Len(a)]
    BY <1>0, <1>0a, ConcatProperties
  <2>2. Len(a) + 1 \in 1..Len(a) + Len(o) /\ ~ (Len(a) + 1 <= Len(a)) /\ (Len(a) + 1) - Len(a) = 1
    BY <1>0a, <1>1
  <2> QED BY <2>1, <2>2, <1>0a
<1>4. (a \o o \o b)[Len(a) + 1] = x
  <2>p. PICK p \in Seq(S) : p = a \o o
    BY <1>2
  <2>0. Len(p) = Len(a) + 1 /\ p[Len(a) + 1] = x
    BY <1>3, <2>p
  <2>1. \A i \in 1..Len(p) + Len(b) : (p \o b)[i] = IF i <= Len(p) THEN p[i] ELSE b[i - Len(p)]
    BY <2>0, <2>p, ConcatProperties
  <2>2. Len(a) + 1 \in 1..Len(p) + Len(b) /\ Len(a) + 1 <= Len(p)
    BY <1>1, <2>0
  <2>3. (p \o b)[Len(a) + 1] = x
    BY <2>0, <2>1, <2>2
  <2> QED BY <2>3, <2>p
<1>5. SubSeq(a \o (o \o b), 1, Len(a)) = a
  BY <1>0, <1>2, Parts
<1>6. SubSeq((a \o o) \o b, Len(a \o o) + 1, Len((a \o o) \o b)) = b
  BY <1>0, <1>2, Parts
<1>7. Len(a \o o) + 1 = Len(a) + 2
  BY <1>1, <1>3
<1>8. /\ SubSeq(a \o o \o b, 1, Len(a)) = a
      /\ SubSeq(a \o o \o b, Len(a) + 2, Len(a \o o \o b)) = b
  BY <1>2, <1>5, <1>6, <1>7
<1> QED BY <1>1, <1>2, <1>4, <1>8, <1>0

-----------------------------------------------------------------------------
(* The same under names of their own: the provers see a text as what these
   lemmas say of it, whatever it is a sequence of. *)
Size(s) == Len(s)
Nil == <<>>
One(x) == <<x>>
Glue(s, t) == s \o t

LEMMA SizeType ==
  ASSUME NEW S, NEW s \in Seq(S)
  PROVE  Size(s) \in Nat
BY DEF Size

LEMMA GlueType ==
  ASSUME NEW S, NEW s \in Seq(S), NEW t \in Seq(S)
  PROVE  Glue(s, t) \in Seq(S)
BY ConcatProperties DEF Glue

LEMMA GlueSize ==
  ASSUME NEW S, NEW s \in Seq(S), NEW t \in Seq(S)
  PROVE  Size(Glue(s, t)) = Size(s) + Size(t)
BY ConcatProperties DEF Glue, Size

LEMMA GlueAssoc ==
  ASSUME NEW S, NEW s \in Seq(S), NEW t \in Seq(S), NEW u \in Seq(S)
  PROVE  Glue(Glue(s, t), u) = Glue(s, Glue(t, u))
BY ConcatAssociative DEF Glue

LEMMA NilFacts ==
  ASSUME NEW S
  PROVE  /\ Nil \in Seq(S) /\ Size(Nil) = 0
         /\ \A s \in Seq(S) : Glue(s, Nil) = s /\ Glue(Nil, s) = s
         /\ \A s \in Seq(S) : Size(s) = 0 <=> s = Nil
<1>1. \A s \in Seq(S) : s \o <<>> = s /\ <<>> \o s = s
  BY ConcatEmptySeq
<1>2. <<>> \in Seq(S) /\ Len(<<>>) = 0
  OBVIOUS
<1>3. \A s \in Seq(S) : Len(s) = 0 <=> s = <<>>
  <2>1. \A s \in Seq(S) : s # <<>> => Len(s) \in Nat \ {0}
    BY EmptySeq
  <2> QED BY <2>1
<1>4. \A s \in Seq(S) : Glue(s, Nil) = s /\ Glue(Nil, s) = s
  BY <1>1 DEF Glue, Nil
<1>5. Nil \in Seq(S) /\ Size(Nil) = 0 /\ \A s \in Seq(S) : Size(s) = 0 <=> s = Nil
  BY <1>2, <1>3 DEF Nil, Size
<1> QED BY <1>4, <1>5

LEMMA OneFacts ==
  ASSUME NEW S, NEW x \in S
  PROVE  One(x) \in Seq(S) /\ Size(One(x)) = 1
BY DEF One, Size

LEMMA TakeType ==
  ASSUME NEW S, NEW s \in Seq(S), NEW n \in 0..Size(s)
  PROVE  /\ take(s, n) \in Seq(S) /\ Size(take(s, n)) = n
         /\ skip(s, n) \in Seq(S) /\ Size(skip(s, n)) = Size(s) - n
         /\ Glue(take(s, n), skip(s, n)) = s
<1>1. n \in 0..Len(s)
  BY DEF Size
<1>2. SubSeq(s, 1, n) \in Seq(S) /\ SubSeq(s, n + 1, Len(s)) \in Seq(S)
  BY <1>1, Cuts
<1>3. Len(SubSeq(s, 1, n)) = n /\ Len(SubSeq(s, n + 1, Len(s))) = Len(s) - n
  BY <1>1, Cuts
<1>4. SubSeq(s, 1, n) \o SubSeq(s, n + 1, Len(s)) = s
  BY <1>1, Cuts
<1>5. Size(take(s, n)) = n /\ Size(skip(s, n)) = Size(s) - n
  BY <1>3 DEF take, skip, Size
<1>6. Glue(take(s, n), skip(s, n)) = s
  BY <1>4 DEF take, skip, Glue
<1> QED BY <1>2, <1>5, <1>6 DEF take, skip

LEMMA TakeOfGlue ==
  ASSUME NEW S, NEW s \in Seq(S), NEW t \in Seq(S)
  PROVE  take(Glue(s, t), Size(s)) = s /\ skip(Glue(s, t), Size(s)) = t
BY Parts DEF Glue, take, skip, Size

(* One element, and what is before and behind it. *)
LEMMA Placed ==
  ASSUME NEW S, NEW s \in Seq(S), NEW x \in S, NEW t \in Seq(S)
  PROVE  /\ Glue(Glue(s, One(x)), t) \in Seq(S) /\ Size(Glue(Glue(s, One(x)), t)) = Size(s) + 1 + Size(t)
         /\ Glue(Glue(s, One(x)), t)[Size(s) + 1] = x
         /\ take(Glue(Glue(s, One(x)), t), Size(s)) = s
         /\ skip(Glue(Glue(s, One(x)), t), Size(s) + 1) = t
<1>1. s \o <<x>> \o t \in Seq(S) /\ Len(s \o <<x>> \o t) = Len(s) + 1 + Len(t)
  BY OneAndItsPlace
<1>2. (s \o <<x>> \o t)[Len(s) + 1] = x
  BY OneAndItsPlace
<1>3. /\ SubSeq(s \o <<x>> \o t, 1, Len(s)) = s
      /\ SubSeq(s \o <<x>> \o t, Len(s) + 2, Len(s \o <<x>> \o t)) = t
  BY OneAndItsPlace
<1>4. (Len(s) + 1) + 1 = Len(s) + 2
  OBVIOUS
<1>5. take(Glue(Glue(s, One(x)), t), Size(s)) = s
  BY <1>3 DEF take, Glue, One, Size
<1>6. skip(Glue(Glue(s, One(x)), t), Size(s) + 1) = t
  BY <1>3, <1>4 DEF skip, Glue, One, Size
<1>7. Glue(Glue(s, One(x)), t) \in Seq(S) /\ Size(Glue(Glue(s, One(x)), t)) = Size(s) + 1 + Size(t)
  BY <1>1 DEF Glue, One, Size
<1>8. Glue(Glue(s, One(x)), t)[Size(s) + 1] = x
  BY <1>2 DEF Glue, One, Size
<1> QED BY <1>5, <1>6, <1>7, <1>8

LEMMA Around ==
  ASSUME NEW S, NEW s \in Seq(S), NEW n \in 1..Size(s)
  PROVE  /\ s[n] \in S
         /\ take(s, n - 1) \in Seq(S) /\ Size(take(s, n - 1)) = n - 1
         /\ skip(s, n) \in Seq(S) /\ Size(skip(s, n)) = Size(s) - n
         /\ s = Glue(Glue(take(s, n - 1), One(s[n])), skip(s, n))
         /\ take(s, n) = Glue(take(s, n - 1), One(s[n]))
<1>1. Size(s) \in Nat /\ n - 1 \in 0..Size(s) /\ n \in 0..Size(s) /\ n \in 1..Len(s) /\ Len(s) \in Nat
  BY DEF Size
<1>2. s[n] \in S
  BY <1>1
<1>3. /\ take(s, n - 1) \in Seq(S) /\ Size(take(s, n - 1)) = n - 1
      /\ skip(s, n) \in Seq(S) /\ Size(skip(s, n)) = Size(s) - n
  BY <1>1, TakeType
<1>4. Glue(take(s, n), skip(s, n)) = s
  BY <1>1, TakeType
<1>5. take(s, n) = Glue(take(s, n - 1), One(s[n]))
  <2>1. 1 \in 1..Len(s) /\ n \in 1..Len(s)
    BY <1>1
  <2>2. SubSeq(s, 1, n) = SubSeq(s, 1, n - 1) \o <<s[n]>>
    BY <2>1, SubSeqRecursiveSecond
  <2> QED BY <2>2 DEF take, Glue, One
<1> QED BY <1>2, <1>3, <1>4, <1>5

LEMMA TakeNone ==
  ASSUME NEW S, NEW s \in Seq(S)
  PROVE  take(s, 0) = Nil /\ take(s, Size(s)) = s /\ skip(s, 0) = s
<1>1. Nil \in Seq(S) /\ Glue(Nil, s) = s /\ Glue(s, Nil) = s /\ Size(Nil) = 0
  BY NilFacts
<1>2. take(Glue(Nil, s), Size(Nil)) = Nil /\ skip(Glue(Nil, s), Size(Nil)) = s
  BY <1>1, TakeOfGlue
<1>3. take(Glue(s, Nil), Size(s)) = s
  BY <1>1, TakeOfGlue
<1> QED BY <1>1, <1>2, <1>3

LEMMA TakeOfTake ==
  ASSUME NEW S, NEW s \in Seq(S), NEW m \in 0..Size(s), NEW n \in 0..m
  PROVE  /\ take(take(s, m), n) = take(s, n) /\ skip(take(s, m), n) \in Seq(S)
         /\ take(s, m) = Glue(take(s, n), skip(take(s, m), n))
<1>1. /\ take(s, m) \in Seq(S) /\ Size(take(s, m)) = m /\ skip(s, m) \in Seq(S)
      /\ Glue(take(s, m), skip(s, m)) = s
  BY TakeType
<1>2. PICK t \in Seq(S) : t = take(s, m)
  BY <1>1
<1>3. n \in 0..Size(t)
  BY <1>1, <1>2
<1>4. PICK x \in Seq(S) : x = take(t, n)
  BY <1>2, <1>3, TakeType
<1>5. PICK y \in Seq(S) : y = skip(t, n)
  BY <1>2, <1>3, TakeType
<1>6. Size(x) = n /\ Glue(x, y) = t
  BY <1>2, <1>3, <1>4, <1>5, TakeType
<1>7. PICK z \in Seq(S) : z = skip(s, m)
  BY <1>1
<1>8. s = Glue(x, Glue(y, z)) /\ Glue(y, z) \in Seq(S)
  BY <1>1, <1>2, <1>4, <1>5, <1>6, <1>7, GlueAssoc, GlueType
<1>9. take(s, n) = x
  BY <1>4, <1>6, <1>8, TakeOfGlue
<1> QED BY <1>2, <1>4, <1>5, <1>6, <1>9

LEMMA Replaced ==
  ASSUME NEW S, NEW s \in Seq(S), NEW n \in 1..Size(s), NEW x \in S
  PROVE  [s EXCEPT ![n] = x] = Glue(Glue(take(s, n - 1), One(x)), skip(s, n))
<1>1. n \in 1..Len(s) /\ Len(s) \in Nat
  BY DEF Size
<1>2. PICK p \in Seq(S) : p = take(s, n - 1)
  BY Around
<1>3. PICK q \in Seq(S) : q = skip(s, n)
  BY Around
<1>4. Len(p) = n - 1 /\ Len(q) = Len(s) - n
  BY <1>2, <1>3, Around DEF Size
<1>5. \A i \in 1..n - 1 : p[i] = s[i]
  <2>1. n - 1 \in 0..Len(s)
    BY <1>1
  <2> QED BY <1>2, <2>1, Cuts DEF take
<1>6. \A i \in 1..Len(s) - n : q[i] = s[n + i]
  <2>1. n \in 0..Len(s)
    BY <1>1
  <2> QED BY <1>3, <2>1, Cuts DEF skip
<1>7. PICK w \in Seq(S) : w = [s EXCEPT ![n] = x]
  BY <1>1, ExceptSeq
<1>8. Len(w) = Len(s) /\ \A j \in 1..Len(s) : w[j] = IF j = n THEN x ELSE s[j]
  BY <1>1, <1>7, ExceptSeq
<1>9. PICK v \in Seq(S) : v = Glue(Glue(p, One(x)), q)
  BY <1>2, <1>3, Placed
<1>10. v = p \o <<x>> \o q
  BY <1>9 DEF Glue, One
<1>11. Len(v) = Len(s)
  <2>1. Size(v) = Size(p) + 1 + Size(q)
    BY <1>2, <1>3, <1>9, Placed
  <2>2. Len(v) = Len(p) + 1 + Len(q)
    BY <2>1 DEF Size
  <2> QED BY <2>2, <1>1, <1>4
<1>12. ASSUME NEW j \in 1..Len(s) PROVE v[j] = w[j]
  <2>1. PICK o \in Seq(S) : o = p \o <<x>>
    BY <1>2, OneAndItsPlace
  <2>2. Len(o) = n /\ o[n] = x /\ \A i \in 1..n - 1 : o[i] = p[i]
    <3>1. <<x>> \in Seq(S) /\ Len(<<x>>) = 1 /\ <<x>>[1] = x
      OBVIOUS
    <3>2. PICK u \in Seq(S) : u = <<x>>
      BY <3>1
    <3>3. Len(p \o u) = Len(p) + Len(u)
      BY <1>2, <3>2, ConcatProperties
    <3>4. \A i \in 1..Len(p) + Len(u) : (p \o u)[i] = IF i <= Len(p) THEN p[i] ELSE u[i - Len(p)]
      BY <1>2, <3>2, ConcatProperties
    <3>5. Len(u) = 1 /\ u[1] = x /\ o = p \o u
      BY <2>1, <3>1, <3>2
    <3>6. Len(o) = n
      BY <3>3, <3>5, <1>1, <1>4
    <3>7. n \in 1..Len(p) + Len(u) /\ ~ (n <= Len(p)) /\ n - Len(p) = 1
      BY <3>5, <1>1, <1>4
    <3>8. o[n] = x
      BY <3>4, <3>5, <3>7
    <3>9. \A i \in 1..n - 1 : i \in 1..Len(p) + Len(u) /\ i <= Len(p)
      BY <3>5, <1>1, <1>4
    <3>10. \A i \in 1..n - 1 : o[i] = p[i]
      BY <3>4, <3>5, <3>9
    <3> QED BY <3>6, <3>8, <3>10
  <2>3. \A i \in 1..Len(o) + Len(q) : (o \o q)[i] = IF i <= Len(o) THEN o[i] ELSE q[i - Len(o)]
    BY <2>1, <1>3, ConcatProperties
  <2>4. v = o \o q
    BY <2>1, <1>10
  <2>5. j \in 1..Len(o) + Len(q)
    BY <2>2, <1>1, <1>4
  <2>6. v[j] = IF j <= n THEN o[j] ELSE q[j - n]
    BY <2>2, <2>3, <2>4, <2>5
  <2>7. CASE j < n
    <3>1. j \in 1..n - 1 /\ j <= n /\ j # n
      BY <2>7, <1>1
    <3> QED BY <3>1, <2>2, <2>6, <1>5, <1>8
  <2>8. CASE j = n
    BY <2>8, <2>2, <2>6, <1>1, <1>8
  <2>9. CASE j > n
    <3>1. j - n \in 1..Len(s) - n /\ n + (j - n) = j /\ ~ (j <= n) /\ j # n
      BY <2>9, <1>1
    <3>2. q[j - n] = s[n + (j - n)]
      BY <3>1, <1>6
    <3> QED BY <3>1, <3>2, <2>6, <1>8
  <2> QED BY <2>7, <2>8, <2>9, <1>1
<1>13. v = w
  BY <1>7, <1>8, <1>9, <1>11, <1>12, SeqEqual
<1> QED BY <1>2, <1>3, <1>7, <1>9, <1>13

-----------------------------------------------------------------------------
(* The lines as one text: Whole is to_text without the buffer around it. *)
Whole(L) ==
  LET joined[n \in 1..Len(L)] == IF n = 1 THEN L[1] ELSE joined[n - 1] \o <<NewLine>> \o L[n]
  IN joined[Len(L)]
Joined(f, L) == \A n \in 1..Len(L) : f[n] = IF n = 1 THEN L[1] ELSE f[n - 1] \o <<NewLine>> \o L[n]

LEMMA SomeJoined ==
  ASSUME NEW S, NewLine \in S, NEW L \in Seq(Seq(S)), L # <<>>
  PROVE  \E f \in [1..Len(L) -> Seq(S)] : Joined(f, L)
<1> DEFINE step == [n \in 1..Len(L) |-> [k \in Seq(S) |-> k \o <<NewLine>> \o L[n]]]
<1>1. Len(L) \in Nat /\ 1 <= Len(L) /\ 1 \in 1..Len(L)
  BY EmptySeq
<1>2. \A n \in 1..Len(L) : L[n] \in Seq(S)
  OBVIOUS
<1>3. <<NewLine>> \in Seq(S)
  OBVIOUS
<1>4. \A n \in 1..Len(L), k \in Seq(S) : k \o <<NewLine>> \o L[n] \in Seq(S)
  BY <1>2, <1>3, Cat3
<1>5. step \in [1..Len(L) -> [Seq(S) -> Seq(S)]]
  BY <1>4
<1>6. \A n \in 1..Len(L), k \in Seq(S) : step[n][k] = k \o <<NewLine>> \o L[n]
  OBVIOUS
<1> HIDE DEF step
<1>7. PICK f \in [1..Len(L) -> Seq(S)] : Computed(f, 1, Len(L), L[1], step)
  BY <1>1, <1>2, <1>5, Recursion
<1>8. ASSUME NEW n \in 1..Len(L) PROVE f[n] = IF n = 1 THEN L[1] ELSE f[n - 1] \o <<NewLine>> \o L[n]
  <2>1. f[n] = IF n = 1 THEN L[1] ELSE step[n][f[n - 1]]
    BY <1>7 DEF Computed
  <2>2. n # 1 => n - 1 \in 1..Len(L)
    BY <1>1
  <2>3. n # 1 => step[n][f[n - 1]] = f[n - 1] \o <<NewLine>> \o L[n]
    BY <1>6, <2>2
  <2> QED BY <2>1, <2>3
<1>9. Joined(f, L)
  BY <1>8 DEF Joined
<1> QED BY <1>9

LEMMA SameJoined ==
  ASSUME NEW L, Len(L) \in Nat, NEW f, NEW g, Joined(f, L), Joined(g, L)
  PROVE  \A n \in 1..Len(L) : f[n] = g[n]
<1> DEFINE same == {n \in 1..Len(L) : f[n] = g[n]}
<1>1. CASE Len(L) = 0
  BY <1>1
<1>2. CASE Len(L) # 0
  <2>1. 1 \in same
    BY <1>2 DEF Joined
  <2>2. ASSUME NEW n \in 1..Len(L), n # Len(L), n \in same PROVE n + 1 \in same
    <3>1. n + 1 \in 1..Len(L) /\ n + 1 # 1 /\ (n + 1) - 1 = n
      BY <2>2
    <3>2. f[n + 1] = f[n] \o <<NewLine>> \o L[n + 1] /\ g[n + 1] = g[n] \o <<NewLine>> \o L[n + 1]
      BY <3>1 DEF Joined
    <3> QED BY <2>2, <3>1, <3>2
  <2> HIDE DEF same
  <2>3. 1..Len(L) \subseteq same
    BY <2>1, <2>2, UpTo
  <2> QED BY <2>3 DEF same
<1> QED BY <1>1, <1>2

LEMMA WholeIsJoined ==
  ASSUME NEW S, NewLine \in S, NEW L \in Seq(Seq(S)), L # <<>>, NEW f, Joined(f, L)
  PROVE  Whole(L) = f[Len(L)] /\ Whole(L) \in Seq(S)
<1> DEFINE value(g, n) == IF n = 1 THEN L[1] ELSE g[n - 1] \o <<NewLine>> \o L[n]
           it == CHOOSE g : g = [n \in 1..Len(L) |-> value(g, n)]
<1>1. Len(L) \in Nat /\ Len(L) \in 1..Len(L)
  BY EmptySeq
<1>2. PICK g \in [1..Len(L) -> Seq(S)] : Joined(g, L)
  BY SomeJoined
<1>3. g = [n \in 1..Len(L) |-> value(g, n)]
  <2>1. \A n \in 1..Len(L) : g[n] = value(g, n)
    BY <1>2 DEF Joined
  <2> HIDE DEF value
  <2> QED BY <2>1
<1>4. it = [n \in 1..Len(L) |-> value(it, n)]
  <2> HIDE DEF value
  <2> QED BY <1>3
<1>5. Whole(L) = it[Len(L)]
  BY DEF Whole
<1>6. Joined(it, L)
  <2> HIDE DEF it
  <2>1. \A n \in 1..Len(L) : it[n] = value(it, n)
    <3> HIDE DEF value
    <3> QED BY <1>4
  <2> QED BY <2>1 DEF Joined
<1> HIDE DEF it
<1>7. it[Len(L)] = f[Len(L)] /\ it[Len(L)] = g[Len(L)]
  BY <1>1, <1>2, <1>6, SameJoined
<1>8. g[Len(L)] \in Seq(S)
  BY <1>1
<1> QED BY <1>5, <1>7, <1>8

LEMMA WholeOfOne ==
  ASSUME NEW S, NewLine \in S, NEW x \in Seq(S)
  PROVE  <<x>> \in Seq(Seq(S)) /\ <<x>> # <<>> /\ Whole(<<x>>) = x
<1> DEFINE L == <<x>>
<1>1. L \in Seq(Seq(S)) /\ Len(L) = 1 /\ L[1] = x /\ L # <<>>
  OBVIOUS
<1> HIDE DEF L
<1>2. PICK f \in [1..Len(L) -> Seq(S)] : Joined(f, L)
  BY <1>1, SomeJoined
<1>3. f[1] = x
  BY <1>1, <1>2 DEF Joined
<1>4. Whole(L) = x
  BY <1>1, <1>2, <1>3, WholeIsJoined
<1> QED BY <1>1, <1>4 DEF L

LEMMA WholeAndOne ==
  ASSUME NEW S, NewLine \in S, NEW A \in Seq(Seq(S)), A # <<>>, NEW x \in Seq(S)
  PROVE  /\ A \o <<x>> \in Seq(Seq(S)) /\ A \o <<x>> # <<>> /\ Whole(A) \in Seq(S)
         /\ Whole(A \o <<x>>) = Whole(A) \o <<NewLine>> \o x
<1> DEFINE L == A \o <<x>>
<1>1. L \in Seq(Seq(S)) /\ Len(L) = Len(A) + 1 /\ Len(A) \in Nat /\ Len(A) >= 1
  <2>1. <<x>> \in Seq(Seq(S)) /\ Len(<<x>>) = 1
    OBVIOUS
  <2> QED BY <2>1, ConcatProperties, EmptySeq
<1>2. \A n \in 1..Len(A) : L[n] = A[n]
  OBVIOUS
<1>3. L[Len(A) + 1] = x
  OBVIOUS
<1> HIDE DEF L
<1>4. L # <<>>
  BY <1>1
<1>5. PICK f \in [1..Len(L) -> Seq(S)] : Joined(f, L)
  BY <1>1, <1>4, SomeJoined
<1>6. Joined(f, A)
  <2>1. ASSUME NEW n \in 1..Len(A) PROVE f[n] = IF n = 1 THEN A[1] ELSE f[n - 1] \o <<NewLine>> \o A[n]
    <3>1. n \in 1..Len(L) /\ L[n] = A[n] /\ L[1] = A[1]
      BY <1>1, <1>2
    <3> QED BY <3>1, <1>5 DEF Joined
  <2> QED BY <2>1 DEF Joined
<1>7. Whole(A) = f[Len(A)] /\ Whole(A) \in Seq(S) /\ Whole(L) = f[Len(L)]
  BY <1>1, <1>4, <1>5, <1>6, WholeIsJoined
<1>8. f[Len(A) + 1] = f[Len(A)] \o <<NewLine>> \o x
  <2>1. Len(A) + 1 \in 1..Len(L) /\ Len(A) + 1 # 1 /\ (Len(A) + 1) - 1 = Len(A)
    BY <1>1
  <2> QED BY <2>1, <1>3, <1>5 DEF Joined
<1> QED BY <1>1, <1>4, <1>7, <1>8 DEF L

(* The same for texts that are put together. *)
LEMMA WholeOne ==
  ASSUME NEW S, NewLine \in S, NEW x \in Seq(S)
  PROVE  Whole(One(x)) = x
BY WholeOfOne DEF One

LEMMA WholeType ==
  ASSUME NEW S, NewLine \in S, NEW A \in Seq(Seq(S)), Size(A) # 0
  PROVE  Whole(A) \in Seq(S)
<1>1. A # <<>>
  BY DEF Size
<1>2. PICK f \in [1..Len(A) -> Seq(S)] : Joined(f, A)
  BY <1>1, SomeJoined
<1> QED BY <1>1, <1>2, WholeIsJoined

LEMMA WholePlusOne ==
  ASSUME NEW S, NewLine \in S, NEW A \in Seq(Seq(S)), Size(A) # 0, NEW x \in Seq(S)
  PROVE  Whole(Glue(A, One(x))) = Glue(Glue(Whole(A), One(NewLine)), x)
<1>1. A # <<>>
  BY DEF Size
<1>2. Whole(A \o <<x>>) = Whole(A) \o <<NewLine>> \o x
  BY <1>1, WholeAndOne
<1> QED BY <1>2 DEF Glue, One

LEMMA WholeGlue ==
  ASSUME NEW S, NewLine \in S, NEW A \in Seq(Seq(S)), Size(A) # 0, NEW B \in Seq(Seq(S)), Size(B) # 0
  PROVE  Whole(Glue(A, B)) = Glue(Glue(Whole(A), One(NewLine)), Whole(B))
<1> DEFINE wa == Glue(Whole(A), One(NewLine))
           done == {n \in 1..Size(B) : Whole(Glue(A, take(B, n))) = Glue(wa, Whole(take(B, n)))}
<1>1. Size(B) \in Nat /\ Size(A) \in Nat /\ 1 \in 1..Size(B) /\ Size(B) \in 1..Size(B) /\ 1..Size(B) \subseteq 0..Size(B)
  <2>1. Size(B) \in Nat /\ Size(A) \in Nat
    BY SizeType
  <2> QED BY <2>1
<1>2. One(NewLine) \in Seq(S) /\ Whole(A) \in Seq(S) /\ wa \in Seq(S)
  BY OneFacts, WholeType, GlueType
<1>3. \A n \in 1..Size(B) : take(B, n) \in Seq(Seq(S)) /\ Size(take(B, n)) = n
  BY <1>1, TakeType
<1>4. take(B, Size(B)) = B
  <2>1. Glue(B, Nil) = B /\ Nil \in Seq(Seq(S))
    BY NilFacts
  <2>2. take(Glue(B, Nil), Size(B)) = B
    BY <2>1, TakeOfGlue
  <2> QED BY <2>1, <2>2
<1>5. take(B, 1) = One(B[1]) /\ B[1] \in Seq(S)
  <2>1. /\ take(B, 1 - 1) \in Seq(Seq(S)) /\ Size(take(B, 1 - 1)) = 1 - 1
        /\ skip(B, 1) \in Seq(Seq(S)) /\ B[1] \in Seq(S)
        /\ B = Glue(Glue(take(B, 1 - 1), One(B[1])), skip(B, 1))
    BY <1>1, Around
  <2>2. take(B, 1 - 1) = Nil /\ One(B[1]) \in Seq(Seq(S)) /\ Size(One(B[1])) = 1
    BY <2>1, NilFacts, OneFacts
  <2>3. Glue(Nil, One(B[1])) = One(B[1])
    BY <2>2, NilFacts
  <2>4. take(Glue(One(B[1]), skip(B, 1)), Size(One(B[1]))) = One(B[1])
    BY <2>1, <2>2, TakeOfGlue
  <2> QED BY <2>1, <2>2, <2>3, <2>4
<1>6. ASSUME NEW n \in 1..Size(B), n # Size(B)
      PROVE  /\ take(B, n + 1) = Glue(take(B, n), One(B[n + 1])) /\ B[n + 1] \in Seq(S)
             /\ n + 1 \in 1..Size(B)
  <2>1. n + 1 \in 1..Size(B) /\ (n + 1) - 1 = n /\ n + 1 \in 0..Size(B)
    BY <1>1, <1>6
  <2>2. /\ take(B, n) \in Seq(Seq(S)) /\ Size(take(B, n)) = n
        /\ skip(B, n + 1) \in Seq(Seq(S)) /\ B[n + 1] \in Seq(S)
        /\ B = Glue(Glue(take(B, n), One(B[n + 1])), skip(B, n + 1))
    BY <2>1, Around
  <2>3. One(B[n + 1]) \in Seq(Seq(S)) /\ Size(One(B[n + 1])) = 1
    BY <2>2, OneFacts
  <2>4. /\ Glue(take(B, n), One(B[n + 1])) \in Seq(Seq(S))
        /\ Size(Glue(take(B, n), One(B[n + 1]))) = n + 1
    BY <2>2, <2>3, GlueType, GlueSize
  <2>5. take(Glue(Glue(take(B, n), One(B[n + 1])), skip(B, n + 1)), n + 1) = Glue(take(B, n), One(B[n + 1]))
    BY <2>2, <2>4, TakeOfGlue
  <2> QED BY <2>1, <2>2, <2>5
<1>7. 1 \in done
  <2>1. Whole(Glue(A, One(B[1]))) = Glue(wa, B[1]) /\ Whole(One(B[1])) = B[1]
    BY <1>5, WholePlusOne, WholeOne
  <2> HIDE DEF wa
  <2> QED BY <2>1, <1>1, <1>5
<1>8. ASSUME NEW n \in 1..Size(B), n # Size(B), n \in done PROVE n + 1 \in done
  <2>p. PICK p \in Seq(Seq(S)) : p = take(B, n)
    BY <1>3, <1>8
  <2>x. PICK x \in Seq(S) : x = B[n + 1]
    BY <1>6, <1>8
  <2>1. Size(p) # 0 /\ take(B, n + 1) = Glue(p, One(x)) /\ Whole(Glue(A, p)) = Glue(wa, Whole(p))
    BY <1>3, <1>6, <1>8, <2>p, <2>x
  <2>2. One(x) \in Seq(Seq(S)) /\ p \in Seq(Seq(S)) /\ x \in Seq(S)
    BY <2>p, <2>x, OneFacts
  <2>3. Whole(Glue(p, One(x))) = Glue(Glue(Whole(p), One(NewLine)), x) /\ Whole(p) \in Seq(S)
    BY <2>1, <2>2, WholePlusOne, WholeType
  <2>4. Glue(A, p) \in Seq(Seq(S)) /\ Size(Glue(A, p)) # 0
    <3>1. Glue(A, p) \in Seq(Seq(S)) /\ Size(Glue(A, p)) = Size(A) + Size(p) /\ Size(p) \in Nat
      BY <2>2, GlueType, GlueSize, SizeType
    <3> QED BY <3>1, <1>1, <2>1
  <2>5. Glue(A, Glue(p, One(x))) = Glue(Glue(A, p), One(x))
    BY <2>2, GlueAssoc
  <2>6. Whole(Glue(Glue(A, p), One(x))) = Glue(Glue(Whole(Glue(A, p)), One(NewLine)), x)
    BY <2>2, <2>4, WholePlusOne
  <2>7. Glue(Glue(Glue(wa, Whole(p)), One(NewLine)), x) = Glue(wa, Glue(Glue(Whole(p), One(NewLine)), x))
    <3> HIDE DEF wa
    <3> QED BY <1>2, <2>2, <2>3, GlueType, GlueAssoc
  <2>8. Whole(Glue(A, Glue(p, One(x)))) = Glue(wa, Whole(Glue(p, One(x))))
    BY <2>1, <2>3, <2>5, <2>6, <2>7
  <2>9. n + 1 \in 1..Size(B)
    BY <1>6, <1>8
  <2> QED BY <2>1, <2>8, <2>9
<1> HIDE DEF done
<1>9. 1..Size(B) \subseteq done
  BY <1>1, <1>7, <1>8, UpTo
<1> QED BY <1>1, <1>4, <1>9 DEF done

(* What is in a text before a line that follows A, and behind one that B follows. *)
Lead(A) == IF Size(A) = 0 THEN Nil ELSE Glue(Whole(A), One(NewLine))
Rest(B) == IF Size(B) = 0 THEN Nil ELSE Glue(One(NewLine), Whole(B))

LEMMA LeadType ==
  ASSUME NEW S, NewLine \in S, NEW A \in Seq(Seq(S))
  PROVE  Lead(A) \in Seq(S) /\ Rest(A) \in Seq(S)
BY NilFacts, OneFacts, WholeType, GlueType DEF Lead, Rest

LEMMA LeadPlusOne ==
  ASSUME NEW S, NewLine \in S, NEW A \in Seq(Seq(S)), NEW x \in Seq(S)
  PROVE  /\ Whole(Glue(A, One(x))) = Glue(Lead(A), x)
         /\ Lead(Glue(A, One(x))) = Glue(Glue(Lead(A), x), One(NewLine))
<1>1. One(x) \in Seq(Seq(S)) /\ Size(One(x)) = 1 /\ Size(A) \in Nat
  BY OneFacts, SizeType
<1>2. Whole(Glue(A, One(x))) = Glue(Lead(A), x)
  <2>1. CASE Size(A) = 0
    <3>1. A = Nil
      BY <2>1, NilFacts
    <3>2. Glue(A, One(x)) = One(x) /\ Glue(Nil, x) = x
      BY <3>1, <1>1, NilFacts
    <3>3. Whole(One(x)) = x
      BY WholeOne
    <3> QED BY <2>1, <3>2, <3>3 DEF Lead
  <2>2. CASE Size(A) # 0
    <3>1. Whole(Glue(A, One(x))) = Glue(Glue(Whole(A), One(NewLine)), x)
      BY <2>2, WholePlusOne
    <3> QED BY <2>2, <3>1 DEF Lead
  <2> QED BY <2>1, <2>2
<1>3. Size(Glue(A, One(x))) # 0
  <2>1. Size(Glue(A, One(x))) = Size(A) + Size(One(x))
    BY <1>1, GlueSize
  <2> QED BY <1>1, <2>1
<1> QED BY <1>2, <1>3 DEF Lead

LEMMA WholeAround ==
  ASSUME NEW S, NewLine \in S, NEW A \in Seq(Seq(S)), NEW x \in Seq(S), NEW B \in Seq(Seq(S))
  PROVE  Whole(Glue(Glue(A, One(x)), B)) = Glue(Glue(Lead(A), x), Rest(B))
<1>1. One(x) \in Seq(Seq(S)) /\ Size(One(x)) = 1 /\ Size(A) \in Nat
  BY OneFacts, SizeType
<1>2. PICK L \in Seq(Seq(S)) : L = Glue(A, One(x))
  BY <1>1, GlueType
<1>3. Whole(L) = Glue(Lead(A), x) /\ L \in Seq(Seq(S))
  BY <1>2, LeadPlusOne
<1>4. Size(L) # 0
  <2>1. Size(L) = Size(A) + Size(One(x))
    BY <1>1, <1>2, GlueSize
  <2> QED BY <1>1, <2>1
<1>5. Whole(L) \in Seq(S) /\ One(NewLine) \in Seq(S)
  BY <1>3, <1>4, WholeType, OneFacts
<1>6. CASE Size(B) = 0
  <2>1. B = Nil
    BY <1>6, NilFacts
  <2>2. Glue(L, B) = L /\ Glue(Whole(L), Nil) = Whole(L)
    BY <2>1, <1>3, <1>5, NilFacts
  <2> QED BY <2>2, <1>2, <1>3, <1>6 DEF Rest
<1>7. CASE Size(B) # 0
  <2>1. Whole(Glue(L, B)) = Glue(Glue(Whole(L), One(NewLine)), Whole(B)) /\ Whole(B) \in Seq(S)
    BY <1>3, <1>4, <1>7, WholeGlue, WholeType
  <2>2. Glue(Glue(Whole(L), One(NewLine)), Whole(B)) = Glue(Whole(L), Glue(One(NewLine), Whole(B)))
    BY <1>5, <2>1, GlueAssoc
  <2> QED BY <2>1, <2>2, <1>2, <1>3, <1>7 DEF Rest
<1> QED BY <1>6, <1>7

LEMMA LeadGrows ==
  ASSUME NEW S, NewLine \in S, NEW A \in Seq(Seq(S)), NEW B \in Seq(Seq(S))
  PROVE  Size(Lead(A)) <= Size(Lead(Glue(A, B)))
<1>1. Lead(A) \in Seq(S) /\ Size(Lead(A)) \in Nat /\ Size(A) \in Nat /\ Size(B) \in Nat
  BY LeadType, SizeType
<1>2. Glue(A, B) \in Seq(Seq(S)) /\ Size(Glue(A, B)) = Size(A) + Size(B)
  BY GlueType, GlueSize
<1>3. Size(Lead(Glue(A, B))) \in Nat
  BY <1>2, LeadType, SizeType
<1>4. CASE Size(A) = 0
  <2>1. Size(Lead(A)) = 0
    BY <1>4, NilFacts DEF Lead
  <2> QED BY <2>1, <1>3
<1>5. CASE Size(B) = 0
  <2>1. Glue(A, B) = A
    BY <1>5, NilFacts
  <2> QED BY <2>1, <1>1
<1>6. CASE Size(A) # 0 /\ Size(B) # 0
  <2>1. /\ Whole(Glue(A, B)) = Glue(Glue(Whole(A), One(NewLine)), Whole(B))
        /\ Whole(A) \in Seq(S) /\ Whole(B) \in Seq(S) /\ One(NewLine) \in Seq(S)
    BY <1>6, WholeGlue, WholeType, OneFacts
  <2>2. Size(Glue(A, B)) # 0
    BY <1>1, <1>2, <1>6
  <2>3. Lead(A) = Glue(Whole(A), One(NewLine)) /\ Lead(Glue(A, B)) = Glue(Glue(Lead(A), Whole(B)), One(NewLine))
    BY <2>1, <2>2, <1>6 DEF Lead
  <2>4. Glue(Lead(A), Whole(B)) \in Seq(S) /\ Size(Glue(Lead(A), Whole(B))) = Size(Lead(A)) + Size(Whole(B))
    BY <1>1, <2>1, GlueType, GlueSize
  <2>5. Size(Lead(Glue(A, B))) = Size(Lead(A)) + Size(Whole(B)) + Size(One(NewLine))
    BY <2>1, <2>3, <2>4, GlueSize
  <2>6. Size(Whole(B)) \in Nat /\ Size(One(NewLine)) \in Nat
    BY <2>1, SizeType
  <2> QED BY <2>5, <2>6, <1>1
<1> QED BY <1>4, <1>5, <1>6

-----------------------------------------------------------------------------
(* A place in the lines and in the text: the row and the column, how far it is
   from the beginning, and what the text has before and behind it. *)
IsPlace(L, r, c) == r \in 1..Size(L) /\ c \in 0..Size(L[r])
Start(L, r) == Size(Lead(take(L, r - 1)))
Far(L, r, c) == Start(L, r) + c
Pre(L, r, c) == Glue(Lead(take(L, r - 1)), take(L[r], c))
Post(L, r, c) == Glue(skip(L[r], c), Rest(skip(L, r)))

LEMMA StartType ==
  ASSUME NEW S, NewLine \in S, NEW L \in Seq(Seq(S)), NEW r \in 1..Size(L)
  PROVE  /\ Start(L, r) \in Nat /\ Size(L) \in Nat
         /\ L[r] \in Seq(S) /\ Size(L[r]) \in Nat
         /\ r + 1 \in 1..Size(L) => Start(L, r + 1) = Start(L, r) + Size(L[r]) + 1
         /\ Start(L, 1) = 0
<1>1. /\ L[r] \in Seq(S) /\ take(L, r - 1) \in Seq(Seq(S))
      /\ take(L, r) = Glue(take(L, r - 1), One(L[r]))
  BY Around
<1>2. PICK A \in Seq(Seq(S)) : A = take(L, r - 1)
  BY <1>1
<1>3. PICK x \in Seq(S) : x = L[r]
  BY <1>1
<1>4. Lead(A) \in Seq(S) /\ Size(Lead(A)) \in Nat /\ Size(x) \in Nat /\ Size(L) \in Nat
  BY <1>2, <1>3, LeadType, SizeType
<1>5. Lead(Glue(A, One(x))) = Glue(Glue(Lead(A), x), One(NewLine))
  BY <1>2, <1>3, LeadPlusOne
<1>6. Glue(Lead(A), x) \in Seq(S) /\ Size(Glue(Lead(A), x)) = Size(Lead(A)) + Size(x)
  BY <1>3, <1>4, GlueType, GlueSize
<1>7. One(NewLine) \in Seq(S) /\ Size(One(NewLine)) = 1
  BY OneFacts
<1>8. Size(Lead(Glue(A, One(x)))) = Size(Lead(A)) + Size(x) + 1
  BY <1>5, <1>6, <1>7, GlueSize
<1>9. r + 1 \in 1..Size(L) => Start(L, r + 1) = Start(L, r) + Size(L[r]) + 1
  <2>1. (r + 1) - 1 = r
    OBVIOUS
  <2> QED BY <2>1, <1>1, <1>2, <1>3, <1>8 DEF Start
<1>10. Start(L, 1) = 0
  <2>1. take(L, 1 - 1) = Nil
    BY TakeNone
  <2>2. Lead(Nil) = Nil /\ Size(Nil) = 0
    BY NilFacts DEF Lead
  <2> QED BY <2>1, <2>2 DEF Start
<1> QED BY <1>1, <1>2, <1>3, <1>4, <1>9, <1>10 DEF Start

(* offset counts the same. *)
Above(f, L, r) == \A n \in 1..r : f[n] = IF n = 1 THEN 0 ELSE f[n - 1] + Len(L[n - 1]) + 1

LEMMA StartIsAbove ==
  ASSUME NEW S, NewLine \in S, NEW L \in Seq(Seq(S)), NEW r \in 1..Size(L), NEW f, Above(f, L, r)
  PROVE  \A n \in 1..r : f[n] = Start(L, n)
<1> DEFINE same == {n \in 1..r : f[n] = Start(L, n)}
<1>1. Size(L) \in Nat /\ r \in Nat /\ 1 \in 1..r /\ 1..r \subseteq 1..Size(L)
  BY SizeType
<1>2. 1 \in same
  <2>1. Start(L, 1) = 0
    BY StartType
  <2> QED BY <2>1, <1>1 DEF Above
<1>3. ASSUME NEW n \in 1..r, n # r, n \in same PROVE n + 1 \in same
  <2>1. n + 1 \in 1..r /\ n \in 1..Size(L) /\ n + 1 \in 1..Size(L) /\ n + 1 # 1 /\ (n + 1) - 1 = n
    BY <1>1, <1>3
  <2>2. f[n + 1] = f[n] + Len(L[n]) + 1
    BY <2>1 DEF Above
  <2>3. Start(L, n + 1) = Start(L, n) + Size(L[n]) + 1
    BY <2>1, StartType
  <2> QED BY <2>1, <2>2, <2>3, <1>3 DEF Size
<1> HIDE DEF same
<1>4. 1..r \subseteq same
  BY <1>1, <1>2, <1>3, UpTo
<1> QED BY <1>4 DEF same

LEMMA OffsetIsFar ==
  ASSUME NEW S, NewLine \in S, NEW b, b.lines \in Seq(Seq(S)), NEW c, c[1] \in 1..Size(b.lines)
  PROVE  offset(b, c) = Far(b.lines, c[1], c[2])
<1> DEFINE value(f, n) == IF n = 1 THEN 0 ELSE f[n - 1] + Len(b.lines[n - 1]) + 1
           it == CHOOSE f : f = [n \in 1..c[1] |-> value(f, n)]
<1>1. PICK L \in Seq(Seq(S)) : L = b.lines
  OBVIOUS
<1>2. PICK r \in 1..Size(L) : r = c[1]
  BY <1>1
<1>3. PICK g : g = [n \in 1..r |-> Start(L, n)]
  OBVIOUS
<1>4. \A n \in 1..r : g[n] = Start(L, n)
  BY <1>3
<1>5. ASSUME NEW n \in 1..r PROVE g[n] = IF n = 1 THEN 0 ELSE g[n - 1] + Len(L[n - 1]) + 1
  <2>1. Size(L) \in Nat /\ L \in Seq(Seq(S)) /\ r \in 1..Size(L)
    BY <1>1, <1>2, SizeType
  <2>2. CASE n = 1
    <3>1. Start(L, 1) = 0
      BY <2>1, StartType
    <3> QED BY <3>1, <2>2, <1>4
  <2>3. CASE n # 1
    <3>1. n - 1 \in 1..r /\ n - 1 \in 1..Size(L) /\ (n - 1) + 1 = n /\ n \in 1..Size(L)
      BY <2>1, <2>3
    <3>2. Start(L, n) = Start(L, n - 1) + Size(L[n - 1]) + 1
      BY <2>1, <3>1, StartType
    <3> QED BY <3>1, <3>2, <2>3, <1>4 DEF Size
  <2> QED BY <2>2, <2>3
<1>6. g = [n \in 1..c[1] |-> value(g, n)]
  <2>1. \A n \in 1..r : g[n] = value(g, n)
    BY <1>1, <1>5
  <2> HIDE DEF value
  <2> QED BY <2>1, <1>2, <1>3
<1>7. it = [n \in 1..c[1] |-> value(it, n)]
  <2> HIDE DEF value
  <2> QED BY <1>6
<1>8. offset(b, c) = it[c[1]] + c[2]
  BY DEF offset
<1>9. Above(it, L, r)
  <2> HIDE DEF it
  <2>1. \A n \in 1..r : it[n] = value(it, n)
    <3> HIDE DEF value
    <3> QED BY <1>2, <1>7
  <2> QED BY <2>1, <1>1 DEF Above
<1> HIDE DEF it
<1>10. it[r] = Start(L, r)
  <2>1. L \in Seq(Seq(S)) /\ r \in 1..Size(L) /\ r \in 1..r
    BY <1>1, <1>2
  <2> QED BY <2>1, <1>9, StartIsAbove
<1> QED BY <1>1, <1>2, <1>8, <1>10 DEF Far

(* The text falls apart at each place. *)
LEMMA SplitText ==
  ASSUME NEW S, NewLine \in S, NEW L \in Seq(Seq(S)), NEW r, NEW c, IsPlace(L, r, c)
  PROVE  /\ Pre(L, r, c) \in Seq(S) /\ Post(L, r, c) \in Seq(S)
         /\ Whole(L) = Glue(Pre(L, r, c), Post(L, r, c)) /\ Whole(L) \in Seq(S)
         /\ Size(Pre(L, r, c)) = Far(L, r, c) /\ Far(L, r, c) \in 0..Size(Whole(L))
         /\ take(Whole(L), Far(L, r, c)) = Pre(L, r, c)
         /\ skip(Whole(L), Far(L, r, c)) = Post(L, r, c)
<1>1. r \in 1..Size(L) /\ c \in 0..Size(L[r])
  BY DEF IsPlace
<1>2. /\ L[r] \in Seq(S) /\ take(L, r - 1) \in Seq(Seq(S)) /\ skip(L, r) \in Seq(Seq(S))
      /\ L = Glue(Glue(take(L, r - 1), One(L[r])), skip(L, r))
  BY <1>1, Around
<1>3. PICK A \in Seq(Seq(S)) : A = take(L, r - 1)
  BY <1>2
<1>4. PICK B \in Seq(Seq(S)) : B = skip(L, r)
  BY <1>2
<1>5. /\ take(L[r], c) \in Seq(S) /\ skip(L[r], c) \in Seq(S) /\ Size(take(L[r], c)) = c
      /\ Glue(take(L[r], c), skip(L[r], c)) = L[r]
  BY <1>1, <1>2, TakeType
<1>6. PICK x \in Seq(S) : x = take(L[r], c)
  BY <1>5
<1>7. PICK y \in Seq(S) : y = skip(L[r], c)
  BY <1>5
<1>8. Lead(A) \in Seq(S) /\ Rest(B) \in Seq(S)
  BY <1>3, <1>4, LeadType
<1>9. Whole(L) = Glue(Glue(Lead(A), Glue(x, y)), Rest(B))
  <2>1. PICK z \in Seq(S) : z = L[r]
    BY <1>2
  <2>2. Whole(Glue(Glue(A, One(z)), B)) = Glue(Glue(Lead(A), z), Rest(B))
    BY <1>3, <1>4, <2>1, WholeAround
  <2> QED BY <2>1, <2>2, <1>2, <1>3, <1>4, <1>5, <1>6, <1>7
<1>10. Glue(Glue(Lead(A), Glue(x, y)), Rest(B)) = Glue(Glue(Lead(A), x), Glue(y, Rest(B)))
  BY <1>6, <1>7, <1>8, GlueType, GlueAssoc
<1>11. PICK p \in Seq(S) : p = Glue(Lead(A), x)
  BY <1>6, <1>8, GlueType
<1>12. PICK q \in Seq(S) : q = Glue(y, Rest(B))
  BY <1>7, <1>8, GlueType
<1>13. Pre(L, r, c) = p /\ Post(L, r, c) = q
  BY <1>3, <1>4, <1>6, <1>7, <1>11, <1>12 DEF Pre, Post
<1>14. Whole(L) = Glue(p, q) /\ Glue(p, q) \in Seq(S) /\ Size(Glue(p, q)) = Size(p) + Size(q)
  BY <1>9, <1>10, <1>11, <1>12, GlueType, GlueSize
<1>15. Size(p) = Far(L, r, c) /\ Size(p) \in Nat /\ Size(q) \in Nat
  <2>1. Size(p) = Size(Lead(A)) + Size(x)
    BY <1>6, <1>8, <1>11, GlueSize
  <2> QED BY <2>1, <1>3, <1>5, <1>6, <1>11, <1>12, SizeType DEF Far, Start
<1>16. take(Whole(L), Size(p)) = p /\ skip(Whole(L), Size(p)) = q
  BY <1>11, <1>12, <1>14, TakeOfGlue
<1>17. Far(L, r, c) \in 0..Size(Whole(L))
  BY <1>14, <1>15
<1> QED BY <1>11, <1>12, <1>13, <1>14, <1>15, <1>16, <1>17

LEMMA PlacesInOrder ==
  ASSUME NEW S, NewLine \in S, NEW L \in Seq(Seq(S)),
         NEW r, NEW c, IsPlace(L, r, c), NEW q, NEW d, IsPlace(L, q, d),
         r < q \/ (r = q /\ c < d)
  PROVE  Far(L, r, c) < Far(L, q, d)
<1>1. r \in 1..Size(L) /\ c \in 0..Size(L[r]) /\ q \in 1..Size(L) /\ d \in 0..Size(L[q])
  BY DEF IsPlace
<1>2. /\ Start(L, r) \in Nat /\ Start(L, q) \in Nat /\ Size(L) \in Nat
      /\ Size(L[r]) \in Nat /\ Size(L[q]) \in Nat
  BY <1>1, StartType
<1>3. CASE r = q /\ c < d
  BY <1>1, <1>2, <1>3 DEF Far
<1>4. CASE r < q
  <2>0. r \in Nat /\ q \in Nat /\ 1 <= r /\ q <= Size(L) /\ Size(L) \in Nat
    BY <1>1, <1>2
  <2>1. r + 1 \in 1..Size(L) /\ q - 1 \in 0..Size(L) /\ r \in 0..q - 1 /\ (r + 1) - 1 = r
    BY <2>0, <1>4
  <2>2. Start(L, r + 1) = Start(L, r) + Size(L[r]) + 1
    BY <1>1, <2>1, StartType
  <2>3. /\ take(L, q - 1) = Glue(take(L, r), skip(take(L, q - 1), r))
        /\ skip(take(L, q - 1), r) \in Seq(Seq(S))
    BY <2>1, TakeOfTake
  <2>4. r \in 0..Size(L)
    BY <1>1, <1>2
  <2>5. take(L, r) \in Seq(Seq(S))
    BY <2>4, TakeType
  <2>6. Size(Lead(take(L, r))) <= Size(Lead(Glue(take(L, r), skip(take(L, q - 1), r))))
    BY <2>3, <2>5, LeadGrows
  <2>7. Start(L, r + 1) <= Start(L, q)
    BY <2>1, <2>3, <2>6 DEF Start
  <2> QED BY <2>2, <2>7, <1>1, <1>2 DEF Far
<1> QED BY <1>3, <1>4

(* What the edits make of the lines, and of the text. *)
Put(L, r, x, q) == Glue(Glue(take(L, r - 1), One(x)), skip(L, q))

LEMMA PutFacts ==
  ASSUME NEW S, NewLine \in S, NEW L \in Seq(Seq(S)), NEW r \in 1..Size(L), NEW q \in 1..Size(L),
         NEW x \in Seq(S)
  PROVE  /\ Put(L, r, x, q) \in Seq(Seq(S)) /\ r \in 1..Size(Put(L, r, x, q)) /\ Put(L, r, x, q)[r] = x
         /\ Whole(Put(L, r, x, q)) = Glue(Glue(Lead(take(L, r - 1)), x), Rest(skip(L, q)))
         /\ Start(Put(L, r, x, q), r) = Start(L, r)
<1>1. take(L, r - 1) \in Seq(Seq(S)) /\ Size(take(L, r - 1)) = r - 1
  BY Around
<1>2. skip(L, q) \in Seq(Seq(S))
  BY Around
<1>3. PICK A \in Seq(Seq(S)) : A = take(L, r - 1)
  BY <1>1
<1>4. PICK B \in Seq(Seq(S)) : B = skip(L, q)
  BY <1>2
<1>5. PICK M : M = Glue(Glue(A, One(x)), B)
  OBVIOUS
<1>6. M \in Seq(Seq(S)) /\ Size(M) = Size(A) + 1 + Size(B) /\ M[Size(A) + 1] = x /\ take(M, Size(A)) = A
  BY <1>3, <1>4, <1>5, Placed
<1>7. Size(A) = r - 1 /\ Size(A) + 1 = r /\ Size(B) \in Nat
  BY <1>1, <1>3, <1>4, SizeType
<1>8. r \in 1..Size(M)
  BY <1>6, <1>7
<1>9. Whole(M) = Glue(Glue(Lead(A), x), Rest(B))
  BY <1>3, <1>4, <1>5, WholeAround
<1>10. M = Put(L, r, x, q)
  BY <1>3, <1>4, <1>5 DEF Put
<1>11. Start(M, r) = Start(L, r)
  BY <1>3, <1>6, <1>7 DEF Start
<1> QED BY <1>3, <1>4, <1>6, <1>7, <1>8, <1>9, <1>10, <1>11

Cut(L, r, c, q, d) == Put(L, r, Glue(take(L[r], c), skip(L[q], d)), q)

LEMMA CutText ==
  ASSUME NEW S, NewLine \in S, NEW L \in Seq(Seq(S)),
         NEW r, NEW c, IsPlace(L, r, c), NEW q, NEW d, IsPlace(L, q, d)
  PROVE  /\ Cut(L, r, c, q, d) \in Seq(Seq(S)) /\ IsPlace(Cut(L, r, c, q, d), r, c)
         /\ Far(Cut(L, r, c, q, d), r, c) = Far(L, r, c)
         /\ Pre(Cut(L, r, c, q, d), r, c) = Pre(L, r, c) /\ Post(Cut(L, r, c, q, d), r, c) = Post(L, q, d)
         /\ Whole(Cut(L, r, c, q, d)) = Glue(Pre(L, r, c), Post(L, q, d))
<1>1. r \in 1..Size(L) /\ c \in 0..Size(L[r]) /\ q \in 1..Size(L) /\ d \in 0..Size(L[q])
  BY DEF IsPlace
<1>2. L[r] \in Seq(S) /\ L[q] \in Seq(S)
  BY <1>1, StartType
<1>3. PICK x \in Seq(S) : x = take(L[r], c)
  BY <1>1, <1>2, TakeType
<1>4. Size(x) = c
  BY <1>1, <1>2, <1>3, TakeType
<1>5. PICK y \in Seq(S) : y = skip(L[q], d)
  BY <1>1, <1>2, TakeType
<1>6. PICK z \in Seq(S) : z = Glue(x, y)
  BY <1>3, <1>5, GlueType
<1>7. PICK M : M = Put(L, r, z, q)
  OBVIOUS
<1>8. /\ M \in Seq(Seq(S)) /\ r \in 1..Size(M) /\ M[r] = z
      /\ Whole(M) = Glue(Glue(Lead(take(L, r - 1)), z), Rest(skip(L, q)))
      /\ Start(M, r) = Start(L, r)
  <2>1. z \in Seq(S) /\ r \in 1..Size(L) /\ q \in 1..Size(L)
    BY <1>1, <1>6
  <2>2. /\ Put(L, r, z, q) \in Seq(Seq(S)) /\ r \in 1..Size(Put(L, r, z, q)) /\ Put(L, r, z, q)[r] = z
        /\ Whole(Put(L, r, z, q)) = Glue(Glue(Lead(take(L, r - 1)), z), Rest(skip(L, q)))
        /\ Start(Put(L, r, z, q), r) = Start(L, r)
    BY <2>1, PutFacts
  <2> QED BY <2>2, <1>7
<1>8a. M = Cut(L, r, c, q, d)
  BY <1>3, <1>5, <1>6, <1>7 DEF Cut
<1>9. Size(z) = c + Size(y) /\ Size(y) \in Nat /\ take(z, c) = x /\ skip(z, c) = y
  <2>1. Size(z) = Size(x) + Size(y) /\ Size(y) \in Nat
    BY <1>3, <1>5, <1>6, GlueSize, SizeType
  <2>2. take(Glue(x, y), Size(x)) = x /\ skip(Glue(x, y), Size(x)) = y
    BY <1>3, <1>5, TakeOfGlue
  <2> QED BY <2>1, <2>2, <1>4, <1>6
<1>10. IsPlace(M, r, c)
  BY <1>1, <1>2, <1>8, <1>9, SizeType DEF IsPlace
<1>11. Lead(take(L, r - 1)) \in Seq(S) /\ Rest(skip(L, q)) \in Seq(S)
  BY <1>1, Around, LeadType
<1>12. Whole(M) = Glue(Pre(L, r, c), Post(L, q, d))
  <2>1. PICK a \in Seq(S) : a = Lead(take(L, r - 1))
    BY <1>11
  <2>2. PICK e \in Seq(S) : e = Rest(skip(L, q))
    BY <1>11
  <2>3. Glue(Glue(a, Glue(x, y)), e) = Glue(Glue(a, x), Glue(y, e))
    BY <1>3, <1>5, <2>1, <2>2, GlueType, GlueAssoc
  <2> QED BY <2>1, <2>2, <2>3, <1>3, <1>5, <1>6, <1>8 DEF Pre, Post
<1>13. Far(M, r, c) = Far(L, r, c)
  BY <1>8 DEF Far
<1>14. take(M, r - 1) = take(L, r - 1) /\ skip(M, r) = skip(L, q)
  <2>1. take(L, r - 1) \in Seq(Seq(S)) /\ Size(take(L, r - 1)) = r - 1 /\ skip(L, q) \in Seq(Seq(S))
    BY <1>1, Around
  <2>2. PICK A \in Seq(Seq(S)) : A = take(L, r - 1)
    BY <2>1
  <2>3. PICK B \in Seq(Seq(S)) : B = skip(L, q)
    BY <2>1
  <2>4. take(Glue(Glue(A, One(z)), B), Size(A)) = A /\ skip(Glue(Glue(A, One(z)), B), Size(A) + 1) = B
    BY <1>6, <2>2, <2>3, Placed
  <2>5. Size(A) = r - 1 /\ Size(A) + 1 = r
    BY <1>1, <2>1, <2>2
  <2> QED BY <2>2, <2>3, <2>4, <2>5, <1>7 DEF Put
<1>15. Pre(M, r, c) = Pre(L, r, c) /\ Post(M, r, c) = Post(L, q, d)
  BY <1>3, <1>5, <1>8, <1>9, <1>14 DEF Pre, Post
<1> QED BY <1>8, <1>8a, <1>10, <1>12, <1>13, <1>15

LEMMA GlueFive ==
  ASSUME NEW S, NEW a \in Seq(S), NEW x \in Seq(S), NEW o \in Seq(S), NEW y \in Seq(S), NEW e \in Seq(S)
  PROVE  Glue(Glue(a, Glue(Glue(x, o), y)), e) = Glue(Glue(Glue(a, x), o), Glue(y, e))
<1>1. PICK w \in Seq(S) : w = Glue(x, o)
  BY GlueType
<1>2. Glue(Glue(a, Glue(w, y)), e) = Glue(Glue(a, w), Glue(y, e))
  BY <1>1, GlueType, GlueAssoc
<1>3. Glue(a, Glue(x, o)) = Glue(Glue(a, x), o)
  BY GlueAssoc
<1> QED BY <1>1, <1>2, <1>3

Insert(L, r, c, ch) == Put(L, r, Glue(Glue(take(L[r], c), One(ch)), skip(L[r], c)), r)

LEMMA InsertText ==
  ASSUME NEW S, NewLine \in S, NEW L \in Seq(Seq(S)), NEW r, NEW c, IsPlace(L, r, c), NEW ch \in S
  PROVE  /\ Insert(L, r, c, ch) \in Seq(Seq(S)) /\ IsPlace(Insert(L, r, c, ch), r, c + 1)
         /\ Far(Insert(L, r, c, ch), r, c + 1) = Far(L, r, c) + 1
         /\ Whole(Insert(L, r, c, ch)) = Glue(Glue(Pre(L, r, c), One(ch)), Post(L, r, c))
<1>1. r \in 1..Size(L) /\ c \in 0..Size(L[r])
  BY DEF IsPlace
<1>2. L[r] \in Seq(S) /\ Start(L, r) \in Nat /\ Size(L[r]) \in Nat
  BY <1>1, StartType
<1>3. PICK x \in Seq(S) : x = take(L[r], c)
  BY <1>1, <1>2, TakeType
<1>4. PICK y \in Seq(S) : y = skip(L[r], c)
  BY <1>1, <1>2, TakeType
<1>5. PICK o \in Seq(S) : o = One(ch)
  BY OneFacts
<1>6. PICK z \in Seq(S) : z = Glue(Glue(x, o), y)
  BY <1>3, <1>4, <1>5, GlueType
<1>7. Size(z) = Size(x) + 1 + Size(y) /\ Size(x) = c /\ Size(y) \in Nat
  <2>1. Size(Glue(Glue(x, One(ch)), y)) = Size(x) + 1 + Size(y)
    BY <1>3, <1>4, Placed
  <2>2. Size(take(L[r], c)) = c
    BY <1>1, <1>2, TakeType
  <2> QED BY <2>1, <2>2, <1>3, <1>4, <1>5, <1>6, SizeType
<1>8. /\ Put(L, r, z, r) \in Seq(Seq(S)) /\ r \in 1..Size(Put(L, r, z, r)) /\ Put(L, r, z, r)[r] = z
      /\ Whole(Put(L, r, z, r)) = Glue(Glue(Lead(take(L, r - 1)), z), Rest(skip(L, r)))
      /\ Start(Put(L, r, z, r), r) = Start(L, r)
  <2>1. z \in Seq(S) /\ r \in 1..Size(L)
    BY <1>1, <1>6
  <2> QED BY <2>1, PutFacts
<1>9. PICK M : M = Put(L, r, z, r)
  OBVIOUS
<1>9a. M = Insert(L, r, c, ch)
  BY <1>3, <1>4, <1>5, <1>6, <1>9 DEF Insert
<1>10. IsPlace(M, r, c + 1)
  <2>1. r \in 1..Size(M) /\ M[r] = z
    BY <1>8, <1>9
  <2>2. c \in Nat /\ Size(z) = c + 1 + Size(y) /\ Size(y) \in Nat
    BY <1>1, <1>2, <1>7
  <2>3. c + 1 \in 0..Size(z)
    BY <2>2
  <2> QED BY <2>1, <2>3 DEF IsPlace
<1>11. Far(M, r, c + 1) = Far(L, r, c) + 1
  BY <1>1, <1>2, <1>8, <1>9 DEF Far
<1>12. Lead(take(L, r - 1)) \in Seq(S) /\ Rest(skip(L, r)) \in Seq(S)
  BY <1>1, Around, LeadType
<1>13. Whole(M) = Glue(Glue(Pre(L, r, c), One(ch)), Post(L, r, c))
  <2>1. PICK a \in Seq(S) : a = Lead(take(L, r - 1))
    BY <1>12
  <2>2. PICK e \in Seq(S) : e = Rest(skip(L, r))
    BY <1>12
  <2>3. Glue(Glue(a, Glue(Glue(x, o), y)), e) = Glue(Glue(Glue(a, x), o), Glue(y, e))
    BY <1>3, <1>4, <1>5, <2>1, <2>2, GlueFive
  <2> QED BY <2>1, <2>2, <2>3, <1>3, <1>4, <1>5, <1>6, <1>8, <1>9 DEF Pre, Post
<1> QED BY <1>8, <1>9, <1>9a, <1>10, <1>11, <1>13

Break(L, r, c) == Glue(Glue(take(L, r - 1), Glue(One(take(L[r], c)), One(skip(L[r], c)))), skip(L, r))

LEMMA BreakText ==
  ASSUME NEW S, NewLine \in S, NEW L \in Seq(Seq(S)), NEW r, NEW c, IsPlace(L, r, c)
  PROVE  /\ Break(L, r, c) \in Seq(Seq(S)) /\ IsPlace(Break(L, r, c), r + 1, 0)
         /\ Far(Break(L, r, c), r + 1, 0) = Far(L, r, c) + 1
         /\ Whole(Break(L, r, c)) = Glue(Glue(Pre(L, r, c), One(NewLine)), Post(L, r, c))
<1>1. r \in 1..Size(L) /\ c \in 0..Size(L[r])
  BY DEF IsPlace
<1>2. L[r] \in Seq(S) /\ Start(L, r) \in Nat /\ Size(L[r]) \in Nat /\ Size(L) \in Nat
  BY <1>1, StartType
<1>3. PICK x \in Seq(S) : x = take(L[r], c)
  BY <1>1, <1>2, TakeType
<1>4. PICK y \in Seq(S) : y = skip(L[r], c)
  BY <1>1, <1>2, TakeType
<1>5. Size(x) = c
  BY <1>1, <1>2, <1>3, TakeType
<1>6. PICK A \in Seq(Seq(S)) : A = take(L, r - 1)
  BY <1>1, Around
<1>7. PICK B \in Seq(Seq(S)) : B = skip(L, r)
  BY <1>1, Around
<1>8. Size(A) = r - 1
  BY <1>1, <1>6, Around
<1>9. PICK C \in Seq(Seq(S)) : C = Glue(A, One(x))
  BY <1>3, <1>6, OneFacts, GlueType
<1>10. Size(C) = r /\ Lead(C) = Glue(Glue(Lead(A), x), One(NewLine))
  <2>1. One(x) \in Seq(Seq(S)) /\ Size(One(x)) = 1
    BY <1>3, OneFacts
  <2>2. Size(C) = Size(A) + Size(One(x))
    BY <2>1, <1>6, <1>9, GlueSize
  <2>3. Lead(Glue(A, One(x))) = Glue(Glue(Lead(A), x), One(NewLine))
    BY <1>3, <1>6, LeadPlusOne
  <2> QED BY <2>1, <2>2, <2>3, <1>1, <1>8, <1>9
<1>11. PICK M : M = Glue(Glue(C, One(y)), B)
  OBVIOUS
<1>11a. M = Break(L, r, c)
  <2>1. One(x) \in Seq(Seq(S)) /\ One(y) \in Seq(Seq(S))
    BY <1>3, <1>4, OneFacts
  <2>2. Glue(A, Glue(One(x), One(y))) = Glue(Glue(A, One(x)), One(y))
    BY <2>1, <1>6, GlueAssoc
  <2> QED BY <2>2, <1>3, <1>4, <1>6, <1>7, <1>9, <1>11 DEF Break
<1>12. /\ Glue(Glue(C, One(y)), B) \in Seq(Seq(S)) /\ Size(Glue(Glue(C, One(y)), B)) = Size(C) + 1 + Size(B)
       /\ Glue(Glue(C, One(y)), B)[Size(C) + 1] = y /\ take(Glue(Glue(C, One(y)), B), Size(C)) = C
  BY <1>4, <1>7, <1>9, Placed
<1>13. Whole(Glue(Glue(C, One(y)), B)) = Glue(Glue(Lead(C), y), Rest(B))
  BY <1>4, <1>7, <1>9, WholeAround
<1>14. Size(B) \in Nat /\ Size(y) \in Nat /\ Lead(A) \in Seq(S) /\ Rest(B) \in Seq(S)
  BY <1>4, <1>6, <1>7, SizeType, LeadType
<1>15. IsPlace(M, r + 1, 0)
  <2>1. Size(M) = r + 1 + Size(B) /\ M[r + 1] = y
    BY <1>10, <1>11, <1>12
  <2>2. r + 1 \in 1..Size(M)
    <3>1. r \in Nat /\ Size(M) = r + 1 + Size(B) /\ Size(B) \in Nat
      BY <2>1, <1>1, <1>2, <1>14
    <3> QED BY <3>1
  <2> QED BY <2>1, <2>2, <1>14 DEF IsPlace
<1>16. Far(M, r + 1, 0) = Far(L, r, c) + 1
  <2>1. (r + 1) - 1 = r
    BY <1>1, <1>2
  <2>2. take(M, (r + 1) - 1) = C
    BY <2>1, <1>10, <1>11, <1>12
  <2>3. PICK p \in Seq(S) : p = Glue(Lead(A), x)
    BY <1>3, <1>14, GlueType
  <2>4. Size(p) = Size(Lead(A)) + Size(x) /\ Size(Lead(A)) \in Nat
    BY <2>3, <1>3, <1>14, GlueSize, SizeType
  <2>5. One(NewLine) \in Seq(S) /\ Size(One(NewLine)) = 1
    BY OneFacts
  <2>6. Size(Glue(p, One(NewLine))) = Size(p) + 1
    BY <2>3, <2>5, GlueSize
  <2>7. Start(M, r + 1) = Start(L, r) + c + 1
    BY <2>2, <2>3, <2>4, <2>6, <1>5, <1>6, <1>10 DEF Start
  <2> QED BY <2>7, <1>1, <1>2 DEF Far
<1>17. Whole(M) = Glue(Glue(Pre(L, r, c), One(NewLine)), Post(L, r, c))
  <2>1. PICK p \in Seq(S) : p = Glue(Glue(Lead(A), x), One(NewLine))
    BY <1>3, <1>14, OneFacts, GlueType
  <2>2. Glue(Glue(p, y), Rest(B)) = Glue(p, Glue(y, Rest(B)))
    BY <2>1, <1>4, <1>14, GlueAssoc
  <2> QED BY <2>1, <2>2, <1>3, <1>4, <1>6, <1>7, <1>10, <1>11, <1>13 DEF Pre, Post
<1> QED BY <1>11, <1>11a, <1>12, <1>15, <1>16, <1>17

-----------------------------------------------------------------------------
(* The buffer. *)
Buf(L, r, c, a) == [lines |-> L, row |-> r, col |-> c, anchor |-> a]

LEMMA ToTextIsWhole ==
  ASSUME NEW L, NEW r, NEW c, NEW a
  PROVE  to_text(Buf(L, r, c, a), NewLine) = Whole(L)
<1>1. PICK b : b = Buf(L, r, c, a)
  OBVIOUS
<1>2. b.lines = L
  BY <1>1 DEF Buf
<1>3. to_text(b, NewLine) = Whole(b.lines)
  BY DEF to_text, Whole
<1> QED BY <1>1, <1>2, <1>3

LEMMA BufFields ==
  ASSUME NEW L, NEW r, NEW c, NEW a
  PROVE  /\ Buf(L, r, c, a).lines = L /\ Buf(L, r, c, a).row = r /\ Buf(L, r, c, a).col = c
         /\ Buf(L, r, c, a).anchor = a
BY DEF Buf

LEMMA BufIsRecord ==
  ASSUME NEW L, NEW r, NEW c, NEW a
  PROVE  Buf(L, r, c, a) \in [lines : {L}, row : {r}, col : {c}, anchor : {a}]
BY DEF Buf

LEMMA RecordIsBuf ==
  ASSUME NEW L, NEW r, NEW c, NEW a, NEW p \in [lines : {L}, row : {r}, col : {c}, anchor : {a}]
  PROVE  p = Buf(L, r, c, a)
BY DEF Buf

LEMMA CursorSet ==
  ASSUME NEW L, NEW r, NEW c, NEW a, NEW s
  PROVE  set_cursor(Buf(L, r, c, a), s) = Buf(L, s[1], s[2], NoAnchor)
<1>1. PICK b : b = Buf(L, r, c, a)
  OBVIOUS
<1>2. b \in [lines : {L}, row : {r}, col : {c}, anchor : {a}]
  BY <1>1, BufIsRecord
<1>3. [b EXCEPT !.row = s[1], !.col = s[2], !.anchor = NoAnchor]
        \in [lines : {L}, row : {s[1]}, col : {s[2]}, anchor : {NoAnchor}]
  BY <1>2
<1> QED BY <1>1, <1>3, RecordIsBuf DEF set_cursor

LEMMA LinesSet ==
  ASSUME NEW L, NEW r, NEW c, NEW a, NEW b, b = Buf(L, r, c, a), NEW M
  PROVE  [b EXCEPT !.lines = M] = Buf(M, r, c, a)
<1>1. b \in [lines : {L}, row : {r}, col : {c}, anchor : {a}]
  BY BufIsRecord
<1>2. [b EXCEPT !.lines = M] \in [lines : {M}, row : {r}, col : {c}, anchor : {a}]
  BY <1>1
<1> QED BY <1>2, RecordIsBuf

(* A buffer's cursor and anchor are places of its lines, and not the same. *)
AnchorFits(L, r, c, a) == a = NoAnchor \/ (a = <<a[1], a[2]>> /\ IsPlace(L, a[1], a[2]) /\ (a[1] # r \/ a[2] # c))
BufferFits(S, L, r, c, a) == L \in Seq(Seq(S)) /\ IsPlace(L, r, c) /\ AnchorFits(L, r, c, a)

(* The text field's mark, and the ends of the part that is replaced. *)
MarkAt(L, a) == IF a = NoAnchor THEN 0 - 1 ELSE Far(L, a[1], a[2])
Lower(m, k) == IF m # 0 - 1 /\ m < k THEN m ELSE k
Upper(m, k) == IF m # 0 - 1 /\ m > k THEN m ELSE k

LEMMA PairFacts ==
  ASSUME NEW x, NEW y
  PROVE  <<x, y>> # NoAnchor /\ <<x, y>>[1] = x /\ <<x, y>>[2] = y
<1>1. Len(<<x, y>>) = 2 /\ Len(<<>>) = 0
  OBVIOUS
<1>2. <<x, y>> # <<>>
  BY <1>1
<1> QED BY <1>2 DEF NoAnchor

LEMMA FarType ==
  ASSUME NEW S, NewLine \in S, NEW L \in Seq(Seq(S)), NEW r, NEW c, IsPlace(L, r, c)
  PROVE  r \in Nat /\ c \in Nat /\ Far(L, r, c) \in Nat
<1>1. r \in 1..Size(L) /\ c \in 0..Size(L[r])
  BY DEF IsPlace
<1>2. Start(L, r) \in Nat /\ Size(L) \in Nat /\ Size(L[r]) \in Nat
  BY <1>1, StartType
<1>3. c \in Nat /\ r \in Nat
  BY <1>1, <1>2
<1> QED BY <1>2, <1>3 DEF Far

LEMMA NoSelection ==
  ASSUME NEW L, NEW r, NEW c
  PROVE  selection(Buf(L, r, c, NoAnchor)) = <<>>
BY BufFields DEF selection

LEMMA SomeSelection ==
  ASSUME NEW S, NewLine \in S, NEW L, NEW r, NEW c, NEW a, BufferFits(S, L, r, c, a), a # NoAnchor
  PROVE  \E p, f, q, g :
           /\ selection(Buf(L, r, c, a)) = <<<<p, f>>, <<q, g>>>> /\ selection(Buf(L, r, c, a)) # <<>>
           /\ IsPlace(L, p, f) /\ IsPlace(L, q, g) /\ Far(L, p, f) < Far(L, q, g)
           /\ Far(L, p, f) = Lower(MarkAt(L, a), Far(L, r, c)) /\ Far(L, q, g) = Upper(MarkAt(L, a), Far(L, r, c))
<1>1. L \in Seq(Seq(S)) /\ IsPlace(L, r, c)
  BY DEF BufferFits
<1>2. a = <<a[1], a[2]>> /\ IsPlace(L, a[1], a[2]) /\ (a[1] # r \/ a[2] # c)
  BY DEF BufferFits, AnchorFits
<1>3. PICK x : x = a[1]
  OBVIOUS
<1>4. PICK y : y = a[2]
  OBVIOUS
<1>5. a = <<x, y>> /\ IsPlace(L, x, y) /\ (x # r \/ y # c)
  BY <1>2, <1>3, <1>4
<1>6. a # <<r, c>>
  BY <1>5, PairFacts
<1>7. selection(Buf(L, r, c, a)) = IF Before(a, <<r, c>>) THEN <<a, <<r, c>>>> ELSE <<<<r, c>>, a>>
  BY <1>6, BufFields DEF selection, Cursor
<1>8. x \in Nat /\ y \in Nat /\ r \in Nat /\ c \in Nat
  BY <1>1, <1>5, FarType
<1>9. Far(L, x, y) \in Nat /\ Far(L, r, c) \in Nat
  BY <1>1, <1>5, FarType
<1>10. MarkAt(L, a) = Far(L, x, y)
  BY <1>3, <1>4 DEF MarkAt
<1>11. CASE x < r \/ (x = r /\ y <= c)
  <2>1. Before(a, <<r, c>>)
    BY <1>5, <1>11, PairFacts DEF Before
  <2>2. selection(Buf(L, r, c, a)) = <<<<x, y>>, <<r, c>>>>
    BY <2>1, <1>5, <1>7
  <2>3. x < r \/ (x = r /\ y < c)
    BY <1>5, <1>8, <1>11
  <2>4. Far(L, x, y) < Far(L, r, c)
    BY <2>3, <1>1, <1>5, PlacesInOrder
  <2>5. /\ Far(L, x, y) = Lower(MarkAt(L, a), Far(L, r, c))
        /\ Far(L, r, c) = Upper(MarkAt(L, a), Far(L, r, c))
    BY <2>4, <1>9, <1>10 DEF Lower, Upper
  <2>6. selection(Buf(L, r, c, a)) # <<>>
    BY <2>2, PairFacts DEF NoAnchor
  <2> QED BY <2>2, <2>4, <2>5, <2>6, <1>1, <1>5
<1>12. CASE ~ (x < r \/ (x = r /\ y <= c))
  <2>1. ~ Before(a, <<r, c>>)
    BY <1>5, <1>12, PairFacts DEF Before
  <2>2. selection(Buf(L, r, c, a)) = <<<<r, c>>, <<x, y>>>>
    BY <2>1, <1>5, <1>7
  <2>3. r < x \/ (r = x /\ c < y)
    BY <1>8, <1>12
  <2>4. Far(L, r, c) < Far(L, x, y)
    BY <2>3, <1>1, <1>5, PlacesInOrder
  <2>5. /\ Far(L, r, c) = Lower(MarkAt(L, a), Far(L, r, c))
        /\ Far(L, x, y) = Upper(MarkAt(L, a), Far(L, r, c))
    BY <2>4, <1>9, <1>10 DEF Lower, Upper
  <2>6. selection(Buf(L, r, c, a)) # <<>>
    BY <2>2, PairFacts DEF NoAnchor
  <2> QED BY <2>2, <2>4, <2>5, <2>6, <1>1, <1>5
<1> QED BY <1>11, <1>12

LEMMA DeletedSelection ==
  ASSUME NEW L, NEW r, NEW c, NEW a, NEW p, NEW f, NEW q, NEW g,
         selection(Buf(L, r, c, a)) = <<<<p, f>>, <<q, g>>>>, selection(Buf(L, r, c, a)) # <<>>
  PROVE  delete_selection(Buf(L, r, c, a)) = Buf(Cut(L, p, f, q, g), p, f, NoAnchor)
<1>1. PICK b : b = Buf(L, r, c, a)
  OBVIOUS
<1>2. PICK s : s = <<p, f>>
  OBVIOUS
<1>3. PICK e : e = <<q, g>>
  OBVIOUS
<1>4. s[1] = p /\ s[2] = f /\ e[1] = q /\ e[2] = g
  BY <1>2, <1>3
<1>5. selection(b)[1] = s /\ selection(b)[2] = e /\ selection(b) # <<>>
  BY <1>1, <1>2, <1>3
<1>6. PICK M : M = SubSeq(L, 1, p - 1) \o <<take(L[p], f) \o skip(L[q], g)>> \o SubSeq(L, q + 1, Len(L))
  OBVIOUS
<1>7. M = Cut(L, p, f, q, g)
  BY <1>6 DEF Cut, Put, take, skip, Glue, One
<1>8. b.lines = L
  BY <1>1, BufFields
<1>9. [b EXCEPT !.lines = SubSeq(@, 1, s[1] - 1) \o <<take(@[s[1]], s[2]) \o skip(@[e[1]], e[2])>>
                          \o SubSeq(@, e[1] + 1, Len(@))] = [b EXCEPT !.lines = M]
  BY <1>4, <1>6, <1>8
<1>10. delete_selection(b) = set_cursor([b EXCEPT !.lines = M], s)
  BY <1>5, <1>9 DEF delete_selection
<1>11. [b EXCEPT !.lines = M] = Buf(M, r, c, a)
  BY <1>1, LinesSet
<1>12. set_cursor(Buf(M, r, c, a), s) = Buf(M, p, f, NoAnchor)
  BY <1>4, CursorSet
<1> QED BY <1>1, <1>7, <1>10, <1>11, <1>12

(* With the selected part, if there is one, taken out: what is left is what is
   before it and what is behind it, and the cursor is between them. *)
LEMMA DeleteFacts ==
  ASSUME NEW S, NewLine \in S, NEW L, NEW r, NEW c, NEW a, BufferFits(S, L, r, c, a),
         NEW lo, lo = Lower(MarkAt(L, a), Far(L, r, c)), NEW hi, hi = Upper(MarkAt(L, a), Far(L, r, c))
  PROVE  \E M, p, f :
           /\ delete_selection(Buf(L, r, c, a)) = Buf(M, p, f, NoAnchor)
           /\ M \in Seq(Seq(S)) /\ IsPlace(M, p, f) /\ Far(M, p, f) = lo
           /\ Pre(M, p, f) = take(Whole(L), lo) /\ Post(M, p, f) = skip(Whole(L), hi)
           /\ Whole(M) = Glue(Pre(M, p, f), Post(M, p, f))
<1>1. L \in Seq(Seq(S)) /\ IsPlace(L, r, c)
  BY DEF BufferFits
<1>2. CASE a = NoAnchor
  <2>1. delete_selection(Buf(L, r, c, a)) = Buf(L, r, c, NoAnchor)
    BY <1>2, NoSelection DEF delete_selection
  <2>2. lo = Far(L, r, c) /\ hi = Far(L, r, c)
    BY <1>2 DEF MarkAt, Lower, Upper
  <2>3. /\ Pre(L, r, c) = take(Whole(L), Far(L, r, c)) /\ Post(L, r, c) = skip(Whole(L), Far(L, r, c))
        /\ Whole(L) = Glue(Pre(L, r, c), Post(L, r, c))
    BY <1>1, SplitText
  <2> QED BY <2>1, <2>2, <2>3, <1>1
<1>3. CASE a # NoAnchor
  <2>1. PICK p, f, q, g :
           /\ selection(Buf(L, r, c, a)) = <<<<p, f>>, <<q, g>>>> /\ selection(Buf(L, r, c, a)) # <<>>
           /\ IsPlace(L, p, f) /\ IsPlace(L, q, g) /\ Far(L, p, f) < Far(L, q, g)
           /\ Far(L, p, f) = lo /\ Far(L, q, g) = hi
    BY <1>3, SomeSelection
  <2>2. PICK M : M = Cut(L, p, f, q, g)
    OBVIOUS
  <2>3. delete_selection(Buf(L, r, c, a)) = Buf(M, p, f, NoAnchor)
    BY <2>1, <2>2, DeletedSelection
  <2>4. /\ Cut(L, p, f, q, g) \in Seq(Seq(S)) /\ IsPlace(Cut(L, p, f, q, g), p, f)
        /\ Far(Cut(L, p, f, q, g), p, f) = Far(L, p, f)
        /\ Pre(Cut(L, p, f, q, g), p, f) = Pre(L, p, f) /\ Post(Cut(L, p, f, q, g), p, f) = Post(L, q, g)
        /\ Whole(Cut(L, p, f, q, g)) = Glue(Pre(L, p, f), Post(L, q, g))
    <3>1. IsPlace(L, p, f) /\ IsPlace(L, q, g)
      BY <2>1
    <3> QED BY <3>1, <1>1, CutText
  <2>5. Pre(L, p, f) = take(Whole(L), Far(L, p, f)) /\ Post(L, q, g) = skip(Whole(L), Far(L, q, g))
    <3>1. IsPlace(L, p, f) /\ IsPlace(L, q, g)
      BY <2>1
    <3>2. Pre(L, p, f) = take(Whole(L), Far(L, p, f))
      BY <3>1, <1>1, SplitText
    <3>3. Post(L, q, g) = skip(Whole(L), Far(L, q, g))
      BY <3>1, <1>1, SplitText
    <3> QED BY <3>2, <3>3
  <2> QED BY <2>1, <2>2, <2>3, <2>4, <2>5
<1> QED BY <1>2, <1>3

(* Typing puts the symbol where the selected part was, or at the cursor. *)
LEMMA CharInserted ==
  ASSUME NEW S, NewLine \in S, NEW M \in Seq(Seq(S)), NEW p, NEW f, IsPlace(M, p, f), NEW ch \in S,
         NEW b, delete_selection(b) = Buf(M, p, f, NoAnchor)
  PROVE  insert_char(b, ch) = Buf(Insert(M, p, f, ch), p, f + 1, NoAnchor)
<1>1. PICK d : d = Buf(M, p, f, NoAnchor)
  OBVIOUS
<1>2. d \in [lines : {M}, row : {p}, col : {f}, anchor : {NoAnchor}] /\ d.row = p /\ d.col = f /\ d.lines = M
  BY <1>1, BufIsRecord, BufFields
<1>3. p \in 1..Size(M) /\ M[p] \in Seq(S) /\ f \in 0..Size(M[p])
  BY StartType DEF IsPlace
<1>4. PICK x : x = take(M[p], f) \o <<ch>> \o skip(M[p], f)
  OBVIOUS
<1>5. x = Glue(Glue(take(M[p], f), One(ch)), skip(M[p], f))
  BY <1>4 DEF Glue, One
<1>6. x \in Seq(S)
  <2>1. take(M[p], f) \in Seq(S) /\ skip(M[p], f) \in Seq(S)
    BY <1>3, TakeType
  <2> QED BY <2>1, <1>5, Placed
<1>7. [M EXCEPT ![p] = x] = Insert(M, p, f, ch)
  <2>1. x \in Seq(S) /\ p \in 1..Size(M)
    BY <1>3, <1>6
  <2>2. [M EXCEPT ![p] = x] = Glue(Glue(take(M, p - 1), One(x)), skip(M, p))
    BY <2>1, Replaced
  <2> QED BY <2>2, <1>5 DEF Insert, Put
<1>8. PICK N : N = [M EXCEPT ![p] = x]
  OBVIOUS
<1>9. [d EXCEPT !.lines[d.row] = take(@, d.col) \o <<ch>> \o skip(@, d.col), !.col = @ + 1]
        \in [lines : {N}, row : {p}, col : {f + 1}, anchor : {NoAnchor}]
  BY <1>2, <1>4, <1>8
<1>10. insert_char(b, ch) = [d EXCEPT !.lines[d.row] = take(@, d.col) \o <<ch>> \o skip(@, d.col), !.col = @ + 1]
  BY <1>1 DEF insert_char
<1> QED BY <1>7, <1>8, <1>9, <1>10, RecordIsBuf

LEMMA LineBroken ==
  ASSUME NEW S, NewLine \in S, NEW M \in Seq(Seq(S)), NEW p, NEW f, IsPlace(M, p, f),
         NEW b, delete_selection(b) = Buf(M, p, f, NoAnchor)
  PROVE  insert_newline(b) = Buf(Break(M, p, f), p + 1, 0, NoAnchor)
<1>1. PICK d : d = Buf(M, p, f, NoAnchor)
  OBVIOUS
<1>2. d \in [lines : {M}, row : {p}, col : {f}, anchor : {NoAnchor}] /\ d.row = p /\ d.col = f /\ d.lines = M
  BY <1>1, BufIsRecord, BufFields
<1>3. PICK N : N = SubSeq(M, 1, p - 1) \o <<take(M[p], f), skip(M[p], f)>> \o SubSeq(M, p + 1, Len(M))
  OBVIOUS
<1>4. N = Break(M, p, f)
  <2>1. <<take(M[p], f), skip(M[p], f)>> = Glue(One(take(M[p], f)), One(skip(M[p], f)))
    BY DEF Glue, One
  <2> QED BY <2>1, <1>3 DEF Break, Glue, take, skip
<1>5. Line(d) = M[p]
  BY <1>2 DEF Line
<1>6. [d EXCEPT !.lines = SubSeq(@, 1, d.row - 1) \o <<take(Line(d), d.col), skip(Line(d), d.col)>> \o SubSeq(@, d.row + 1, Len(@)),
                !.row = @ + 1, !.col = 0]
        \in [lines : {N}, row : {p + 1}, col : {0}, anchor : {NoAnchor}]
  BY <1>2, <1>3, <1>5
<1>7. insert_newline(b) = [d EXCEPT !.lines = SubSeq(@, 1, d.row - 1) \o <<take(Line(d), d.col), skip(Line(d), d.col)>> \o SubSeq(@, d.row + 1, Len(@)),
                !.row = @ + 1, !.col = 0]
  BY <1>1 DEF insert_newline
<1> QED BY <1>4, <1>6, <1>7, RecordIsBuf

(* What the text field calls a replacement. *)
Replaces(L, lo, hi, s, M, p, f) ==
  Whole(M) = Glue(Glue(take(Whole(L), lo), s), skip(Whole(L), hi)) /\ Far(M, p, f) = lo + Size(s)

LEMMA TypedFacts ==
  ASSUME NEW S, NewLine \in S, NEW L, NEW r, NEW c, NEW a, BufferFits(S, L, r, c, a), NEW ch \in S
  PROVE  \E M, p, f :
           /\ insert_char(Buf(L, r, c, a), ch) = Buf(M, p, f, NoAnchor) /\ BufferFits(S, M, p, f, NoAnchor)
           /\ Replaces(L, Lower(MarkAt(L, a), Far(L, r, c)), Upper(MarkAt(L, a), Far(L, r, c)), One(ch), M, p, f)
<1>1. PICK lo : lo = Lower(MarkAt(L, a), Far(L, r, c))
  OBVIOUS
<1>2. PICK hi : hi = Upper(MarkAt(L, a), Far(L, r, c))
  OBVIOUS
<1>3. PICK M, p, f :
           /\ delete_selection(Buf(L, r, c, a)) = Buf(M, p, f, NoAnchor)
           /\ M \in Seq(Seq(S)) /\ IsPlace(M, p, f) /\ Far(M, p, f) = lo
           /\ Pre(M, p, f) = take(Whole(L), lo) /\ Post(M, p, f) = skip(Whole(L), hi)
           /\ Whole(M) = Glue(Pre(M, p, f), Post(M, p, f))
  BY <1>1, <1>2, DeleteFacts
<1>4. PICK N : N = Insert(M, p, f, ch)
  OBVIOUS
<1>5. insert_char(Buf(L, r, c, a), ch) = Buf(N, p, f + 1, NoAnchor)
  BY <1>3, <1>4, CharInserted
<1>6. /\ N \in Seq(Seq(S)) /\ IsPlace(N, p, f + 1) /\ Far(N, p, f + 1) = Far(M, p, f) + 1
      /\ Whole(N) = Glue(Glue(Pre(M, p, f), One(ch)), Post(M, p, f))
  <2>1. M \in Seq(Seq(S)) /\ IsPlace(M, p, f)
    BY <1>3
  <2> QED BY <2>1, <1>4, InsertText
<1>7. Size(One(ch)) = 1
  BY OneFacts
<1>8. BufferFits(S, N, p, f + 1, NoAnchor)
  BY <1>6 DEF BufferFits, AnchorFits
<1>9. Replaces(L, lo, hi, One(ch), N, p, f + 1)
  BY <1>3, <1>6, <1>7 DEF Replaces
<1> QED BY <1>1, <1>2, <1>5, <1>8, <1>9

LEMMA NewlineFacts ==
  ASSUME NEW S, NewLine \in S, NEW L, NEW r, NEW c, NEW a, BufferFits(S, L, r, c, a)
  PROVE  \E M, p, f :
           /\ insert_newline(Buf(L, r, c, a)) = Buf(M, p, f, NoAnchor) /\ BufferFits(S, M, p, f, NoAnchor)
           /\ Replaces(L, Lower(MarkAt(L, a), Far(L, r, c)), Upper(MarkAt(L, a), Far(L, r, c)), One(NewLine), M, p, f)
<1>1. PICK lo : lo = Lower(MarkAt(L, a), Far(L, r, c))
  OBVIOUS
<1>2. PICK hi : hi = Upper(MarkAt(L, a), Far(L, r, c))
  OBVIOUS
<1>3. PICK M, p, f :
           /\ delete_selection(Buf(L, r, c, a)) = Buf(M, p, f, NoAnchor)
           /\ M \in Seq(Seq(S)) /\ IsPlace(M, p, f) /\ Far(M, p, f) = lo
           /\ Pre(M, p, f) = take(Whole(L), lo) /\ Post(M, p, f) = skip(Whole(L), hi)
           /\ Whole(M) = Glue(Pre(M, p, f), Post(M, p, f))
  BY <1>1, <1>2, DeleteFacts
<1>4. PICK N : N = Break(M, p, f)
  OBVIOUS
<1>5. insert_newline(Buf(L, r, c, a)) = Buf(N, p + 1, 0, NoAnchor)
  BY <1>3, <1>4, LineBroken
<1>6. /\ N \in Seq(Seq(S)) /\ IsPlace(N, p + 1, 0) /\ Far(N, p + 1, 0) = Far(M, p, f) + 1
      /\ Whole(N) = Glue(Glue(Pre(M, p, f), One(NewLine)), Post(M, p, f))
  <2>1. M \in Seq(Seq(S)) /\ IsPlace(M, p, f)
    BY <1>3
  <2> QED BY <2>1, <1>4, BreakText
<1>7. Size(One(NewLine)) = 1
  BY OneFacts
<1>8. BufferFits(S, N, p + 1, 0, NoAnchor)
  BY <1>6 DEF BufferFits, AnchorFits
<1>9. Replaces(L, lo, hi, One(NewLine), N, p + 1, 0)
  BY <1>3, <1>6, <1>7 DEF Replaces
<1> QED BY <1>1, <1>2, <1>5, <1>8, <1>9

(* Between two places nothing is put. *)
LEMMA CutReplaces ==
  ASSUME NEW S, NewLine \in S, NEW L \in Seq(Seq(S)),
         NEW p, NEW f, IsPlace(L, p, f), NEW q, NEW g, IsPlace(L, q, g)
  PROVE  /\ BufferFits(S, Cut(L, p, f, q, g), p, f, NoAnchor)
         /\ Replaces(L, Far(L, p, f), Far(L, q, g), Nil, Cut(L, p, f, q, g), p, f)
<1>1. /\ Cut(L, p, f, q, g) \in Seq(Seq(S)) /\ IsPlace(Cut(L, p, f, q, g), p, f)
      /\ Far(Cut(L, p, f, q, g), p, f) = Far(L, p, f)
      /\ Whole(Cut(L, p, f, q, g)) = Glue(Pre(L, p, f), Post(L, q, g))
  BY CutText
<1>2. Pre(L, p, f) = take(Whole(L), Far(L, p, f)) /\ Pre(L, p, f) \in Seq(S) /\ Far(L, p, f) \in Nat
  BY SplitText, FarType
<1>3. Post(L, q, g) = skip(Whole(L), Far(L, q, g))
  BY SplitText
<1>4. Glue(Pre(L, p, f), Nil) = Pre(L, p, f) /\ Size(Nil) = 0
  BY <1>2, NilFacts
<1> QED BY <1>1, <1>2, <1>3, <1>4 DEF BufferFits, AnchorFits, Replaces

(* Backspace takes the selected part out, or what is before the cursor: a
   symbol, or the end of the row above. *)
LEMMA BackspaceSelection ==
  ASSUME NEW S, NewLine \in S, NEW L, NEW r, NEW c, NEW a, BufferFits(S, L, r, c, a), a # NoAnchor
  PROVE  \E M, p, f :
           /\ backspace(Buf(L, r, c, a)) = Buf(M, p, f, NoAnchor) /\ BufferFits(S, M, p, f, NoAnchor)
           /\ Replaces(L, Lower(MarkAt(L, a), Far(L, r, c)), Upper(MarkAt(L, a), Far(L, r, c)), Nil, M, p, f)
<1>1. PICK p, f, q, g :
           /\ selection(Buf(L, r, c, a)) = <<<<p, f>>, <<q, g>>>> /\ selection(Buf(L, r, c, a)) # <<>>
           /\ IsPlace(L, p, f) /\ IsPlace(L, q, g) /\ Far(L, p, f) < Far(L, q, g)
           /\ Far(L, p, f) = Lower(MarkAt(L, a), Far(L, r, c)) /\ Far(L, q, g) = Upper(MarkAt(L, a), Far(L, r, c))
  BY SomeSelection
<1>2. delete_selection(Buf(L, r, c, a)) = Buf(Cut(L, p, f, q, g), p, f, NoAnchor)
  BY <1>1, DeletedSelection
<1>3. backspace(Buf(L, r, c, a)) = delete_selection(Buf(L, r, c, a))
  BY <1>1 DEF backspace
<1>4. L \in Seq(Seq(S)) /\ IsPlace(L, p, f) /\ IsPlace(L, q, g)
  BY <1>1 DEF BufferFits
<1>5. /\ BufferFits(S, Cut(L, p, f, q, g), p, f, NoAnchor)
      /\ Replaces(L, Far(L, p, f), Far(L, q, g), Nil, Cut(L, p, f, q, g), p, f)
  BY <1>4, CutReplaces
<1> QED BY <1>1, <1>2, <1>3, <1>5

LEMMA BackspaceSymbol ==
  ASSUME NEW S, NewLine \in S, NEW L, NEW r, NEW c, BufferFits(S, L, r, c, NoAnchor), c > 0
  PROVE  \E M, p, f :
           /\ backspace(Buf(L, r, c, NoAnchor)) = Buf(M, p, f, NoAnchor) /\ BufferFits(S, M, p, f, NoAnchor)
           /\ Far(L, r, c) > 0 /\ Replaces(L, Far(L, r, c) - 1, Far(L, r, c), Nil, M, p, f)
<1>1. L \in Seq(Seq(S)) /\ IsPlace(L, r, c)
  BY DEF BufferFits
<1>2. r \in 1..Size(L) /\ c \in 0..Size(L[r])
  BY <1>1 DEF IsPlace
<1>3. L[r] \in Seq(S) /\ Size(L[r]) \in Nat /\ Start(L, r) \in Nat
  BY <1>1, <1>2, StartType
<1>4. c - 1 \in 0..Size(L[r]) /\ c \in Nat
  BY <1>2, <1>3
<1>5. IsPlace(L, r, c - 1)
  BY <1>2, <1>4 DEF IsPlace
<1>6. Far(L, r, c - 1) = Far(L, r, c) - 1 /\ Far(L, r, c) > 0
  BY <1>3, <1>4 DEF Far
<1>7. PICK b : b = Buf(L, r, c, NoAnchor)
  OBVIOUS
<1>8. b \in [lines : {L}, row : {r}, col : {c}, anchor : {NoAnchor}] /\ b.row = r /\ b.col = c /\ b.lines = L
  BY <1>7, BufIsRecord, BufFields
<1>9. PICK x : x = take(L[r], c - 1) \o skip(L[r], c)
  OBVIOUS
<1>10. x = Glue(take(L[r], c - 1), skip(L[r], c)) /\ x \in Seq(S)
  <2>1. take(L[r], c - 1) \in Seq(S) /\ skip(L[r], c) \in Seq(S)
    BY <1>2, <1>3, <1>4, TakeType
  <2>2. x = Glue(take(L[r], c - 1), skip(L[r], c))
    BY <1>9 DEF Glue
  <2> QED BY <2>1, <2>2, GlueType
<1>11. [L EXCEPT ![r] = x] = Cut(L, r, c - 1, r, c)
  <2>1. x \in Seq(S) /\ r \in 1..Size(L) /\ L \in Seq(Seq(S))
    BY <1>1, <1>2, <1>10
  <2>2. [L EXCEPT ![r] = x] = Glue(Glue(take(L, r - 1), One(x)), skip(L, r))
    BY <2>1, Replaced
  <2> QED BY <2>2, <1>10 DEF Cut, Put
<1>12. PICK N : N = [L EXCEPT ![r] = x]
  OBVIOUS
<1>13. [b EXCEPT !.lines[b.row] = take(@, b.col - 1) \o skip(@, b.col), !.col = @ - 1]
        \in [lines : {N}, row : {r}, col : {c - 1}, anchor : {NoAnchor}]
  BY <1>8, <1>9, <1>12
<1>14. backspace(b) = [b EXCEPT !.lines[b.row] = take(@, b.col - 1) \o skip(@, b.col), !.col = @ - 1]
  <2>1. selection(b) = <<>>
    BY <1>7, NoSelection
  <2> QED BY <2>1, <1>8 DEF backspace
<1>15. backspace(b) = Buf(N, r, c - 1, NoAnchor)
  BY <1>13, <1>14, RecordIsBuf
<1>16. /\ BufferFits(S, Cut(L, r, c - 1, r, c), r, c - 1, NoAnchor)
       /\ Replaces(L, Far(L, r, c - 1), Far(L, r, c), Nil, Cut(L, r, c - 1, r, c), r, c - 1)
  BY <1>1, <1>5, CutReplaces
<1> QED BY <1>6, <1>7, <1>11, <1>12, <1>15, <1>16

LEMMA BackspaceRow ==
  ASSUME NEW S, NewLine \in S, NEW L, NEW r, NEW c, BufferFits(S, L, r, c, NoAnchor), ~ (c > 0), r # 1
  PROVE  \E M, p, f :
           /\ backspace(Buf(L, r, c, NoAnchor)) = Buf(M, p, f, NoAnchor) /\ BufferFits(S, M, p, f, NoAnchor)
           /\ Far(L, r, c) > 0 /\ Replaces(L, Far(L, r, c) - 1, Far(L, r, c), Nil, M, p, f)
<1>1. L \in Seq(Seq(S)) /\ IsPlace(L, r, c)
  BY DEF BufferFits
<1>2. r \in 1..Size(L) /\ c \in 0..Size(L[r]) /\ Size(L) \in Nat
  BY <1>1, SizeType DEF IsPlace
<1>3. r - 1 \in 1..Size(L) /\ (r - 1) + 1 = r /\ c = 0 /\ (r - 1) - 1 = r - 2
  BY <1>1, <1>2, FarType
<1>4. /\ L[r - 1] \in Seq(S) /\ Size(L[r - 1]) \in Nat /\ Start(L, r - 1) \in Nat /\ L[r] \in Seq(S)
      /\ Start(L, r) = Start(L, r - 1) + Size(L[r - 1]) + 1
  <2>1. /\ L[r - 1] \in Seq(S) /\ Size(L[r - 1]) \in Nat /\ Start(L, r - 1) \in Nat
        /\ (r - 1) + 1 \in 1..Size(L) => Start(L, (r - 1) + 1) = Start(L, r - 1) + Size(L[r - 1]) + 1
    BY <1>1, <1>3, StartType
  <2>2. L[r] \in Seq(S)
    BY <1>1, <1>2, StartType
  <2> QED BY <2>1, <2>2, <1>2, <1>3
<1>5. PICK n : n = Size(L[r - 1])
  OBVIOUS
<1>6. IsPlace(L, r - 1, n)
  BY <1>3, <1>4, <1>5 DEF IsPlace
<1>7. Far(L, r - 1, n) = Far(L, r, c) - 1 /\ Far(L, r, c) > 0
  BY <1>3, <1>4, <1>5 DEF Far
<1>8. PICK b : b = Buf(L, r, c, NoAnchor)
  OBVIOUS
<1>9. b \in [lines : {L}, row : {r}, col : {c}, anchor : {NoAnchor}] /\ b.row = r /\ b.col = c /\ b.lines = L
  BY <1>8, BufIsRecord, BufFields
<1>10. PICK N : N = SubSeq(L, 1, r - 2) \o <<L[r - 1] \o L[r]>> \o SubSeq(L, r + 1, Len(L))
  OBVIOUS
<1>11. N = Cut(L, r - 1, n, r, c)
  <2>1. take(L[r - 1], n) = L[r - 1] /\ skip(L[r], c) = L[r]
    BY <1>3, <1>4, <1>5, TakeNone
  <2>2. N = Glue(Glue(take(L, r - 2), One(Glue(L[r - 1], L[r]))), skip(L, r))
    BY <1>10 DEF Glue, One, take, skip
  <2> QED BY <2>1, <2>2, <1>3 DEF Cut, Put
<1>12. Line(b) = L[r] /\ b.lines[b.row - 1] = L[r - 1]
  BY <1>9 DEF Line
<1>13. Len(L[r - 1]) = n
  BY <1>5 DEF Size
<1>14. [b EXCEPT !.lines = SubSeq(@, 1, b.row - 2) \o <<b.lines[b.row - 1] \o Line(b)>> \o SubSeq(@, b.row + 1, Len(@)),
                 !.row = @ - 1, !.col = Len(b.lines[b.row - 1])]
        \in [lines : {N}, row : {r - 1}, col : {n}, anchor : {NoAnchor}]
  BY <1>9, <1>10, <1>12, <1>13
<1>15. backspace(b) = [b EXCEPT !.lines = SubSeq(@, 1, b.row - 2) \o <<b.lines[b.row - 1] \o Line(b)>> \o SubSeq(@, b.row + 1, Len(@)),
                 !.row = @ - 1, !.col = Len(b.lines[b.row - 1])]
  <2>1. selection(b) = <<>>
    BY <1>8, NoSelection
  <2> QED BY <2>1, <1>9 DEF backspace
<1>16. backspace(b) = Buf(N, r - 1, n, NoAnchor)
  BY <1>14, <1>15, RecordIsBuf
<1>17. /\ BufferFits(S, Cut(L, r - 1, n, r, c), r - 1, n, NoAnchor)
       /\ Replaces(L, Far(L, r - 1, n), Far(L, r, c), Nil, Cut(L, r - 1, n, r, c), r - 1, n)
  BY <1>1, <1>6, CutReplaces
<1> QED BY <1>7, <1>8, <1>11, <1>16, <1>17

LEMMA BackspaceNothing ==
  ASSUME NEW L, NEW c, ~ (c > 0)
  PROVE  backspace(Buf(L, 1, c, NoAnchor)) = Buf(L, 1, c, NoAnchor)
BY NoSelection, BufFields DEF backspace

(* A step leaves the lines and ends at a place. *)
LEMMA RowSet ==
  ASSUME NEW S, NewLine \in S, NEW L \in Seq(Seq(S)), NEW r, NEW c, IsPlace(L, r, c), NEW a, NEW q \in 1..Size(L)
  PROVE  /\ ToRow(Buf(L, r, c, a), q) = Buf(L, q, Least(c, Size(L[q])), a)
         /\ IsPlace(L, q, Least(c, Size(L[q])))
<1>1. PICK b : b = Buf(L, r, c, a)
  OBVIOUS
<1>2. b \in [lines : {L}, row : {r}, col : {c}, anchor : {a}] /\ b.row = r /\ b.col = c /\ b.lines = L
  BY <1>1, BufIsRecord, BufFields
<1>3. Len(L[q]) = Size(L[q]) /\ Size(L[q]) \in Nat /\ c \in Nat
  BY StartType, FarType DEF Size
<1>4. PICK d : d = Least(c, Size(L[q]))
  OBVIOUS
<1>5. d \in 0..Size(L[q])
  BY <1>3, <1>4 DEF Least
<1>6. [b EXCEPT !.row = q, !.col = Least(@, Len(b.lines[q]))] \in [lines : {L}, row : {q}, col : {d}, anchor : {a}]
  BY <1>2, <1>3, <1>4
<1>7. ToRow(b, q) = Buf(L, q, d, a)
  BY <1>6, RecordIsBuf DEF ToRow
<1> QED BY <1>1, <1>4, <1>5, <1>7 DEF IsPlace

LEMMA Stepped ==
  ASSUME NEW S, NewLine \in S, NEW L \in Seq(Seq(S)), NEW r, NEW c, IsPlace(L, r, c), NEW a, NEW way \in Ways
  PROVE  \E p, f : Step(Buf(L, r, c, a), way) = Buf(L, p, f, a) /\ IsPlace(L, p, f)
<1>1. PICK b : b = Buf(L, r, c, a)
  OBVIOUS
<1>2. b \in [lines : {L}, row : {r}, col : {c}, anchor : {a}] /\ b.row = r /\ b.col = c /\ b.lines = L
  BY <1>1, BufIsRecord, BufFields
<1>3. r \in 1..Size(L) /\ c \in 0..Size(L[r]) /\ Size(L) \in Nat /\ Size(L[r]) \in Nat
  BY SizeType, StartType DEF IsPlace
<1>4. r \in Nat /\ c \in Nat /\ Len(L) = Size(L) /\ Len(Line(b)) = Size(L[r])
  BY <1>2, <1>3 DEF Size, Line
<1>4a. \A q \in 1..Size(L) :
          /\ ToRow(Buf(L, r, c, a), q) = Buf(L, q, Least(c, Size(L[q])), a)
          /\ IsPlace(L, q, Least(c, Size(L[q])))
  <2>1. ASSUME NEW q \in 1..Size(L)
        PROVE  /\ ToRow(Buf(L, r, c, a), q) = Buf(L, q, Least(c, Size(L[q])), a)
               /\ IsPlace(L, q, Least(c, Size(L[q])))
    <3>1. ToRow(Buf(L, r, c, a), q) = Buf(L, q, Least(c, Size(L[q])), a)
      BY RowSet
    <3>2. IsPlace(L, q, Least(c, Size(L[q])))
      BY RowSet
    <3> QED BY <3>1, <3>2
  <2> QED BY <2>1
<1>5. \E p, f : step_left(b) = Buf(L, p, f, a) /\ IsPlace(L, p, f)
  <2>1. CASE c > 0
    <3>1. [b EXCEPT !.col = @ - 1] \in [lines : {L}, row : {r}, col : {c - 1}, anchor : {a}]
      BY <1>2
    <3>2. step_left(b) = Buf(L, r, c - 1, a)
      BY <3>1, <2>1, <1>2, RecordIsBuf DEF step_left
    <3>3. IsPlace(L, r, c - 1)
      BY <2>1, <1>3, <1>4 DEF IsPlace
    <3> QED BY <3>2, <3>3
  <2>2. CASE ~ (c > 0) /\ r > 1
    <3>1. r - 1 \in 1..Size(L)
      BY <2>2, <1>3, <1>4
    <3>2. PICK n : n = Size(L[r - 1])
      OBVIOUS
    <3>3. n \in Nat /\ Len(L[r - 1]) = n
      BY <3>1, <3>2, StartType DEF Size
    <3>4. [b EXCEPT !.row = @ - 1, !.col = Len(b.lines[b.row - 1])]
            \in [lines : {L}, row : {r - 1}, col : {n}, anchor : {a}]
      BY <3>3, <1>2
    <3>5. step_left(b) = Buf(L, r - 1, n, a)
      BY <3>4, <2>2, <1>2, RecordIsBuf DEF step_left
    <3>6. IsPlace(L, r - 1, n)
      BY <3>1, <3>2, <3>3 DEF IsPlace
    <3> QED BY <3>5, <3>6
  <2>3. CASE ~ (c > 0) /\ ~ (r > 1)
    BY <2>3, <1>1, <1>2 DEF step_left
  <2> QED BY <2>1, <2>2, <2>3
<1>6. \E p, f : step_right(b) = Buf(L, p, f, a) /\ IsPlace(L, p, f)
  <2>1. CASE c < Size(L[r])
    <3>1. [b EXCEPT !.col = @ + 1] \in [lines : {L}, row : {r}, col : {c + 1}, anchor : {a}]
      BY <1>2
    <3>2. step_right(b) = Buf(L, r, c + 1, a)
      BY <3>1, <2>1, <1>2, <1>4, RecordIsBuf DEF step_right
    <3>3. IsPlace(L, r, c + 1)
      BY <2>1, <1>3, <1>4 DEF IsPlace
    <3> QED BY <3>2, <3>3
  <2>2. CASE ~ (c < Size(L[r])) /\ r < Size(L)
    <3>1. r + 1 \in 1..Size(L)
      BY <2>2, <1>3, <1>4
    <3>2. Size(L[r + 1]) \in Nat
      BY <3>1, StartType
    <3>3. [b EXCEPT !.row = @ + 1, !.col = 0] \in [lines : {L}, row : {r + 1}, col : {0}, anchor : {a}]
      BY <1>2
    <3>4. step_right(b) = Buf(L, r + 1, 0, a)
      BY <3>3, <2>2, <1>2, <1>4, RecordIsBuf DEF step_right
    <3>5. IsPlace(L, r + 1, 0)
      BY <3>1, <3>2 DEF IsPlace
    <3> QED BY <3>4, <3>5
  <2>3. CASE ~ (c < Size(L[r])) /\ ~ (r < Size(L))
    BY <2>3, <1>1, <1>2, <1>4 DEF step_right
  <2> QED BY <2>1, <2>2, <2>3
<1>7. \E p, f : step_up(b) = Buf(L, p, f, a) /\ IsPlace(L, p, f)
  <2>1. CASE r > 1
    <3>1. PICK q \in 1..Size(L) : q = r - 1
      BY <2>1, <1>3, <1>4
    <3>2. /\ ToRow(Buf(L, r, c, a), q) = Buf(L, q, Least(c, Size(L[q])), a)
          /\ IsPlace(L, q, Least(c, Size(L[q])))
      BY <1>4a
    <3> QED BY <3>1, <3>2, <2>1, <1>1, <1>2 DEF step_up
  <2>2. CASE ~ (r > 1)
    BY <2>2, <1>1, <1>2 DEF step_up
  <2> QED BY <2>1, <2>2
<1>8. \E p, f : step_down(b) = Buf(L, p, f, a) /\ IsPlace(L, p, f)
  <2>1. CASE r < Size(L)
    <3>1. PICK q \in 1..Size(L) : q = r + 1
      BY <2>1, <1>3, <1>4
    <3>2. /\ ToRow(Buf(L, r, c, a), q) = Buf(L, q, Least(c, Size(L[q])), a)
          /\ IsPlace(L, q, Least(c, Size(L[q])))
      BY <1>4a
    <3> QED BY <3>1, <3>2, <2>1, <1>1, <1>2, <1>4 DEF step_down
  <2>2. CASE ~ (r < Size(L))
    BY <2>2, <1>1, <1>2, <1>4 DEF step_down
  <2> QED BY <2>1, <2>2
<1>9. \E p, f : [b EXCEPT !.col = 0] = Buf(L, p, f, a) /\ IsPlace(L, p, f)
  <2>1. [b EXCEPT !.col = 0] \in [lines : {L}, row : {r}, col : {0}, anchor : {a}]
    BY <1>2
  <2>2. [b EXCEPT !.col = 0] = Buf(L, r, 0, a)
    BY <2>1, RecordIsBuf
  <2>3. IsPlace(L, r, 0)
    BY <1>3 DEF IsPlace
  <2> QED BY <2>2, <2>3
<1>10. \E p, f : [b EXCEPT !.col = Len(Line(b))] = Buf(L, p, f, a) /\ IsPlace(L, p, f)
  <2>0. PICK n : n = Size(L[r])
    OBVIOUS
  <2>1. [b EXCEPT !.col = Len(Line(b))] \in [lines : {L}, row : {r}, col : {n}, anchor : {a}]
    BY <2>0, <1>2, <1>4
  <2>2. [b EXCEPT !.col = Len(Line(b))] = Buf(L, r, n, a)
    BY <2>1, RecordIsBuf
  <2>3. IsPlace(L, r, n)
    BY <2>0, <1>3 DEF IsPlace
  <2> QED BY <2>2, <2>3
<1>11. Step(b, way) \in {step_left(b), step_right(b), step_up(b), step_down(b), [b EXCEPT !.col = 0], [b EXCEPT !.col = Len(Line(b))]}
  <2>1. PICK home : home = [b EXCEPT !.col = 0]
    OBVIOUS
  <2>2. PICK end : end = [b EXCEPT !.col = Len(Line(b))]
    OBVIOUS
  <2>3. Step(b, way) = [Left |-> step_left(b), Right |-> step_right(b), Up |-> step_up(b), Down |-> step_down(b),
                        Home |-> home, End |-> end][way]
    BY <2>1, <2>2 DEF Step
  <2>4. Step(b, way) \in {step_left(b), step_right(b), step_up(b), step_down(b), home, end}
    BY <2>3 DEF Ways
  <2> QED BY <2>1, <2>2, <2>4
<1> QED BY <1>1, <1>5, <1>6, <1>7, <1>8, <1>9, <1>10, <1>11

(* Moving leaves nothing marked. *)
LEMMA AnchorSet ==
  ASSUME NEW L, NEW r, NEW c, NEW a, NEW b, b = Buf(L, r, c, a), NEW e
  PROVE  [b EXCEPT !.anchor = e] = Buf(L, r, c, e)
<1>1. b \in [lines : {L}, row : {r}, col : {c}, anchor : {a}]
  BY BufIsRecord
<1>2. [b EXCEPT !.anchor = e] \in [lines : {L}, row : {r}, col : {c}, anchor : {e}]
  BY <1>1
<1> QED BY <1>2, RecordIsBuf

LEMMA MovedFacts ==
  ASSUME NEW S, NewLine \in S, NEW L, NEW r, NEW c, NEW a, BufferFits(S, L, r, c, a), NEW way \in Ways
  PROVE  \E p, f : move(Buf(L, r, c, a), way) = Buf(L, p, f, NoAnchor) /\ IsPlace(L, p, f)
<1>1. L \in Seq(Seq(S)) /\ IsPlace(L, r, c)
  BY DEF BufferFits
<1>2. CASE selection(Buf(L, r, c, a)) # <<>> /\ way \in {"Left", "Right"}
  <2>1. a # NoAnchor
    BY <1>2, NoSelection
  <2>2. PICK p, f, q, g :
           /\ selection(Buf(L, r, c, a)) = <<<<p, f>>, <<q, g>>>>
           /\ IsPlace(L, p, f) /\ IsPlace(L, q, g)
    BY <2>1, SomeSelection
  <2>3. PICK s : s = selection(Buf(L, r, c, a))[IF way = "Left" THEN 1 ELSE 2]
    OBVIOUS
  <2>4. s = <<p, f>> \/ s = <<q, g>>
    BY <2>2, <2>3
  <2>5. IsPlace(L, s[1], s[2])
    BY <2>2, <2>4, PairFacts
  <2>6. move(Buf(L, r, c, a), way) = set_cursor(Buf(L, r, c, a), s)
    BY <1>2, <2>3 DEF move
  <2>7. set_cursor(Buf(L, r, c, a), s) = Buf(L, s[1], s[2], NoAnchor)
    BY CursorSet
  <2> QED BY <2>5, <2>6, <2>7
<1>3. CASE ~ (selection(Buf(L, r, c, a)) # <<>> /\ way \in {"Left", "Right"})
  <2>1. PICK p, f : Step(Buf(L, r, c, a), way) = Buf(L, p, f, a) /\ IsPlace(L, p, f)
    BY <1>1, Stepped
  <2>2. PICK d : d = Buf(L, p, f, a)
    OBVIOUS
  <2>3. move(Buf(L, r, c, a), way) = [d EXCEPT !.anchor = NoAnchor]
    BY <1>3, <2>1, <2>2 DEF move
  <2>4. [d EXCEPT !.anchor = NoAnchor] = Buf(L, p, f, NoAnchor)
    BY <2>2, AnchorSet
  <2> QED BY <2>1, <2>3, <2>4
<1> QED BY <1>2, <1>3

(* Selecting marks from where it began to the cursor, as long as that is
   somewhere else. *)
LEMMA SelectedFacts ==
  ASSUME NEW S, NewLine \in S, NEW L, NEW r, NEW c, NEW a, BufferFits(S, L, r, c, a), NEW way \in Ways
  PROVE  \E p, f, e :
           /\ select(Buf(L, r, c, a), way) = Buf(L, p, f, e) /\ BufferFits(S, L, p, f, e)
           /\ LET start == IF a = NoAnchor THEN Far(L, r, c) ELSE MarkAt(L, a)
              IN MarkAt(L, e) = IF Far(L, p, f) = start THEN 0 - 1 ELSE start
<1>1. L \in Seq(Seq(S)) /\ IsPlace(L, r, c)
  BY DEF BufferFits
<1>2. PICK p, f : Step(Buf(L, r, c, a), way) = Buf(L, p, f, a) /\ IsPlace(L, p, f)
  BY <1>1, Stepped
<1>3. PICK x, y : /\ IF a = NoAnchor THEN <<x, y>> = <<r, c>> ELSE <<x, y>> = a
                  /\ IsPlace(L, x, y)
  <2>1. CASE a = NoAnchor
    BY <2>1, <1>1
  <2>2. CASE a # NoAnchor
    BY <2>2 DEF BufferFits, AnchorFits
  <2> QED BY <2>1, <2>2
<1>4. PICK start : start = Far(L, x, y)
  OBVIOUS
<1>5. start = IF a = NoAnchor THEN Far(L, r, c) ELSE MarkAt(L, a)
  <2>1. CASE a = NoAnchor
    <3>1. x = r /\ y = c
      BY <2>1, <1>3, PairFacts
    <3> QED BY <3>1, <2>1, <1>4
  <2>2. CASE a # NoAnchor
    <3>1. x = a[1] /\ y = a[2]
      BY <2>2, <1>3, PairFacts
    <3> QED BY <3>1, <2>2, <1>4 DEF MarkAt
  <2> QED BY <2>1, <2>2
<1>6. PICK b : b = Buf(L, r, c, a)
  OBVIOUS
<1>7. PICK d : d = Buf(L, p, f, a)
  OBVIOUS
<1>8. PICK e : e = [d EXCEPT !.anchor = IF @ = NoAnchor THEN Cursor(b) ELSE @]
  OBVIOUS
<1>9. PICK z : z = <<x, y>>
  OBVIOUS
<1>10. z # NoAnchor /\ z[1] = x /\ z[2] = y
  BY <1>9, PairFacts
<1>11. Cursor(b) = <<r, c>>
  BY <1>6, BufFields DEF Cursor
<1>12. d.anchor = a
  BY <1>7, BufFields
<1>13. (IF d.anchor = NoAnchor THEN Cursor(b) ELSE d.anchor) = z
  BY <1>3, <1>9, <1>11, <1>12
<1>14. e = [d EXCEPT !.anchor = z]
  BY <1>8, <1>13
<1>15. e = Buf(L, p, f, z)
  BY <1>7, <1>14, AnchorSet
<1>16. e.anchor = z /\ Cursor(e) = <<p, f>>
  BY <1>15, BufFields DEF Cursor
<1>17. select(b, way) = IF e.anchor = Cursor(e) THEN [e EXCEPT !.anchor = NoAnchor] ELSE e
  <2>1. Step(b, way) = d
    BY <1>2, <1>6, <1>7
  <2> QED BY <2>1, <1>8 DEF select
<1>18. CASE x = p /\ y = f
  <2>1. e.anchor = Cursor(e)
    BY <1>9, <1>16, <1>18
  <2>2. [e EXCEPT !.anchor = NoAnchor] = Buf(L, p, f, NoAnchor)
    BY <1>15, AnchorSet
  <2>3. select(b, way) = Buf(L, p, f, NoAnchor)
    BY <2>1, <2>2, <1>17
  <2>4. BufferFits(S, L, p, f, NoAnchor)
    BY <1>1, <1>2 DEF BufferFits, AnchorFits
  <2>5. MarkAt(L, NoAnchor) = 0 - 1 /\ Far(L, p, f) = start
    BY <1>4, <1>18 DEF MarkAt
  <2> QED BY <2>3, <2>4, <2>5, <1>5, <1>6
<1>19. CASE x # p \/ y # f
  <2>1. e.anchor # Cursor(e)
    BY <1>9, <1>16, <1>19, PairFacts
  <2>2. select(b, way) = Buf(L, p, f, z)
    BY <2>1, <1>15, <1>17
  <2>3. BufferFits(S, L, p, f, z)
    BY <1>1, <1>2, <1>3, <1>9, <1>10, <1>19 DEF BufferFits, AnchorFits
  <2>4. MarkAt(L, z) = start
    BY <1>4, <1>10 DEF MarkAt
  <2>5. Far(L, p, f) # start
    <3>1. x \in Nat /\ y \in Nat /\ Far(L, x, y) \in Nat
      BY <1>1, <1>3, FarType
    <3>2. p \in Nat /\ f \in Nat /\ Far(L, p, f) \in Nat
      BY <1>1, <1>2, FarType
    <3>3. (x < p \/ (x = p /\ y < f)) \/ (p < x \/ (p = x /\ f < y))
      BY <3>1, <3>2, <1>19
    <3>4. CASE x < p \/ (x = p /\ y < f)
      <4>1. Far(L, x, y) < Far(L, p, f)
        BY <3>4, <1>1, <1>2, <1>3, PlacesInOrder
      <4> QED BY <4>1, <3>1, <3>2, <1>4
    <3>5. CASE p < x \/ (p = x /\ f < y)
      <4>1. Far(L, p, f) < Far(L, x, y)
        BY <3>5, <1>1, <1>2, <1>3, PlacesInOrder
      <4> QED BY <4>1, <3>1, <3>2, <1>4
    <3> QED BY <3>3, <3>4, <3>5
  <2> QED BY <2>2, <2>3, <2>4, <2>5, <1>5, <1>6
<1> QED BY <1>18, <1>19

(* A text in the place of all. *)
LEMMA FilledFacts ==
  ASSUME NEW S, NewLine \in S, NEW t \in Seq(S)
  PROVE  \E L :
           /\ filled(t) = Buf(L, 1, Size(t), NoAnchor) /\ BufferFits(S, L, 1, Size(t), NoAnchor)
           /\ Whole(L) = t /\ Far(L, 1, Size(t)) = Size(t)
<1>1. PICK L : L = One(t)
  OBVIOUS
<1>2. L \in Seq(Seq(S)) /\ Size(L) = 1 /\ Whole(L) = t
  BY <1>1, OneFacts, WholeOne
<1>3. L[1] = t
  BY <1>1 DEF One
<1>4. 1 \in 1..Size(L) /\ Size(t) \in Nat
  BY <1>2, SizeType
<1>5. IsPlace(L, 1, Size(t))
  BY <1>3, <1>4 DEF IsPlace
<1>6. Start(L, 1) = 0
  BY <1>2, <1>4, StartType
<1>7. filled(t) = Buf(L, 1, Size(t), NoAnchor)
  BY <1>1 DEF filled, Buf, One, Size
<1> QED BY <1>2, <1>4, <1>5, <1>6, <1>7 DEF BufferFits, AnchorFits, Far

-----------------------------------------------------------------------------
(* The table of commands: what it inserts are texts of words. *)
Vocabulary == {
  "/help", "/clear", "/quit", "/config", "/providers", "/refresh", "/provider", "/codex-login",
  "/openai-login", "/provider-login", "openai", "/provider-add", "/provider-add-openai-oauth",
  "gpt-4.1", "/provider-add-custom", "/model", "/endpoint", "/key-ref", "/n8n", "/n8n-mode",
  "/n8n-key-ref", "/vault", "set", "remove", "/cd", "/clearsessions", "<backend>", "<model>",
  "[token-ref]", "[key-ref]", "[endpoint]", "<endpoint>", "<name>", "<url>", "<ref>", "<rest|mcp>",
  "<secret>", "<path>"}
Meanings == {
  "Help", "ClearTranscript", "Quit", "ShowConfig", "ListProviders", "Refresh", "SetProvider",
  "CodexLogin", "OpenAiLogin", "AddKnownProvider", "AddOpenAiOAuthProvider", "AddCustomProvider",
  "SetModel", "SetEndpoint", "SetKeyRef", "SetN8n", "SetN8nMode", "SetN8nKeyRef", "StoreSecret",
  "DeleteSecret", "ChangeDir", "ClearSessions"}
Row == [insert_text : Seq(Vocabulary), signature : Seq(Vocabulary), args : Seq(Vocabulary), cmd : Meanings]

LEMMA VocabularyHas ==
  /\ "/help" \in Vocabulary /\ "/clear" \in Vocabulary /\ "/quit" \in Vocabulary
  /\ "/config" \in Vocabulary /\ "/providers" \in Vocabulary /\ "/refresh" \in Vocabulary
  /\ "/provider" \in Vocabulary /\ "/codex-login" \in Vocabulary /\ "/openai-login" \in Vocabulary
  /\ "/provider-login" \in Vocabulary /\ "openai" \in Vocabulary /\ "/provider-add" \in Vocabulary
  /\ "/provider-add-openai-oauth" \in Vocabulary /\ "gpt-4.1" \in Vocabulary /\ "/provider-add-custom" \in Vocabulary
  /\ "/model" \in Vocabulary /\ "/endpoint" \in Vocabulary /\ "/key-ref" \in Vocabulary
  /\ "/n8n" \in Vocabulary /\ "/n8n-mode" \in Vocabulary /\ "/n8n-key-ref" \in Vocabulary
  /\ "/vault" \in Vocabulary /\ "set" \in Vocabulary /\ "remove" \in Vocabulary
  /\ "/cd" \in Vocabulary /\ "/clearsessions" \in Vocabulary /\ "<backend>" \in Vocabulary
  /\ "<model>" \in Vocabulary /\ "[token-ref]" \in Vocabulary /\ "[key-ref]" \in Vocabulary
  /\ "[endpoint]" \in Vocabulary /\ "<endpoint>" \in Vocabulary /\ "<name>" \in Vocabulary
  /\ "<url>" \in Vocabulary /\ "<ref>" \in Vocabulary /\ "<rest|mcp>" \in Vocabulary
  /\ "<secret>" \in Vocabulary /\ "<path>" \in Vocabulary
BY DEF Vocabulary

LEMMA MeaningsHas ==
  /\ "Help" \in Meanings /\ "ClearTranscript" \in Meanings /\ "Quit" \in Meanings
  /\ "ShowConfig" \in Meanings /\ "ListProviders" \in Meanings /\ "Refresh" \in Meanings
  /\ "SetProvider" \in Meanings /\ "CodexLogin" \in Meanings /\ "OpenAiLogin" \in Meanings
  /\ "AddKnownProvider" \in Meanings /\ "AddOpenAiOAuthProvider" \in Meanings /\ "AddCustomProvider" \in Meanings
  /\ "SetModel" \in Meanings /\ "SetEndpoint" \in Meanings /\ "SetKeyRef" \in Meanings
  /\ "SetN8n" \in Meanings /\ "SetN8nMode" \in Meanings /\ "SetN8nKeyRef" \in Meanings
  /\ "StoreSecret" \in Meanings /\ "DeleteSecret" \in Meanings /\ "ChangeDir" \in Meanings
  /\ "ClearSessions" \in Meanings
BY DEF Meanings

LEMMA DefIsRow ==
  ASSUME NEW t \in Seq(Vocabulary), NEW more \in Seq(Vocabulary), NEW cmd \in Meanings
  PROVE  Def(t, more, cmd) \in Row
BY DEF Def, Row

LEMMA DefsAreRows ==
  ASSUME NEW v \in Vocabulary, NEW cmd \in Meanings
  PROVE  /\ Def(<<v>>, <<>>, cmd) \in Row
         /\ \A w \in Vocabulary : Def(<<v>>, <<w>>, cmd) \in Row
         /\ \A w, x \in Vocabulary : Def(<<v>>, <<w, x>>, cmd) \in Row /\ Def(<<v, w>>, <<x>>, cmd) \in Row
         /\ \A w, x, y \in Vocabulary : Def(<<v, w>>, <<x, y>>, cmd) \in Row
         /\ \A w, x, y, z \in Vocabulary : Def(<<v>>, <<w, x, y, z>>, cmd) \in Row
<1>1. <<>> \in Seq(Vocabulary)
  OBVIOUS
<1>2. \A w \in Vocabulary : <<w>> \in Seq(Vocabulary)
  OBVIOUS
<1>3. \A w, x \in Vocabulary : <<w, x>> \in Seq(Vocabulary)
  OBVIOUS
<1>4. \A w, x, y, z \in Vocabulary : <<w, x, y, z>> \in Seq(Vocabulary)
  OBVIOUS
<1>5. Def(<<v>>, <<>>, cmd) \in Row
  BY <1>1, <1>2, DefIsRow, Zenon
<1>6. \A w \in Vocabulary : Def(<<v>>, <<w>>, cmd) \in Row
  BY <1>2, DefIsRow, Zenon
<1>7. \A w, x \in Vocabulary : Def(<<v>>, <<w, x>>, cmd) \in Row
  BY <1>2, <1>3, DefIsRow, Zenon
<1>8. \A w, x \in Vocabulary : Def(<<v, w>>, <<x>>, cmd) \in Row
  BY <1>2, <1>3, DefIsRow, Zenon
<1>9. \A w, x, y \in Vocabulary : Def(<<v, w>>, <<x, y>>, cmd) \in Row
  BY <1>3, DefIsRow, Zenon
<1>10. \A w, x, y, z \in Vocabulary : Def(<<v>>, <<w, x, y, z>>, cmd) \in Row
  BY <1>2, <1>4, DefIsRow, Zenon
<1> QED BY <1>5, <1>6, <1>7, <1>8, <1>9, <1>10

LEMMA DefText ==
  ASSUME NEW t, NEW more, NEW cmd
  PROVE  Def(t, more, cmd).insert_text = t
BY DEF Def

LEMMA CommandsAreRows == COMMANDS \in Seq(Row) /\ Len(COMMANDS) = 23 /\ COMMANDS[11].insert_text = <<"/provider-add">>
<1>1. /\ Def(<<"/help">>, <<>>, "Help") \in Row
      /\ Def(<<"/clear">>, <<>>, "ClearTranscript") \in Row
      /\ Def(<<"/quit">>, <<>>, "Quit") \in Row
  BY DefsAreRows, VocabularyHas, MeaningsHas, Zenon
<1>2. /\ Def(<<"/config">>, <<>>, "ShowConfig") \in Row
      /\ Def(<<"/providers">>, <<>>, "ListProviders") \in Row
      /\ Def(<<"/refresh">>, <<>>, "Refresh") \in Row
  BY DefsAreRows, VocabularyHas, MeaningsHas, Zenon
<1>3. /\ Def(<<"/provider">>, <<"<backend>", "<model>">>, "SetProvider") \in Row
      /\ Def(<<"/codex-login">>, <<>>, "CodexLogin") \in Row
  BY DefsAreRows, VocabularyHas, MeaningsHas, Zenon
<1>4. /\ Def(<<"/openai-login">>, <<"[token-ref]">>, "OpenAiLogin") \in Row
      /\ Def(<<"/provider-login", "openai">>, <<"[token-ref]">>, "OpenAiLogin") \in Row
  BY DefsAreRows, VocabularyHas, MeaningsHas, Zenon
<1>5. Def(<<"/provider-add">>, <<"<backend>", "<model>", "[key-ref]", "[endpoint]">>, "AddKnownProvider") \in Row
  BY DefsAreRows, VocabularyHas, MeaningsHas, Zenon
<1>6. PICK oauth : oauth = [insert_text |-> <<"/provider-add-openai-oauth", "gpt-4.1">>,
                            signature |-> <<"/provider-add-openai-oauth", "<model>", "[token-ref]">>,
                            args |-> <<"[token-ref]">>, cmd |-> "AddOpenAiOAuthProvider"]
  OBVIOUS
<1>7. oauth \in Row
  BY <1>6, VocabularyHas, MeaningsHas DEF Row
<1>8. Def(<<"/provider-add-custom">>, <<"<backend>", "<endpoint>", "<model>", "[key-ref]">>, "AddCustomProvider") \in Row
  BY DefsAreRows, VocabularyHas, MeaningsHas, Zenon
<1>9. /\ Def(<<"/model">>, <<"<name>">>, "SetModel") \in Row
      /\ Def(<<"/endpoint">>, <<"<url>">>, "SetEndpoint") \in Row
      /\ Def(<<"/key-ref">>, <<"<ref>">>, "SetKeyRef") \in Row
  BY DefsAreRows, VocabularyHas, MeaningsHas, Zenon
<1>10. /\ Def(<<"/n8n">>, <<"<url>">>, "SetN8n") \in Row
       /\ Def(<<"/n8n-mode">>, <<"<rest|mcp>">>, "SetN8nMode") \in Row
       /\ Def(<<"/n8n-key-ref">>, <<"<ref>">>, "SetN8nKeyRef") \in Row
  BY DefsAreRows, VocabularyHas, MeaningsHas, Zenon
<1>11. /\ Def(<<"/vault", "set">>, <<"<ref>", "<secret>">>, "StoreSecret") \in Row
       /\ Def(<<"/vault", "remove">>, <<"<ref>">>, "DeleteSecret") \in Row
  BY DefsAreRows, VocabularyHas, MeaningsHas, Zenon
<1>12. /\ Def(<<"/cd">>, <<"<path>">>, "ChangeDir") \in Row
       /\ Def(<<"/clearsessions">>, <<>>, "ClearSessions") \in Row
  BY DefsAreRows, VocabularyHas, MeaningsHas, Zenon
<1>13. COMMANDS \in Seq(Row) /\ Len(COMMANDS) = 23
  BY <1>1, <1>2, <1>3, <1>4, <1>5, <1>6, <1>7, <1>8, <1>9, <1>10, <1>11, <1>12 DEF COMMANDS
<1>14. COMMANDS[11].insert_text = <<"/provider-add">>
  <2>1. COMMANDS[11] = Def(<<"/provider-add">>, <<"<backend>", "<model>", "[key-ref]", "[endpoint]">>, "AddKnownProvider")
    BY DEF COMMANDS
  <2> QED BY <2>1, DefText
<1> QED BY <1>13, <1>14

(* The symbols that can be in the composer. *)
Symbol == Typed \cup {NewLine} \cup Vocabulary

LEMMA NewLineIsSymbol == NewLine \in Symbol
BY DEF Symbol

LEMMA InsertableFacts ==
  /\ Entries = 1..23 /\ Insertable \subseteq Seq(Symbol) /\ <<>> \in Insertable /\ <<"/provider-add">> \in Insertable
  /\ \A i \in Entries : COMMANDS[i].insert_text \in Insertable /\ COMMANDS[i].signature \in Insertable
<1>1. Entries = 1..23
  BY CommandsAreRows DEF Entries
<1>2. \A i \in Entries : COMMANDS[i] \in Row
  <2>1. 1..23 = 1..Len(COMMANDS) /\ COMMANDS \in Seq(Row)
    BY CommandsAreRows
  <2> QED BY <2>1, <1>1, ElementOfSeq
<1>3. \A i \in Entries : COMMANDS[i].insert_text \in Seq(Vocabulary) /\ COMMANDS[i].signature \in Seq(Vocabulary)
  BY <1>2 DEF Row
<1>4. Seq(Vocabulary) \subseteq Seq(Symbol)
  BY DEF Symbol
<1>5. <<>> \in Seq(Vocabulary)
  OBVIOUS
<1>6. Insertable \subseteq Seq(Vocabulary)
  BY <1>3, <1>5 DEF Insertable
<1>7. \A i \in Entries : COMMANDS[i].insert_text \in Insertable /\ COMMANDS[i].signature \in Insertable
  BY DEF Insertable
<1>8. <<>> \in Insertable
  BY DEF Insertable
<1>9. <<"/provider-add">> \in Insertable
  <2>1. 11 \in Entries
    BY <1>1
  <2> QED BY <2>1, <1>7, CommandsAreRows
<1> QED BY <1>1, <1>4, <1>6, <1>7, <1>8, <1>9

LEMMA CompletionIsInsertable ==
  ASSUME NEW text
  PROVE  best_completion(text) \subseteq Insertable
<1>1. suggest_commands(text) \subseteq Entries
  BY DEF suggest_commands
<1> QED BY <1>1, InsertableFacts DEF best_completion

LEMMA InsertedIsTyped ==
  ASSUME NEW key, map_key(key) = "ComposerInsert"
  PROVE  key \in Typed
<1>1. \A k \in DOMAIN KeysAnywhere : KeysAnywhere[k] # "ComposerInsert"
  BY DEF KeysAnywhere
<1>2. \A k \in DOMAIN KeysInComposer : KeysInComposer[k] # "ComposerInsert"
  BY DEF KeysInComposer
<1>3. \A k \in DOMAIN KeysElsewhere : KeysElsewhere[k] # "ComposerInsert"
  BY DEF KeysElsewhere
<1>4. \A k \in DOMAIN KeysHere : KeysHere[k] # "ComposerInsert"
  BY <1>2, <1>3 DEF KeysHere
<1> QED BY <1>1, <1>4 DEF map_key

LEMMA MovesAreWays ==
  /\ \A action \in DOMAIN Moves : Moves[action] \in Ways
  /\ \A action \in DOMAIN Selects : Selects[action] \in Ways
BY DEF Moves, Selects, Ways

-----------------------------------------------------------------------------
(* The composer in the state: a buffer that fits, shown as a text field. *)
ComposerFits ==
  /\ composer = Buf(composer.lines, composer.row, composer.col, composer.anchor)
  /\ BufferFits(Symbol, composer.lines, composer.row, composer.col, composer.anchor)

LEMMA FitsAgain ==
  ASSUME NEW L, NEW r, NEW c, NEW a, composer' = Buf(L, r, c, a), BufferFits(Symbol, L, r, c, a)
  PROVE  ComposerFits'
<1>1. PICK b : b = composer'
  OBVIOUS
<1>2. b.lines = L /\ b.row = r /\ b.col = c /\ b.anchor = a
  BY <1>1, BufFields
<1> QED BY <1>1, <1>2 DEF ComposerFits

LEMMA ShownFacts ==
  ASSUME NEW S, NewLine \in S, NEW L, NEW r, NEW c, NEW a, BufferFits(S, L, r, c, a), NEW b, b = Buf(L, r, c, a)
  PROVE  /\ to_text(b, NewLine) = Whole(L)
         /\ offset(b, Cursor(b)) = Far(L, r, c)
         /\ (IF b.anchor = NoAnchor THEN 0 - 1 ELSE offset(b, b.anchor)) = MarkAt(L, a)
<1>1. L \in Seq(Seq(S)) /\ IsPlace(L, r, c) /\ r \in 1..Size(L)
  BY DEF BufferFits, IsPlace
<1>2. b.lines = L /\ b.row = r /\ b.col = c /\ b.anchor = a
  BY BufFields
<1>3. PICK k : k = Cursor(b)
  OBVIOUS
<1>4. k[1] = r /\ k[2] = c
  BY <1>2, <1>3, PairFacts DEF Cursor
<1>5. offset(b, k) = Far(L, r, c)
  BY <1>1, <1>2, <1>4, OffsetIsFar
<1>6. CASE a = NoAnchor
  BY <1>2, <1>3, <1>5, <1>6, ToTextIsWhole DEF MarkAt
<1>7. CASE a # NoAnchor
  <2>1. a[1] \in 1..Size(L)
    BY <1>7 DEF BufferFits, AnchorFits, IsPlace
  <2>2. offset(b, a) = Far(L, a[1], a[2])
    BY <2>1, <1>1, <1>2, OffsetIsFar
  <2> QED BY <2>2, <1>2, <1>3, <1>5, <1>7, ToTextIsWhole DEF MarkAt
<1> QED BY <1>6, <1>7

LEMMA Shown ==
  ASSUME ComposerFits
  PROVE  \E L, r, c, a :
           /\ composer = Buf(L, r, c, a) /\ BufferFits(Symbol, L, r, c, a)
           /\ Text = Whole(L) /\ TextCursor = Far(L, r, c) /\ TextMark = MarkAt(L, a)
<1>1. PICK L, r, c, a : composer = Buf(L, r, c, a) /\ BufferFits(Symbol, L, r, c, a)
  BY DEF ComposerFits
<1>2. PICK b : b = composer
  OBVIOUS
<1>3. /\ to_text(b, NewLine) = Whole(L)
      /\ offset(b, Cursor(b)) = Far(L, r, c)
      /\ (IF b.anchor = NoAnchor THEN 0 - 1 ELSE offset(b, b.anchor)) = MarkAt(L, a)
  BY <1>1, <1>2, NewLineIsSymbol, ShownFacts
<1> QED BY <1>1, <1>2, <1>3 DEF Text, TextCursor, TextMark

LEMMA ShownNext ==
  ASSUME NEW L, NEW r, NEW c, NEW a, BufferFits(Symbol, L, r, c, a), composer' = Buf(L, r, c, a)
  PROVE  Text' = Whole(L) /\ TextCursor' = Far(L, r, c) /\ TextMark' = MarkAt(L, a)
<1>1. PICK b : b = composer'
  OBVIOUS
<1>2. /\ to_text(b, NewLine) = Whole(L)
      /\ offset(b, Cursor(b)) = Far(L, r, c)
      /\ (IF b.anchor = NoAnchor THEN 0 - 1 ELSE offset(b, b.anchor)) = MarkAt(L, a)
  BY <1>1, NewLineIsSymbol, ShownFacts
<1> QED BY <1>1, <1>2 DEF Text, TextCursor, TextMark

LEMMA Unmarks ==
  ASSUME NEW L
  PROVE  MarkAt(L, NoAnchor) = 0 - 1
BY DEF MarkAt

LEMMA FieldReplaces ==
  ASSUME NEW L, NEW lo, NEW hi, NEW s, NEW M, NEW p, NEW f, Replaces(L, lo, hi, s, M, p, f),
         Text = Whole(L), Text' = Whole(M), TextCursor' = Far(M, p, f), TextMark' = 0 - 1
  PROVE  Field!Replace(lo, hi, s)
<1>1. Text' = SubSeq(Text, 1, lo) \o s \o SubSeq(Text, hi + 1, Len(Text))
  BY DEF Replaces, Glue, take, skip
<1>2. TextCursor' = lo + Len(s)
  BY DEF Replaces, Size
<1> QED BY <1>1, <1>2 DEF Field!Replace, Field!Unmarked

LEMMA FieldEnds ==
  ASSUME NEW m, NEW k, TextMark = m, TextCursor = k
  PROVE  /\ Field!From = Lower(m, k) /\ Field!To = Upper(m, k)
         /\ Field!Marked <=> m # 0 - 1
BY DEF Field!From, Field!To, Field!Marked, Field!Unmarked, Lower, Upper

LEMMA InsertStep ==
  ASSUME ComposerFits, NEW ch \in Typed, composer' = insert_char(composer, ch)
  PROVE  ComposerFits' /\ Field!Type
<1>1. PICK L, r, c, a :
         /\ composer = Buf(L, r, c, a) /\ BufferFits(Symbol, L, r, c, a)
         /\ Text = Whole(L) /\ TextCursor = Far(L, r, c) /\ TextMark = MarkAt(L, a)
  BY Shown
<1>2. ch \in Symbol
  BY DEF Symbol
<1>3. PICK M, p, f :
         /\ insert_char(Buf(L, r, c, a), ch) = Buf(M, p, f, NoAnchor) /\ BufferFits(Symbol, M, p, f, NoAnchor)
         /\ Replaces(L, Lower(MarkAt(L, a), Far(L, r, c)), Upper(MarkAt(L, a), Far(L, r, c)), One(ch), M, p, f)
  BY <1>1, <1>2, NewLineIsSymbol, TypedFacts
<1>4. composer' = Buf(M, p, f, NoAnchor)
  BY <1>1, <1>3
<1>5. Text' = Whole(M) /\ TextCursor' = Far(M, p, f) /\ TextMark' = 0 - 1
  BY <1>3, <1>4, ShownNext, Unmarks
<1>6. Field!From = Lower(MarkAt(L, a), Far(L, r, c)) /\ Field!To = Upper(MarkAt(L, a), Far(L, r, c))
  BY <1>1, FieldEnds
<1>7. Field!Replace(Field!From, Field!To, <<ch>>)
  BY <1>1, <1>3, <1>5, <1>6, FieldReplaces DEF One
<1> QED BY <1>3, <1>4, <1>7, FitsAgain DEF Field!Type

LEMMA NewlineStep ==
  ASSUME ComposerFits, composer' = insert_newline(composer)
  PROVE  ComposerFits' /\ Field!Type
<1>1. PICK L, r, c, a :
         /\ composer = Buf(L, r, c, a) /\ BufferFits(Symbol, L, r, c, a)
         /\ Text = Whole(L) /\ TextCursor = Far(L, r, c) /\ TextMark = MarkAt(L, a)
  BY Shown
<1>3. PICK M, p, f :
         /\ insert_newline(Buf(L, r, c, a)) = Buf(M, p, f, NoAnchor) /\ BufferFits(Symbol, M, p, f, NoAnchor)
         /\ Replaces(L, Lower(MarkAt(L, a), Far(L, r, c)), Upper(MarkAt(L, a), Far(L, r, c)), One(NewLine), M, p, f)
  BY <1>1, NewLineIsSymbol, NewlineFacts
<1>4. composer' = Buf(M, p, f, NoAnchor)
  BY <1>1, <1>3
<1>5. Text' = Whole(M) /\ TextCursor' = Far(M, p, f) /\ TextMark' = 0 - 1
  BY <1>3, <1>4, ShownNext, Unmarks
<1>6. Field!From = Lower(MarkAt(L, a), Far(L, r, c)) /\ Field!To = Upper(MarkAt(L, a), Far(L, r, c))
  BY <1>1, FieldEnds
<1>7. Field!Replace(Field!From, Field!To, <<NewLine>>)
  BY <1>1, <1>3, <1>5, <1>6, FieldReplaces DEF One
<1> QED BY <1>3, <1>4, <1>7, FitsAgain DEF Field!Type

LEMMA BackspaceStep ==
  ASSUME ComposerFits, composer' = backspace(composer)
  PROVE  ComposerFits' /\ (Field!Erase \/ composer' = composer)
<1>1. PICK L, r, c, a :
         /\ composer = Buf(L, r, c, a) /\ BufferFits(Symbol, L, r, c, a)
         /\ Text = Whole(L) /\ TextCursor = Far(L, r, c) /\ TextMark = MarkAt(L, a)
  BY Shown
<1>2. L \in Seq(Seq(Symbol)) /\ IsPlace(L, r, c)
  BY <1>1 DEF BufferFits
<1>3. CASE a # NoAnchor
  <2>1. PICK M, p, f :
           /\ backspace(Buf(L, r, c, a)) = Buf(M, p, f, NoAnchor) /\ BufferFits(Symbol, M, p, f, NoAnchor)
           /\ Replaces(L, Lower(MarkAt(L, a), Far(L, r, c)), Upper(MarkAt(L, a), Far(L, r, c)), Nil, M, p, f)
    BY <1>1, <1>3, NewLineIsSymbol, BackspaceSelection
  <2>2. composer' = Buf(M, p, f, NoAnchor)
    BY <2>1, <1>1
  <2>3. Text' = Whole(M) /\ TextCursor' = Far(M, p, f) /\ TextMark' = 0 - 1
    BY <2>1, <2>2, ShownNext, Unmarks
  <2>4. MarkAt(L, a) # 0 - 1
    <3>1. IsPlace(L, a[1], a[2])
      BY <1>1, <1>3 DEF BufferFits, AnchorFits
    <3>2. Far(L, a[1], a[2]) \in Nat
      BY <3>1, <1>2, NewLineIsSymbol, FarType
    <3> QED BY <3>2, <1>3 DEF MarkAt
  <2>5. /\ Field!From = Lower(MarkAt(L, a), Far(L, r, c)) /\ Field!To = Upper(MarkAt(L, a), Far(L, r, c))
        /\ Field!Marked
    BY <2>4, <1>1, FieldEnds
  <2>6. Field!Replace(Field!From, Field!To, <<>>)
    BY <2>1, <2>3, <2>5, <1>1, FieldReplaces DEF Nil
  <2> QED BY <2>1, <2>2, <2>5, <2>6, FitsAgain DEF Field!Erase
<1>4. CASE a = NoAnchor /\ (c > 0 \/ r # 1)
  <2>1. PICK M, p, f :
           /\ backspace(Buf(L, r, c, NoAnchor)) = Buf(M, p, f, NoAnchor) /\ BufferFits(Symbol, M, p, f, NoAnchor)
           /\ Far(L, r, c) > 0 /\ Replaces(L, Far(L, r, c) - 1, Far(L, r, c), Nil, M, p, f)
    <3>1. BufferFits(Symbol, L, r, c, NoAnchor)
      BY <1>1, <1>4
    <3>2. CASE c > 0
      BY <3>1, <3>2, NewLineIsSymbol, BackspaceSymbol
    <3>3. CASE ~ (c > 0) /\ r # 1
      BY <3>1, <3>3, NewLineIsSymbol, BackspaceRow
    <3> QED BY <3>2, <3>3, <1>4
  <2>2. composer' = Buf(M, p, f, NoAnchor)
    BY <2>1, <1>1, <1>4
  <2>3. Text' = Whole(M) /\ TextCursor' = Far(M, p, f) /\ TextMark' = 0 - 1
    BY <2>1, <2>2, ShownNext, Unmarks
  <2>4. ~ Field!Marked
    BY <1>1, <1>4, Unmarks, FieldEnds
  <2>5. Field!Replace(TextCursor - 1, TextCursor, <<>>)
    BY <2>1, <2>3, <1>1, FieldReplaces DEF Nil
  <2>6. TextCursor > 0
    BY <2>1, <1>1
  <2> QED BY <2>1, <2>2, <2>4, <2>5, <2>6, FitsAgain DEF Field!Erase
<1>5. CASE a = NoAnchor /\ ~ (c > 0) /\ r = 1
  <2>1. composer' = Buf(L, r, c, a)
    BY <1>1, <1>5, BackspaceNothing
  <2> QED BY <2>1, <1>1, FitsAgain
<1> QED BY <1>3, <1>4, <1>5

LEMMA FillStep ==
  ASSUME NEW t \in Insertable, composer' = filled(t)
  PROVE  ComposerFits' /\ Field!Refill /\ Text' = t
<1>1. t \in Seq(Symbol)
  BY InsertableFacts
<1>2. PICK L :
         /\ filled(t) = Buf(L, 1, Size(t), NoAnchor) /\ BufferFits(Symbol, L, 1, Size(t), NoAnchor)
         /\ Whole(L) = t /\ Far(L, 1, Size(t)) = Size(t)
  BY <1>1, NewLineIsSymbol, FilledFacts
<1>3. composer' = Buf(L, 1, Size(t), NoAnchor)
  BY <1>2
<1>4. Text' = t /\ TextCursor' = Size(t) /\ TextMark' = 0 - 1
  BY <1>2, <1>3, ShownNext, Unmarks
<1>5. Field!Refill
  BY <1>4 DEF Field!Refill, Field!Unmarked, Size
<1> QED BY <1>2, <1>3, <1>4, <1>5, FitsAgain

LEMMA MoveStep ==
  ASSUME ComposerFits, NEW way \in Ways, composer' = move(composer, way)
  PROVE  ComposerFits' /\ Field!Move /\ Text' = Text
<1>1. PICK L, r, c, a :
         /\ composer = Buf(L, r, c, a) /\ BufferFits(Symbol, L, r, c, a)
         /\ Text = Whole(L) /\ TextCursor = Far(L, r, c) /\ TextMark = MarkAt(L, a)
  BY Shown
<1>2. L \in Seq(Seq(Symbol))
  BY <1>1 DEF BufferFits
<1>3. PICK p, f : move(Buf(L, r, c, a), way) = Buf(L, p, f, NoAnchor) /\ IsPlace(L, p, f)
  BY <1>1, NewLineIsSymbol, MovedFacts
<1>4. composer' = Buf(L, p, f, NoAnchor)
  BY <1>1, <1>3
<1>5. BufferFits(Symbol, L, p, f, NoAnchor)
  BY <1>2, <1>3 DEF BufferFits, AnchorFits
<1>6. Text' = Whole(L) /\ TextCursor' = Far(L, p, f) /\ TextMark' = 0 - 1
  BY <1>4, <1>5, ShownNext, Unmarks
<1>7. Far(L, p, f) \in 0..Size(Whole(L))
  BY <1>2, <1>3, NewLineIsSymbol, SplitText
<1>8. Field!Move
  BY <1>1, <1>6, <1>7 DEF Field!Move, Field!Unmarked, Size
<1> QED BY <1>1, <1>4, <1>5, <1>6, <1>8, FitsAgain

LEMMA SelectStep ==
  ASSUME ComposerFits, NEW way \in Ways, composer' = select(composer, way)
  PROVE  ComposerFits' /\ Field!Mark /\ Text' = Text
<1>1. PICK L, r, c, a :
         /\ composer = Buf(L, r, c, a) /\ BufferFits(Symbol, L, r, c, a)
         /\ Text = Whole(L) /\ TextCursor = Far(L, r, c) /\ TextMark = MarkAt(L, a)
  BY Shown
<1>2. L \in Seq(Seq(Symbol))
  BY <1>1 DEF BufferFits
<1>3. PICK p, f, e :
         /\ select(Buf(L, r, c, a), way) = Buf(L, p, f, e) /\ BufferFits(Symbol, L, p, f, e)
         /\ LET start == IF a = NoAnchor THEN Far(L, r, c) ELSE MarkAt(L, a)
            IN MarkAt(L, e) = IF Far(L, p, f) = start THEN 0 - 1 ELSE start
  BY <1>1, NewLineIsSymbol, SelectedFacts
<1>4. composer' = Buf(L, p, f, e)
  BY <1>1, <1>3
<1>5. Text' = Whole(L) /\ TextCursor' = Far(L, p, f) /\ TextMark' = MarkAt(L, e)
  BY <1>3, <1>4, ShownNext
<1>6. Far(L, p, f) \in 0..Size(Whole(L))
  <2>1. IsPlace(L, p, f)
    BY <1>3 DEF BufferFits
  <2> QED BY <2>1, <1>2, NewLineIsSymbol, SplitText
<1>7. (IF a = NoAnchor THEN Far(L, r, c) ELSE MarkAt(L, a)) = IF Field!Marked THEN TextMark ELSE TextCursor
  <2>1. CASE a = NoAnchor
    BY <2>1, <1>1, Unmarks, FieldEnds
  <2>2. CASE a # NoAnchor
    <3>1. IsPlace(L, a[1], a[2])
      BY <2>2, <1>1 DEF BufferFits, AnchorFits
    <3>2. Far(L, a[1], a[2]) \in Nat
      BY <3>1, <1>2, NewLineIsSymbol, FarType
    <3>3. MarkAt(L, a) # 0 - 1
      BY <3>2, <2>2 DEF MarkAt
    <3>4. Field!Marked
      BY <3>3, <1>1, FieldEnds
    <3> QED BY <3>4, <2>2, <1>1
  <2> QED BY <2>1, <2>2
<1>8. Field!Mark
  BY <1>1, <1>3, <1>5, <1>6, <1>7 DEF Field!Mark, Field!Unmarked, Size
<1> QED BY <1>1, <1>3, <1>4, <1>5, <1>8, FitsAgain

-----------------------------------------------------------------------------
(* Panes and lists. *)
PanesFit == hidden \subseteq {"Workflows", "Activity"} /\ workflows \in Nat /\ SelectionsExist

LEMMA PaneFacts ==
  /\ \A i \in 1..4 : Panes[i] \in Pane
  /\ \A pane \in Pane : \E i \in 1..4 : Panes[i] = pane
<1>1. Panes[1] = "Workflows" /\ Panes[2] = "Transcript" /\ Panes[3] = "Composer" /\ Panes[4] = "Activity"
  BY DEF Panes
<1>2. \A i \in 1..4 : i = 1 \/ i = 2 \/ i = 3 \/ i = 4
  OBVIOUS
<1> QED BY <1>1, <1>2 DEF Pane

(* Some pane that is on screen is met, at the latest the one to start from. *)
LEMMA FocusIsShown ==
  ASSUME PanesFit, NEW d \in {1, 0 - 1}
  PROVE  next_visible_focus(d) \in Pane \ hidden
<1>1. focus \in Pane \ hidden
  BY DEF PanesFit, SelectionsExist
<1> DEFINE here == CHOOSE i \in 1..4 : Panes[i] = focus
           place(s) == ((here - 1 + d * s) % 4) + 1
           shown == {s \in 1..4 : Panes[place(s)] \notin hidden}
           nearest == CHOOSE s \in 1..4 : is_focus_visible(Panes[place(s)]) /\ \A t \in 1..(s - 1) : ~is_focus_visible(Panes[place(t)])
<1>2. here \in 1..4 /\ Panes[here] = focus
  BY <1>1, PaneFacts
<1>3. next_visible_focus(d) = Panes[place(nearest)]
  BY DEF next_visible_focus
<1> HIDE DEF here
<1>4. \A s \in 1..4 : place(s) \in 1..4
  BY <1>2
<1>5. place(4) = here
  BY <1>2
<1> HIDE DEF place
<1>6. 4 \in shown
  BY <1>1, <1>2, <1>5
<1>7. shown \in SUBSET Nat /\ shown # {}
  BY <1>6
<1>8. PICK s \in shown : \A t \in shown : s <= t
  BY <1>7, Smallest
<1>9. /\ s \in 1..4 /\ is_focus_visible(Panes[place(s)])
      /\ \A t \in 1..(s - 1) : ~is_focus_visible(Panes[place(t)])
  <2>1. s \in 1..4 /\ Panes[place(s)] \notin hidden
    BY <1>8
  <2>2. ASSUME NEW t \in 1..(s - 1), Panes[place(t)] \notin hidden
        PROVE  FALSE
    <3>1. t \in 1..4 /\ t < s
      BY <2>1
    <3>2. t \in shown
      BY <3>1, <2>2
    <3> QED BY <3>1, <3>2, <2>1, <1>8
  <2> QED BY <2>1, <2>2 DEF is_focus_visible
<1>10. nearest \in 1..4 /\ is_focus_visible(Panes[place(nearest)])
  BY <1>9
<1> HIDE DEF nearest
<1> QED BY <1>3, <1>4, <1>10, PaneFacts DEF is_focus_visible

LEMMA FocusKeeps ==
  ASSUME PanesFit, NEW pane \in Pane \ hidden, Focus(pane)
  PROVE  PanesFit'
BY DEF PanesFit, SelectionsExist, Focus

LEMMA ToggleKeeps ==
  ASSUME PanesFit, NEW pane \in {"Workflows", "Activity"}, Toggle(pane)
  PROVE  PanesFit'
<1>1. focus \in Pane \ hidden /\ palette \in Entries \cup {Closed} /\ hidden \subseteq {"Workflows", "Activity"} /\ pane \in Pane
  BY DEF PanesFit, SelectionsExist, Pane
<1>2. UNCHANGED <<palette, workflows, selected_workflow>>
  BY DEF Toggle
<1>3. hidden' \subseteq {"Workflows", "Activity"}
  BY <1>1 DEF Toggle
<1>4. "Transcript" \in Pane \ hidden'
  BY <1>3 DEF Pane
<1>5. focus' \in Pane \ hidden'
  BY <1>1, <1>4 DEF Toggle
<1> QED BY <1>2, <1>3, <1>5 DEF PanesFit, SelectionsExist

(* The entry nearest to where a step would lead is in the list. *)
LEMMA SelectionKeeps ==
  ASSUME PanesFit, NEW delta \in Int, move_workflow_selection(delta)
  PROVE  PanesFit'
<1>1. selected_workflow \in Int /\ workflows \in Nat
  BY DEF PanesFit, SelectionsExist
<1>2. PICK to \in Int : to = selected_workflow + delta
  BY <1>1
<1> DEFINE away(x) == IF x < to THEN to - x ELSE x - to
<1>3. CASE workflows # 0
  <2>1. \E n \in 0..(workflows - 1) : \A m \in 0..(workflows - 1) : away(n) <= away(m)
    <3>1. CASE to < 0
      <4>1. 0 \in 0..(workflows - 1) /\ \A m \in 0..(workflows - 1) : away(0) <= away(m)
        BY <3>1, <1>1, <1>3
      <4> QED BY <4>1
    <3>2. CASE to > workflows - 1
      <4>1. workflows - 1 \in 0..(workflows - 1) /\ \A m \in 0..(workflows - 1) : away(workflows - 1) <= away(m)
        BY <3>2, <1>1, <1>3
      <4> QED BY <4>1
    <3>3. CASE to \in 0..(workflows - 1)
      <4>1. \A m \in 0..(workflows - 1) : away(to) <= away(m)
        BY <3>3, <1>1
      <4> QED BY <4>1, <3>3
    <3> QED BY <3>1, <3>2, <3>3, <1>1, <1>3
  <2>2. selected_workflow' = CHOOSE n \in 0..(workflows - 1) : \A m \in 0..(workflows - 1) : away(n) <= away(m)
    BY <1>2, <1>3 DEF move_workflow_selection
  <2>3. selected_workflow' \in 0..(workflows - 1)
    BY <2>1, <2>2
  <2> QED BY <2>3, <1>3 DEF move_workflow_selection, PanesFit, SelectionsExist
<1>4. CASE workflows = 0
  BY <1>4 DEF move_workflow_selection, PanesFit, SelectionsExist
<1> QED BY <1>3, <1>4

LEMMA SnapshotKeepsPanes ==
  ASSUME PanesFit, NEW n \in 0..MaxWorkflows, WorkflowsLoaded(n)
  PROVE  PanesFit'
<1>1. n \in Nat
  BY InputAssumption
<1>2. selected_workflow \in Nat
  BY DEF PanesFit, SelectionsExist
<1>3. workflows' = n /\ selected_workflow' = (IF n = 0 THEN 0 ELSE Least(selected_workflow, n - 1)) /\ UNCHANGED <<focus, hidden, palette>>
  BY DEF WorkflowsLoaded, clamp_selections
<1>4. (workflows' = 0 /\ selected_workflow' = 0) \/ selected_workflow' \in 0..(workflows' - 1)
  BY <1>1, <1>2, <1>3 DEF Least
<1> QED BY <1>1, <1>3, <1>4 DEF PanesFit, SelectionsExist

LEMMA PaletteKeeps ==
  ASSUME PanesFit, NEW p \in Entries \cup {Closed}, Palette(p)
  PROVE  PanesFit'
BY DEF PanesFit, SelectionsExist, Palette

LEMMA TemplateKeeps ==
  ASSUME PanesFit, NEW t, InsertTemplate(t), palette' \in {palette, Closed}
  PROVE  PanesFit'
<1>1. "Composer" \in Pane \ hidden
  BY DEF PanesFit, Pane
<1>2. palette' \in Entries \cup {Closed}
  BY DEF PanesFit, SelectionsExist
<1> QED BY <1>1, <1>2 DEF InsertTemplate, PanesFit, SelectionsExist

LEMMA ComposingKeepsPanes ==
  ASSUME PanesFit, UNCHANGED <<focus, hidden, palette, workflows, selected_workflow>>
  PROVE  PanesFit'
BY DEF PanesFit, SelectionsExist

-----------------------------------------------------------------------------
(* The suggestions. *)
ComposerShows == ComposerFits /\ SuggestionsFitTheText

LEMMA NoText ==
  ASSUME NEW b, to_text(b, NewLine) = <<>>
  PROVE  Suggested(b) = {}
BY DEF Suggested

LEMMA ClearIsEmpty == to_text(clear, NewLine) = <<>>
<1>1. <<>> \in Seq(Symbol)
  OBVIOUS
<1>2. PICK t \in Seq(Symbol) : t = <<>>
  BY <1>1
<1>3. PICK L :
         /\ filled(t) = Buf(L, 1, Size(t), NoAnchor) /\ BufferFits(Symbol, L, 1, Size(t), NoAnchor)
         /\ Whole(L) = t /\ Far(L, 1, Size(t)) = Size(t)
  BY NewLineIsSymbol, FilledFacts
<1>4. to_text(filled(t), NewLine) = t
  BY <1>3, ToTextIsWhole
<1> QED BY <1>2, <1>4 DEF clear

LEMMA EditKeeps ==
  ASSUME NEW b, Edit(b), ComposerFits'
  PROVE  ComposerShows'
BY DEF Edit, recompute_suggestions, ComposerShows, SuggestionsFitTheText

LEMMA TurnKeeps ==
  ASSUME ComposerShows, NEW b, Turn(b), ComposerFits', Text' = Text
  PROVE  ComposerShows'
<1>1. Suggested(composer') = Suggested(composer)
  BY DEF Suggested, Text
<1> QED BY <1>1 DEF Turn, ComposerShows, SuggestionsFitTheText

LEMMA TextRests ==
  ASSUME ComposerShows, UNCHANGED <<composer, suggestions>>
  PROVE  ComposerShows' /\ UNCHANGED Field!vars
BY DEF ComposerShows, ComposerFits, SuggestionsFitTheText, Field!vars, Text, TextCursor, TextMark

LEMMA ComposeKeeps ==
  ASSUME ComposerShows, NEW key, Compose(map_key(key), key)
  PROVE  ComposerShows' /\ [Field!Next]_(Field!vars)
<1>1. PICK action : action = map_key(key)
  OBVIOUS
<1>2. CASE action = "ComposerInsert" /\ Edit(insert_char(composer, key))
  <2>1. key \in Typed
    BY <1>1, <1>2, InsertedIsTyped
  <2>2. ComposerFits' /\ Field!Type
    BY <2>1, <1>2, InsertStep DEF Edit, ComposerShows
  <2> QED BY <2>2, <1>2, EditKeeps DEF Field!Next
<1>3. CASE Edit(insert_newline(composer))
  <2>1. ComposerFits' /\ Field!Type
    BY <1>3, NewlineStep DEF Edit, ComposerShows
  <2> QED BY <2>1, <1>3, EditKeeps DEF Field!Next
<1>4. CASE Edit(backspace(composer))
  <2>1. ComposerFits' /\ (Field!Erase \/ composer' = composer)
    BY <1>4, BackspaceStep DEF Edit, ComposerShows
  <2>2. composer' = composer => UNCHANGED Field!vars
    BY DEF Field!vars, Text, TextCursor, TextMark
  <2> QED BY <2>1, <2>2, <1>4, EditKeeps DEF Field!Next
<1>5. CASE \E s \in best_completion(Text) : Edit(filled(s))
  <2>1. PICK s \in best_completion(Text) : Edit(filled(s))
    BY <1>5
  <2>2. s \in Insertable
    BY <2>1, CompletionIsInsertable
  <2>3. ComposerFits' /\ Field!Refill
    BY <2>1, <2>2, FillStep DEF Edit
  <2> QED BY <2>1, <2>3, EditKeeps DEF Field!Next
<1>6. CASE action \in DOMAIN Moves /\ Turn(move(composer, Moves[action]))
  <2>1. Moves[action] \in Ways
    BY <1>6, MovesAreWays
  <2>2. ComposerFits' /\ Field!Move /\ Text' = Text
    BY <2>1, <1>6, MoveStep DEF Turn, ComposerShows
  <2> QED BY <2>2, <1>6, TurnKeeps DEF Field!Next
<1>7. CASE action \in DOMAIN Selects /\ Turn(select(composer, Selects[action]))
  <2>1. Selects[action] \in Ways
    BY <1>7, MovesAreWays
  <2>2. ComposerFits' /\ Field!Mark /\ Text' = Text
    BY <2>1, <1>7, SelectStep DEF Turn, ComposerShows
  <2> QED BY <2>2, <1>7, TurnKeeps DEF Field!Next
<1> QED BY <1>1, <1>2, <1>3, <1>4, <1>5, <1>6, <1>7 DEF Compose

LEMMA SubmitKeeps ==
  ASSUME ComposerShows, SubmitPrompt
  PROVE  ComposerShows' /\ [Field!Next]_(Field!vars)
<1>1. composer' = filled(<<>>) /\ suggestions' = {}
  BY DEF SubmitPrompt, clear
<1>2. ComposerFits' /\ Field!Refill
  BY <1>1, InsertableFacts, FillStep
<1>3. Suggested(composer') = {}
  BY <1>1, ClearIsEmpty, NoText DEF clear
<1> QED BY <1>1, <1>2, <1>3 DEF ComposerShows, SuggestionsFitTheText, Field!Next

LEMMA TemplateShows ==
  ASSUME ComposerShows, NEW t \in Insertable, InsertTemplate(t)
  PROVE  ComposerShows' /\ [Field!Next]_(Field!vars)
<1>1. composer' = filled(t) /\ suggestions' = Suggested(composer')
  BY DEF InsertTemplate, recompute_suggestions
<1>2. ComposerFits' /\ Field!Refill
  BY <1>1, FillStep
<1> QED BY <1>1, <1>2 DEF ComposerShows, SuggestionsFitTheText, Field!Next

-----------------------------------------------------------------------------
(* The steps of the shell. *)
InputInv == PanesFit /\ ComposerShows
Shows == ComposerShows' /\ [Field!Next]_(Field!vars)

LEMMA InputInitially == Init => InputInv /\ Field!Init
<1> SUFFICES ASSUME Init PROVE InputInv /\ Field!Init
  OBVIOUS
<1>1. /\ focus = "Composer" /\ hidden = {} /\ composer = clear /\ suggestions = {}
      /\ palette = Closed /\ workflows = 0 /\ selected_workflow = 0
  BY DEF Init, InputInit
<1>2. <<>> \in Seq(Symbol)
  OBVIOUS
<1>3. PICK t \in Seq(Symbol) : t = <<>>
  BY <1>2
<1>4. PICK L :
         /\ filled(t) = Buf(L, 1, Size(t), NoAnchor) /\ BufferFits(Symbol, L, 1, Size(t), NoAnchor)
         /\ Whole(L) = t /\ Far(L, 1, Size(t)) = Size(t)
  BY NewLineIsSymbol, FilledFacts
<1>5. composer = Buf(L, 1, Size(t), NoAnchor)
  BY <1>1, <1>3, <1>4 DEF clear
<1>6. ComposerFits
  <2>1. PICK b : b = composer
    OBVIOUS
  <2>2. b.lines = L /\ b.row = 1 /\ b.col = Size(t) /\ b.anchor = NoAnchor
    BY <1>5, <2>1, BufFields
  <2> QED BY <2>1, <2>2, <1>4, <1>5 DEF ComposerFits
<1>7. PICK b : b = composer
  OBVIOUS
<1>8. /\ to_text(b, NewLine) = Whole(L)
      /\ offset(b, Cursor(b)) = Far(L, 1, Size(t))
      /\ (IF b.anchor = NoAnchor THEN 0 - 1 ELSE offset(b, b.anchor)) = MarkAt(L, NoAnchor)
  BY <1>4, <1>5, <1>7, NewLineIsSymbol, ShownFacts
<1>9. Size(t) = 0
  BY <1>3 DEF Size
<1>10. Field!Init
  BY <1>3, <1>4, <1>7, <1>8, <1>9, Unmarks DEF Field!Init, Field!Unmarked, Text, TextCursor, TextMark
<1>11. SuggestionsFitTheText
  BY <1>1, ClearIsEmpty, NoText DEF SuggestionsFitTheText
<1>12. PanesFit
  BY <1>1 DEF PanesFit, SelectionsExist, Pane, Closed
<1> QED BY <1>6, <1>10, <1>11, <1>12 DEF InputInv, ComposerShows

LEMMA TextRestsShows ==
  ASSUME ComposerShows, UNCHANGED composer, UNCHANGED suggestions
  PROVE  Shows
BY TextRests DEF Shows

LEMMA LinesAreNumbers == \A action \in DOMAIN Lines : Lines[action] \in Int
BY DEF Lines

LEMMA HandleInputKeeps ==
  ASSUME InputInv, NEW key, handle_input(map_key(key), key)
  PROVE  PanesFit' /\ Shows
<1>1. PICK action : action = map_key(key)
  OBVIOUS
<1>2. PanesFit /\ ComposerShows
  BY DEF InputInv
<1>3. ASSUME NEW pane \in Pane \ hidden, Focus(pane)
      PROVE  PanesFit' /\ Shows
  <2>1. UNCHANGED composer /\ UNCHANGED suggestions
    BY <1>3 DEF Focus
  <2> QED BY <2>1, <1>2, <1>3, FocusKeeps, TextRestsShows
<1>4. CASE Focus(next_visible_focus(1)) \/ Focus(next_visible_focus(0 - 1))
  <2>1. next_visible_focus(1) \in Pane \ hidden /\ next_visible_focus(0 - 1) \in Pane \ hidden
    BY <1>2, FocusIsShown
  <2> QED BY <2>1, <1>3, <1>4
<1>5. CASE action \in DOMAIN Lines /\ MoveList(Lines[action])
  <2>1. PICK lines \in Int : lines = Lines[action] /\ MoveList(lines)
    BY <1>5, LinesAreNumbers
  <2>2. CASE move_workflow_selection(lines)
    <3>1. UNCHANGED composer /\ UNCHANGED suggestions
      BY <2>2 DEF move_workflow_selection
    <3> QED BY <3>1, <2>2, <1>2, SelectionKeeps, TextRestsShows
  <2>3. CASE Turn(move(composer, IF lines < 0 THEN "Up" ELSE "Down"))
    <3>1. PICK way \in Ways : way = IF lines < 0 THEN "Up" ELSE "Down"
      BY DEF Ways
    <3>2. Turn(move(composer, way))
      BY <3>1, <2>3
    <3>3. ComposerFits' /\ Field!Move /\ Text' = Text
      BY <3>2, <1>2, MoveStep DEF Turn, ComposerShows
    <3>4. ComposerShows'
      BY <3>2, <3>3, <1>2, TurnKeeps
    <3>5. PanesFit'
      BY <3>2, <1>2, ComposingKeepsPanes DEF Turn
    <3> QED BY <3>3, <3>4, <3>5 DEF Shows, Field!Next
  <2> QED BY <2>1, <2>2, <2>3 DEF MoveList
<1>6. CASE Focus("Transcript")
  <2>1. "Transcript" \in Pane \ hidden
    BY <1>2 DEF PanesFit, Pane
  <2> QED BY <2>1, <1>3, <1>6
<1>7. CASE Toggle("Activity") \/ Toggle("Workflows")
  <2>1. UNCHANGED composer /\ UNCHANGED suggestions
    BY <1>7 DEF Toggle
  <2>2. PanesFit'
    BY <1>2, <1>7, ToggleKeeps
  <2> QED BY <2>1, <2>2, <1>2, TextRestsShows
<1>8. CASE SubmitPrompt
  <2>1. PanesFit'
    BY <1>2, <1>8, ComposingKeepsPanes DEF SubmitPrompt
  <2> QED BY <2>1, <1>2, <1>8, SubmitKeeps DEF Shows
<1>9. CASE ShowCommandPalette
  <2>1. 1 \in Entries \cup {Closed} /\ Palette(1)
    BY <1>9, InsertableFacts DEF ShowCommandPalette
  <2>2. UNCHANGED composer /\ UNCHANGED suggestions
    BY <2>1 DEF Palette
  <2> QED BY <2>1, <2>2, <1>2, PaletteKeeps, TextRestsShows
<1>10. CASE Compose(action, key)
  <2>1. UNCHANGED <<focus, hidden, palette, workflows, selected_workflow>>
    BY <1>10 DEF Compose, Edit, Turn
  <2>2. PanesFit'
    BY <2>1, <1>2, ComposingKeepsPanes
  <2> QED BY <2>2, <1>1, <1>2, <1>10, ComposeKeeps DEF Shows
<1> QED BY <1>1, <1>4, <1>5, <1>6, <1>7, <1>8, <1>9, <1>10 DEF handle_input

LEMMA HandlePaletteKeeps ==
  ASSUME InputInv, palette # Closed, NEW action, handle_command_palette_action(action)
  PROVE  PanesFit' /\ Shows
<1>1. PanesFit /\ ComposerShows
  BY DEF InputInv
<1>2. palette \in Entries /\ Entries = 1..23 /\ Len(COMMANDS) = 23
  BY <1>1, InsertableFacts, CommandsAreRows DEF PanesFit, SelectionsExist
<1>3. ASSUME NEW p \in Entries \cup {Closed}, Palette(p)
      PROVE  PanesFit' /\ Shows
  <2>1. UNCHANGED composer /\ UNCHANGED suggestions
    BY <1>3 DEF Palette
  <2> QED BY <2>1, <1>1, <1>3, PaletteKeeps, TextRestsShows
<1>4. (IF palette > 1 THEN palette - 1 ELSE 1) \in Entries
  BY <1>2
<1>5. Least(palette + 1, Len(COMMANDS)) \in Entries
  BY <1>2 DEF Least
<1>6. CASE InsertTemplate(COMMANDS[palette].insert_text) /\ palette' = Closed
  <2>1. PICK t \in Insertable : t = COMMANDS[palette].insert_text
    BY <1>2, InsertableFacts
  <2>2. InsertTemplate(t)
    BY <2>1, <1>6
  <2>3. PanesFit'
    BY <2>2, <1>1, <1>6, TemplateKeeps
  <2> QED BY <2>2, <2>3, <1>1, TemplateShows DEF Shows
<1> QED BY <1>3, <1>4, <1>5, <1>6 DEF handle_command_palette_action

LEMMA AllRests ==
  ASSUME InputInv, UNCHANGED inputVars
  PROVE  PanesFit' /\ Shows
<1>1. UNCHANGED <<focus, hidden, palette, workflows, selected_workflow>> /\ UNCHANGED composer /\ UNCHANGED suggestions
  BY DEF inputVars
<1> QED BY <1>1, ComposingKeepsPanes, TextRestsShows DEF InputInv

LEMMA KeyKeepsInput ==
  ASSUME InputInv, NEW key, handle_action(map_key(key), key)
  PROVE  PanesFit' /\ Shows
<1>1. CASE insert_add_provider_template
  <2>1. PICK t \in Insertable : t = <<"/provider-add">>
    BY InsertableFacts
  <2>2. InsertTemplate(t) /\ UNCHANGED palette
    BY <2>1, <1>1 DEF insert_add_provider_template
  <2>3. PanesFit'
    BY <2>2, TemplateKeeps DEF InputInv
  <2> QED BY <2>2, <2>3, TemplateShows DEF Shows, InputInv
<1>2. CASE UNCHANGED inputVars
  BY <1>2, AllRests
<1>3. CASE palette # Closed /\ handle_command_palette_action(map_key(key))
  BY <1>3, HandlePaletteKeeps
<1>4. CASE handle_input(map_key(key), key)
  BY <1>4, HandleInputKeeps
<1> QED BY <1>1, <1>2, <1>3, <1>4 DEF handle_action, handle_popup_action

LEMMA InputStep ==
  ASSUME InputInv, [Next]_shellVars
  PROVE  InputInv' /\ [Field!Next]_(Field!vars)
<1>1. CASE Key
  BY <1>1, KeyKeepsInput DEF Key, InputInv, Shows
<1>2. CASE Submitted
  BY <1>2, AllRests DEF Submitted, InputInv, Shows
<1>3. CASE Answered
  <2>1. CASE UNCHANGED inputVars
    BY <2>1, AllRests DEF InputInv, Shows
  <2>2. ASSUME NEW n \in 0..MaxWorkflows, WorkflowsLoaded(n)
        PROVE  InputInv' /\ [Field!Next]_(Field!vars)
    <3>1. UNCHANGED composer /\ UNCHANGED suggestions
      BY <2>2 DEF WorkflowsLoaded
    <3> QED BY <3>1, <2>2, SnapshotKeepsPanes, TextRestsShows DEF InputInv, Shows
  <2> QED BY <2>1, <2>2, <1>3 DEF Answered
<1>4. CASE UNCHANGED shellVars
  BY <1>4, AllRests DEF shellVars, InputInv, Shows
<1> QED BY <1>1, <1>2, <1>3, <1>4 DEF Next

(* The inductive invariant of panes, lists and composer. *)
THEOREM InputInvariant == Spec => []InputInv
<1>1. Init => InputInv
  BY InputInitially
<1>2. InputInv /\ [Next]_shellVars => InputInv'
  BY InputStep
<1> QED BY <1>1, <1>2, PTL DEF Spec

(* What is shown for the text and what is chosen in a list is never out of
   date, for any texts, any number of workflows and any order of keys and
   answers (app.rs:652, state.rs:317, 341). *)
THEOREM NothingBecomesStale == Spec => []NothingIsStale
<1>1. InputInv => NothingIsStale
  BY DEF InputInv, PanesFit, ComposerShows, NothingIsStale
<1> QED BY InputInvariant, <1>1, PTL

(* Rows, columns and selections of the composer are one text with a cursor and
   a mark: every key does to them what the text field promises, or nothing
   (composer.rs). *)
THEOREM ComposerImplementsTextField == Spec => ComposerIsATextField
<1>1. Init => InputInv /\ Field!Init
  BY InputInitially
<1>2. InputInv /\ [Next]_shellVars => InputInv' /\ [Field!Next]_(Field!vars)
  BY InputStep
<1> QED BY <1>1, <1>2, PTL DEF Spec, ComposerIsATextField, Field!Spec

-----------------------------------------------------------------------------
(* The terminal: what each place of the main thread tells of modes, marks, hook
   and input thread. *)
Behind == {"session", "lock", "set_hook", "stuck", "ended"}
TerminalInv ==
  /\ modes \subseteq AllModes
  /\ main_at \in Entering => modes \subseteq marked /\ panicked = {} /\ hook = "previous" /\ input_thread = "none"
  /\ main_at = "screen" => "raw" \in modes
  /\ (main_at \in {"cursor", "backend", "hook"} \/ (main_at \in {"spawn", "run"} /\ panicked = {})) => {"raw", "screen"} \subseteq modes
  /\ main_at \in Behind => input_thread \in {"none", "ended"}
  /\ main_at \in {"lock", "set_hook", "stuck", "ended"} => modes \subseteq refused
  /\ main_at = "ended" => hook = "previous" \/ "main" \in panicked

LEMMA RestoreFacts ==
  ASSUME NEW state, modes \subseteq state, restore_terminal_with_state(state)
  PROVE  modes' \subseteq refused' /\ modes' \subseteq modes
BY DEF restore_terminal_with_state

LEMMA RestoreAll ==
  ASSUME modes \subseteq AllModes, restore_terminal
  PROVE  modes' \subseteq refused' /\ modes' \subseteq AllModes
BY RestoreFacts DEF restore_terminal

LEMMA EntersOrGivesUp ==
  ASSUME TerminalInv, enter
  PROVE  TerminalInv'
<1>1. main_at \in {"raw", "screen", "cursor", "backend"}
  BY DEF enter, Enter, CreateTerminal
<1>2. /\ modes \subseteq AllModes /\ modes \subseteq marked /\ panicked = {} /\ hook = "previous" /\ input_thread = "none"
      /\ UNCHANGED <<input_thread, hook, panicked>>
  BY <1>1 DEF TerminalInv, Entering, AllModes, enter, inputThreadVars, hookVars
<1>3. CASE GiveUp
  <2>1. modes' \subseteq refused' /\ modes' \subseteq modes /\ main_at' = "ended"
    BY <1>2, <1>3, RestoreFacts DEF GiveUp
  <2> QED BY <2>1, <1>2 DEF TerminalInv, Entering, AllModes, Behind
<1>4. CASE ~ GiveUp
  <2>1. \/ /\ main_at = "raw" /\ main_at' = "screen" /\ modes' = modes \cup {"raw"} /\ marked' = marked \cup {"raw"}
        \/ /\ main_at = "screen" /\ main_at' = "cursor" /\ modes' = modes \cup {"screen"} /\ marked' = marked \cup {"screen"}
        \/ /\ main_at = "cursor" /\ main_at' = "backend" /\ modes' = modes \cup {"cursor"} /\ marked' = marked \cup {"cursor"}
        \/ /\ main_at = "backend" /\ main_at' = "hook" /\ modes' = modes /\ marked' = marked
    BY <1>4 DEF enter, Enter, CreateTerminal
  <2> QED BY <2>1, <1>2 DEF TerminalInv, Entering, AllModes, Behind
<1> QED BY <1>3, <1>4

LEMMA PanicKeeps ==
  ASSUME TerminalInv, NEW thread, Panic(thread), main_at' \in {main_at, "panic"}, main_at # "ended"
  PROVE  TerminalInv'
<1>1. modes \subseteq AllModes /\ hook = "restoring" /\ UNCHANGED <<input_thread, hook>> /\ panicked' # {}
  BY DEF TerminalInv, Panic, inputThreadVars
<1>2. modes' \subseteq refused' /\ modes' \subseteq AllModes
  BY <1>1, RestoreAll DEF Panic
<1>3. main_at \notin Entering
  BY <1>1 DEF TerminalInv
<1> QED BY <1>1, <1>2, <1>3 DEF TerminalInv, Entering, AllModes, Behind

LEMMA LeavingKeeps ==
  ASSUME TerminalInv, Leaving
  PROVE  TerminalInv'
<1>1. modes \subseteq AllModes
  BY DEF TerminalInv
<1>2. CASE StopInput
  BY <1>2 DEF StopInput, TerminalInv, Entering, AllModes, Behind, hookVars
<1>3. CASE JoinInput
  BY <1>3 DEF JoinInput, TerminalInv, Entering, AllModes, Behind, hookVars, inputThreadVars
<1>4. CASE DropSession
  <2>1. modes' \subseteq refused' /\ modes' \subseteq AllModes
    BY <1>1, <1>4, RestoreAll DEF DropSession
  <2> QED BY <2>1, <1>4 DEF DropSession, TerminalInv, Entering, AllModes, Behind, hookVars, inputThreadVars
<1>5. CASE LockHook
  BY <1>5 DEF LockHook, TerminalInv, Entering, AllModes, Behind, inputThreadVars
<1>6. CASE SetPreviousHook
  BY <1>6 DEF SetPreviousHook, TerminalInv, Entering, AllModes, Behind, inputThreadVars
<1>7. CASE PanicAgain
  <2>1. modes' \subseteq refused' /\ modes' \subseteq AllModes
    BY <1>1, <1>7, RestoreAll DEF PanicAgain
  <2> QED BY <2>1, <1>7 DEF PanicAgain, TerminalInv, Entering, AllModes, Behind, inputThreadVars
<1>8. CASE Unwind
  BY <1>8 DEF Unwind, CallPrevious, TerminalInv, Entering, AllModes, Behind, inputThreadVars
<1> QED BY <1>2, <1>3, <1>4, <1>5, <1>6, <1>7, <1>8 DEF Leaving

LEMMA TerminalStep == TerminalInv /\ [TerminalNext]_terminalVars => TerminalInv'
<1> SUFFICES ASSUME TerminalInv, [TerminalNext]_terminalVars PROVE TerminalInv'
  OBVIOUS
<1>1. CASE SetHook
  BY <1>1 DEF SetHook, TerminalInv, Entering, AllModes, Behind, inputThreadVars
<1>2. CASE SpawnInput
  BY <1>2 DEF SpawnInput, TerminalInv, Entering, AllModes, Behind, hookVars
<1>3. CASE draw
  BY <1>3 DEF draw, TerminalInv, Entering, AllModes, Behind, hookVars, inputThreadVars
<1>4. CASE LeaveLoop
  BY <1>4 DEF LeaveLoop, TerminalInv, Entering, AllModes, Behind, hookVars, inputThreadVars
<1>5. CASE MainPanics
  BY <1>5, PanicKeeps DEF MainPanics
<1>6. CASE CheckStop \/ Poll
  <2>1. /\ input_thread \in {"checking", "polling"} /\ UNCHANGED <<modes, refused, marked, main_at, hook, panicked>>
    BY <1>6 DEF CheckStop, Poll, hookVars
  <2> QED BY <2>1 DEF TerminalInv, Entering, AllModes, Behind
<1>7. ASSUME NEW t \in BackgroundTasks, TaskPanics(t)
      PROVE  TerminalInv'
  BY <1>7, PanicKeeps DEF TaskPanics
<1>8. ASSUME NEW t \in BackgroundTasks, TaskUnwinds(t)
      PROVE  TerminalInv'
  BY <1>8 DEF TaskUnwinds, CallPrevious, TerminalInv, inputThreadVars
<1>9. CASE UNCHANGED terminalVars
  BY <1>9 DEF terminalVars, TerminalInv
<1> QED BY <1>1, <1>2, <1>3, <1>4, <1>5, <1>6, <1>7, <1>8, <1>9, EntersOrGivesUp, LeavingKeeps DEF TerminalNext

(* The safety part of TerminalIsGivenBack: while the UI runs and nothing has
   panicked the terminal is its own, and when the main thread is done every mode
   that could be restored is, nobody reads the keys, and the hook is the previous
   one unless the main thread itself panicked (runtime.rs:368, 411); for any
   number of tasks that panic. *)
THEOREM TerminalComesBack == TerminalSpec => [](TheUIsWhileItRuns /\ RestoredAtTheEnd)
<1>1. TerminalInit => TerminalInv
  BY DEF TerminalInit, TerminalInv, Entering, AllModes, Behind
<1>2. TerminalInv /\ [TerminalNext]_terminalVars => TerminalInv'
  BY TerminalStep
<1>3. TerminalInv => TheUIsWhileItRuns /\ RestoredAtTheEnd
  BY DEF TerminalInv, TheUIsWhileItRuns, RestoredAtTheEnd, Restored, Behind
<1> QED BY <1>1, <1>2, <1>3, PTL DEF TerminalSpec
=============================================================================
