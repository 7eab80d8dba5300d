-------------------------- MODULE TuiConfig_proofs --------------------------
(***************************************************************************)
(* The configuration file is unreadable only for a reason, and a user who  *)
(* lets every command come back loses nothing: for any number of edits,    *)
(* refreshes and logins, and whatever saves are refused or fail.           *)
(*                                                                         *)
(* The invariant follows a save or load to its end: where it is in flight, *)
(* what its phase says of the file and of what it has found, and that it   *)
(* sends one final event.  While loads and saves have never met there is   *)
(* one of them at most, and it carries the edits as they were made.        *)
(***************************************************************************)
EXTENDS TuiConfig, TLAPS

Tasks  == Saves \cup Loads
Found  == Config \cup {NoConfig}
Broken == {Empty, Garbled}
Phases == {"ready", "opened", "saved", "read", "over"}
Event  == [req : Requests, kind : {"ConfigSaved", "SnapshotLoaded", "LoginDone"}, ok : BOOLEAN]

ConfigTypeOK ==
    /\ LoopTypeOK(Requests, Event)
    /\ current_config \in Found /\ is_loading_snapshot \in BOOLEAN
    /\ file \in Found \cup Broken
    /\ text \in [Saves -> Config]
    /\ phase \in [Tasks -> Phases]
    /\ seen \in [Tasks -> Found \cup Broken]
    /\ intended \in Found
    /\ acknowledged \subseteq Settings
    /\ overlap \in BOOLEAN /\ save_failed \in BOOLEAN

Elements(events) == {events[i] : i \in DOMAIN events}

(* What an event says of the task that has sent it. *)
Says(e) ==
    /\ e.kind = "SnapshotLoaded" => /\ e.req \in Tasks /\ phase[e.req] = "over"
                                    /\ e.ok <=> seen[e.req] \notin Broken
    /\ e.kind = "ConfigSaved" => /\ e.req \in Saves /\ phase[e.req] # "ready"
                                 /\ ~e.ok => phase[e.req] = "over"
    /\ e.kind = "LoginDone" => e.req \in Logins \cup CodexLogins

Final(e) == e.kind = "SnapshotLoaded" \/ (e.kind = "ConfigSaved" /\ ~e.ok)
OneFinal(E) == \A e, f \in E : Final(e) /\ Final(f) /\ e.req = f.req => e = f

FlightInv ==
    /\ Waiting \subseteq issued /\ outbox \cap running = {}
    /\ \A e \in Elements(channel) : Says(e)
    /\ OneFinal(Elements(channel))
    /\ \A r \in Tasks :
          /\ phase[r] # "ready" => r \in issued \ outbox
          /\ r \in running => phase[r] # "over"
          /\ phase[r] = "opened" => r \in running
          /\ phase[r] \in {"saved", "read"} => r \in running \/ exited
          /\ r \in Loads => phase[r] \in {"ready", "read", "over"}

(* The save is to fail: its event says so. *)
Refused(s) == Done(s, "ConfigSaved", FALSE) \in Elements(channel)

ApartInv ==
    ~overlap => /\ \A r, q \in InTransit : r = q
                /\ \A s \in Saves : phase[s] = "opened" => file = Empty

FileInv ==
    /\ file = Empty => \/ \E s \in Saves : phase[s] = "opened"
                       \/ save_failed
                       \/ \E s \in Saves : Refused(s)
    /\ file = Garbled => overlap

(* A load finds the edits, a save carries them and leaves them in the file. *)
LoadKeeps(r) ==
    /\ file = intended
    /\ phase[r] \in {"read", "over"} => seen[r] = intended
SaveKeeps(s) ==
    /\ text[s] = intended /\ current_config = intended
    /\ phase[s] \in {"saved", "read"} => file = intended
    /\ phase[s] = "read" => seen[s] = intended
    /\ phase[s] = "over" => Refused(s) \/ (file = intended /\ seen[s] = intended)
KeptInv ==
    ~overlap /\ ~save_failed /\ ~exited =>
        /\ InTransit = {} => file = intended /\ current_config = intended
        /\ \A r \in InTransit \cap Loads : LoadKeeps(r)
        /\ \A s \in InTransit \cap Saves : SaveKeeps(s)

ConfigInv == ConfigTypeOK /\ FlightInv /\ ApartInv /\ FileInv /\ KeptInv

-----------------------------------------------------------------------------
(* The events of the channel, as a set. *)
LEMMA AppendElements ==
    ASSUME NEW S, NEW c \in Seq(S), NEW e \in S
    PROVE  Append(c, e) \in Seq(S) /\ Elements(Append(c, e)) = Elements(c) \cup {e}
<1>1. /\ DOMAIN c = 1 .. Len(c) /\ DOMAIN Append(c, e) = 1 .. Len(c) + 1
      /\ Len(c) \in Nat /\ Append(c, e) \in Seq(S)
  OBVIOUS
<1>2. /\ \A i \in 1 .. Len(c) : Append(c, e)[i] = c[i]
      /\ Append(c, e)[Len(c) + 1] = e
  OBVIOUS
<1>3. Elements(Append(c, e)) \subseteq Elements(c) \cup {e}
  BY <1>1, <1>2 DEF Elements
<1>4. Elements(c) \subseteq Elements(Append(c, e))
  BY <1>1, <1>2 DEF Elements
<1>5. e \in Elements(Append(c, e))
  BY <1>1, <1>2 DEF Elements
<1> QED
  BY <1>1, <1>3, <1>4, <1>5

LEMMA TailElements ==
    ASSUME NEW S, NEW c \in Seq(S), c # <<>>
    PROVE  /\ Tail(c) \in Seq(S) /\ Head(c) \in S
           /\ Elements(c) = {Head(c)} \cup Elements(Tail(c))
<1>1. /\ DOMAIN c = 1 .. Len(c) /\ DOMAIN Tail(c) = 1 .. Len(c) - 1
      /\ Len(c) \in Nat /\ Len(c) > 0
      /\ Tail(c) \in Seq(S) /\ Head(c) \in S
  OBVIOUS
<1>2. /\ \A i \in 1 .. Len(c) - 1 : Tail(c)[i] = c[i + 1]
      /\ Head(c) = c[1]
  OBVIOUS
<1>3. Elements(c) \subseteq {Head(c)} \cup Elements(Tail(c))
  <2> SUFFICES ASSUME NEW i \in 1 .. Len(c)
               PROVE  c[i] \in {Head(c)} \cup Elements(Tail(c))
    BY <1>1 DEF Elements
  <2>1. CASE i = 1
    BY <2>1, <1>2
  <2>2. CASE i # 1
    <3>1. i - 1 \in 1 .. Len(c) - 1 /\ Tail(c)[i - 1] = c[i]
      BY <2>2, <1>1, <1>2
    <3> QED
      BY <3>1, <1>1 DEF Elements
  <2> QED
    BY <2>1, <2>2
<1>4. Elements(Tail(c)) \subseteq Elements(c)
  <2> SUFFICES ASSUME NEW i \in 1 .. Len(c) - 1
               PROVE  Tail(c)[i] \in Elements(c)
    BY <1>1 DEF Elements
  <2>1. i + 1 \in 1 .. Len(c) /\ Tail(c)[i] = c[i + 1]
    BY <1>1, <1>2
  <2> QED
    BY <2>1, <1>1 DEF Elements
<1>5. Head(c) \in Elements(c)
  BY <1>1, <1>2 DEF Elements
<1> QED
  BY <1>1, <1>3, <1>4, <1>5

LEMMA OwnersWait == \A r : r \in Waiting <=> \E e \in Elements(channel) : e.req = r
  BY DEF Waiting, Reqs, Elements

LEMMA OwnersWaitNext == \A r : r \in Waiting' <=> \E e \in Elements(channel') : e.req = r
  BY DEF Waiting, Reqs, Elements

LEMMA DoneIsEvent ==
    ASSUME NEW r \in Requests, NEW k \in {"ConfigSaved", "SnapshotLoaded", "LoginDone"},
           NEW ok \in BOOLEAN
    PROVE  /\ Done(r, k, ok) \in Event /\ Done(r, k, ok).req = r
           /\ Done(r, k, ok).kind = k /\ Done(r, k, ok).ok = ok
  BY DEF Done, Event

LEMMA Refusal == \A t : /\ Done(t, "ConfigSaved", FALSE).req = t
                       /\ Done(t, "ConfigSaved", FALSE).kind = "ConfigSaved"
                       /\ Done(t, "ConfigSaved", FALSE).ok = FALSE
  BY DEF Done

LEMMA Sent ==
    ASSUME ConfigTypeOK, NEW e \in Event, channel' = Append(channel, e)
    PROVE  /\ channel' \in Seq(Event)
           /\ Elements(channel') = Elements(channel) \cup {e}
           /\ \A r : r \in Waiting' <=> r \in Waiting \/ r = e.req
<1>1. channel' \in Seq(Event) /\ Elements(channel') = Elements(channel) \cup {e}
  BY AppendElements DEF ConfigTypeOK, LoopTypeOK
<1> QED
  BY <1>1, OwnersWait, OwnersWaitNext

LEMMA Taken ==
    ASSUME ConfigTypeOK, NEW e, Receive(e)
    PROVE  /\ channel' \in Seq(Event) /\ e \in Event
           /\ Elements(channel) = {e} \cup Elements(channel')
           /\ \A r : r \in Waiting <=> r \in Waiting' \/ r = e.req
           /\ ~exited
<1>1. /\ channel' \in Seq(Event) /\ e \in Event /\ ~exited
      /\ Elements(channel) = {e} \cup Elements(channel')
  BY TailElements DEF ConfigTypeOK, LoopTypeOK, Receive
<1> QED
  BY <1>1, OwnersWait, OwnersWaitNext

LEMMA RequestKinds ==
    /\ Tasks \subseteq Requests /\ Saves \subseteq Tasks /\ Loads \subseteq Tasks
    /\ Saves \cap Loads = {}
    /\ Tasks \cap (Logins \cup CodexLogins) = {}
    /\ Logins \cup CodexLogins \subseteq Requests
    /\ \A r \in Tasks : r \in Saves \/ r \in Loads
  BY RequestAssumption DEF Tasks, Requests

LEMMA Configs ==
    /\ Config = SUBSET Settings
    /\ Found \cap Broken = {} /\ Config \subseteq Found
    /\ Empty # Garbled /\ Empty \notin Found /\ Garbled \notin Found
    /\ {} \in Config
    /\ OAuthProvider \in Settings /\ CodexProvider \in Settings
    /\ \A c \in Found : ensure_config(c) \in Config
<1>1. Config = SUBSET Settings
  BY DEF Config
<1>2. {} \in Config
  BY <1>1
<1> QED
  BY <1>1, <1>2, ConfigAssumption DEF Found, Broken, ensure_config

-----------------------------------------------------------------------------
(* Handlers of keys and events. *)
LEMMA HandlerFlight ==
    ASSUME NEW R \in SUBSET Requests, ConfigTypeOK, FlightInv, Emit(R),
           channel' \in Seq(Event), Elements(channel') \subseteq Elements(channel),
           UNCHANGED <<running, phase, seen, exited>>, should_quit' \in BOOLEAN
    PROVE  /\ LoopTypeOK(Requests, Event)'
           /\ FlightInv'
           /\ InTransit' \subseteq InTransit \cup R
           /\ \A r \in R \cap Tasks : phase[r] = "ready" /\ r \in InTransit'
<1>1. /\ issued' = issued \cup R /\ outbox' = outbox \cup R /\ R \cap issued = {}
      /\ outbox \subseteq issued /\ running \subseteq issued /\ issued \subseteq Requests
      /\ running' = running /\ phase' = phase /\ seen' = seen /\ exited' = exited
      /\ exited \in BOOLEAN
  BY DEF Emit, ConfigTypeOK, LoopTypeOK
<1>2. \A r : r \in Waiting' => r \in Waiting
  BY OwnersWait, OwnersWaitNext
<1>3. LoopTypeOK(Requests, Event)'
  BY <1>1 DEF LoopTypeOK
<1>4. Waiting' \subseteq issued' /\ outbox' \cap running' = {}
  BY <1>1, <1>2 DEF FlightInv
<1>5. \A e \in Elements(channel') : Says(e)'
  BY <1>1 DEF FlightInv, Says
<1>6. OneFinal(Elements(channel'))
  BY DEF FlightInv, OneFinal
<1>7. \A r \in Tasks : phase[r] # "ready" => r \in issued' \ outbox'
  BY <1>1 DEF FlightInv
<1>8. FlightInv'
  BY <1>1, <1>4, <1>5, <1>6, <1>7 DEF FlightInv
<1>9. InTransit' \subseteq InTransit \cup R
  BY <1>1, <1>2 DEF InTransit, InFlight
<1>10. \A r \in R \cap Tasks : phase[r] = "ready" /\ r \in InTransit'
  BY <1>1 DEF FlightInv, InTransit, InFlight, Tasks
<1> QED
  BY <1>3, <1>8, <1>9, <1>10

(* A command that saves: the configuration in memory and the history are
   edited alike. *)
LEMMA EditKeeps ==
    ASSUME NEW s \in Saves, NEW config \in Config,
           NEW more \in SUBSET (Logins \cup CodexLogins \cup Loads),
           ConfigInv, Edit(s, config, more), ~exited,
           channel' \in Seq(Event), Elements(channel') \subseteq Elements(channel),
           \A t \in Saves : Refused(t) => Refused(t)',
           UNCHANGED <<running, should_quit, exited, file, phase, seen,
                       acknowledged, save_failed>>,
           is_loading_snapshot' \in BOOLEAN, intended' \in Config,
           current_config = intended => config = intended'
    PROVE  ConfigInv'
<1> DEFINE R == {s} \cup more
<1>1. R \in SUBSET Requests
  BY RequestKinds DEF Tasks, Requests
<1>2. /\ Emit(R) /\ current_config' = config
      /\ text' = [text EXCEPT ![s] = config]
      /\ overlap' = (overlap \/ InTransit # {} \/ more \cap Loads # {})
  BY DEF Edit
<1>3. ConfigTypeOK /\ FlightInv /\ ApartInv /\ FileInv /\ KeptInv
  BY DEF ConfigInv
<1>4. UNCHANGED <<running, phase, seen, exited>> /\ should_quit' \in BOOLEAN
  BY <1>3 DEF ConfigTypeOK, LoopTypeOK
<1> HIDE DEF R
<1>5. /\ LoopTypeOK(Requests, Event)'
      /\ FlightInv'
      /\ InTransit' \subseteq InTransit \cup R
      /\ \A r \in R \cap Tasks : phase[r] = "ready" /\ r \in InTransit'
  BY <1>1, <1>2, <1>3, <1>4, HandlerFlight
<1>6. text' \in [Saves -> Config] /\ text'[s] = config
  BY <1>2, <1>3 DEF ConfigTypeOK
<1>7. ConfigTypeOK'
  <2>1. overlap' \in BOOLEAN /\ save_failed' \in BOOLEAN
    BY <1>2, <1>3 DEF ConfigTypeOK
  <2> QED
    BY <1>2, <1>3, <1>5, <1>6, <2>1, Configs DEF ConfigTypeOK
<1>8. ASSUME ~overlap'
      PROVE  ~overlap /\ InTransit = {} /\ InTransit' = {s}
  <2>1. ~overlap /\ InTransit = {} /\ more \cap Loads = {}
    BY <1>2, <1>8
  <2>2. InTransit' \subseteq Tasks
    BY DEF InTransit, Tasks
  <2>3. R \cap Tasks = {s}
    BY <2>1, RequestKinds DEF R
  <2> QED
    BY <1>5, <2>1, <2>2, <2>3
<1>9. ApartInv'
  BY <1>3, <1>8 DEF ApartInv
<1>10. FileInv'
  BY <1>2, <1>3 DEF FileInv
<1>11. KeptInv'
  <2> SUFFICES ASSUME ~overlap', ~save_failed'
               PROVE  /\ InTransit' # {} /\ InTransit' \cap Loads = {}
                      /\ \A t \in InTransit' \cap Saves : SaveKeeps(t)'
    BY DEF KeptInv
  <2>1. InTransit = {} /\ InTransit' = {s} /\ ~overlap
    BY <1>8
  <2>2. current_config = intended
    BY <1>3, <2>1 DEF KeptInv
  <2>3. phase[s] = "ready"
    BY <1>5, RequestKinds DEF R
  <2>4. SaveKeeps(s)'
    BY <1>2, <1>6, <2>2, <2>3 DEF SaveKeeps
  <2> QED
    BY <2>1, <2>4, RequestKinds
<1> QED
  BY <1>5, <1>7, <1>9, <1>10, <1>11 DEF ConfigInv

(* The other handlers neither edit nor save: a task may be over for the loop,
   and what it says has been taken in. *)
LEMMA HandlerKeeps ==
    ASSUME NEW R \in SUBSET Requests, ConfigInv, Emit(R), ~exited,
           R \cap Tasks = {},
           channel' \in Seq(Event), Elements(channel') \subseteq Elements(channel),
           \A t \in Saves : Refused(t) => Refused(t)' \/ save_failed',
           save_failed => save_failed', save_failed' \in BOOLEAN,
           UNCHANGED <<running, exited, file, text, phase, seen, intended, overlap>>,
           should_quit' \in BOOLEAN, is_loading_snapshot' \in BOOLEAN,
           acknowledged' \subseteq Settings, current_config' \in Found,
           ~overlap /\ ~save_failed' /\ InTransit # {} =>
               /\ current_config = intended => current_config' = intended
               /\ InTransit' = {} => file = intended /\ current_config' = intended,
           InTransit = {} => current_config' = current_config
    PROVE  ConfigInv'
<1>1. ConfigTypeOK /\ FlightInv /\ ApartInv /\ FileInv /\ KeptInv
  BY DEF ConfigInv
<1>2. /\ LoopTypeOK(Requests, Event)'
      /\ FlightInv'
      /\ InTransit' \subseteq InTransit \cup R
  BY <1>1, HandlerFlight
<1>3. InTransit' \subseteq InTransit
  <2>1. InTransit' \subseteq Tasks
    BY DEF InTransit, Tasks
  <2> QED
    BY <1>2, <2>1
<1>4. ConfigTypeOK'
  BY <1>1, <1>2 DEF ConfigTypeOK
<1>5. ApartInv'
  BY <1>1, <1>3 DEF ApartInv
<1>6. FileInv'
  BY <1>1 DEF FileInv
<1>7. KeptInv'
  <2> SUFFICES ASSUME ~overlap', ~save_failed'
               PROVE  /\ InTransit' = {} => file' = intended' /\ current_config' = intended'
                      /\ \A r \in InTransit' \cap Loads : LoadKeeps(r)'
                      /\ \A s \in InTransit' \cap Saves : SaveKeeps(s)'
    BY DEF KeptInv
  <2>1. ~overlap /\ ~save_failed /\ KeptInv
    BY <1>1
  <2>2. InTransit' = {} => file' = intended' /\ current_config' = intended'
    BY <2>1 DEF KeptInv
  <2>3. \A r \in InTransit' \cap Loads : LoadKeeps(r)'
    BY <2>1, <1>3 DEF KeptInv, LoadKeeps
  <2>4. \A s \in InTransit' \cap Saves : SaveKeeps(s)'
    <3> SUFFICES ASSUME NEW s \in InTransit' \cap Saves
                 PROVE  SaveKeeps(s)'
      OBVIOUS
    <3>1. s \in InTransit \cap Saves /\ SaveKeeps(s)
      BY <2>1, <1>3 DEF KeptInv
    <3>2. current_config' = intended'
      BY <2>1, <3>1 DEF SaveKeeps
    <3>3. Refused(s) => Refused(s)'
      OBVIOUS
    <3> QED
      BY <3>1, <3>2, <3>3 DEF SaveKeeps
  <2> QED
    BY <2>2, <2>3, <2>4
<1> QED
  BY <1>2, <1>4, <1>5, <1>6, <1>7 DEF ConfigInv

LEMMA NothingEmitted == ASSUME ConfigTypeOK, NoCommand PROVE Emit({})
  BY DEF NoCommand, Emit, ConfigTypeOK

(* The commands of the user. *)
LEMMA KeyKeeps ==
    ASSUME ConfigInv, Key
    PROVE  /\ ~exited /\ channel' \in Seq(Event) /\ Elements(channel') \subseteq Elements(channel)
           /\ \A t \in Saves : Refused(t) => Refused(t)'
  BY DEF Key, ConfigInv, ConfigTypeOK, LoopTypeOK, Refused

LEMMA EditsAgree ==
    ASSUME ConfigTypeOK
    PROVE  /\ ensure_config(current_config) \in Config /\ ensure_config(intended) \in Config
           /\ \A x \in Settings : /\ ensure_config(current_config) \cup {x} \in Config
                                  /\ ensure_config(current_config) \ {x} \in Config
                                  /\ ensure_config(intended) \cup {x} \in Config
                                  /\ ensure_config(intended) \ {x} \in Config
<1>1. ensure_config(current_config) \in Config /\ ensure_config(intended) \in Config
  BY Configs DEF ConfigTypeOK
<1> QED
  BY <1>1, Configs

LEMMA KeysKeep == ASSUME ConfigInv, Keys PROVE ConfigInv'
<1>1. ConfigTypeOK
  BY DEF ConfigInv
<1>2. /\ is_loading_snapshot \in BOOLEAN /\ should_quit \in BOOLEAN
      /\ acknowledged \subseteq Settings /\ current_config \in Found
      /\ save_failed \in BOOLEAN
  BY <1>1 DEF ConfigTypeOK, LoopTypeOK
<1>3. ASSUME NEW s \in Edits, NEW x \in Settings, SetAndRefresh(s, x) PROVE ConfigInv'
  BY <1>1, <1>2, <1>3, KeyKeeps, EditsAgree, EditKeeps DEF SetAndRefresh, Saves
<1>4. ASSUME NEW s \in Edits, NEW x \in Settings, SetQuietly(s, x) PROVE ConfigInv'
  BY <1>1, <1>2, <1>4, KeyKeeps, EditsAgree, EditKeeps DEF SetQuietly, Saves
<1>5. ASSUME NEW s \in Edits, NEW x \in Settings, RemoveProvider(s, x) PROVE ConfigInv'
  BY <1>1, <1>2, <1>5, KeyKeeps, EditsAgree, EditKeeps DEF RemoveProvider, Saves
<1>6. ASSUME NEW s \in Edits, NEW l \in Logins, AddOAuthProvider(s, l) PROVE ConfigInv'
  BY <1>1, <1>2, <1>6, KeyKeeps, EditsAgree, EditKeeps, Configs DEF AddOAuthProvider, Saves
<1>7. ASSUME NEW l \in Logins \cup CodexLogins, StartLogin(l) PROVE ConfigInv'
  <2>1. /\ Key /\ Emit({l})
        /\ UNCHANGED <<running, should_quit, exited, current_config, is_loading_snapshot,
                       file, text, phase, seen, intended, acknowledged, overlap, save_failed>>
    BY <1>7 DEF StartLogin, configVars, taskVars, historyVars
  <2>2. {l} \in SUBSET Requests /\ {l} \cap Tasks = {}
    BY RequestKinds
  <2>3. InTransit # {} /\ InTransit' = {} => FALSE
    BY <2>1 DEF Key, InTransit, InFlight, Emit, Waiting
  <2> QED
    BY <1>2, <2>1, <2>2, <2>3, KeyKeeps, HandlerKeeps
<1>8. ASSUME Quit PROVE ConfigInv'
  <2>1. /\ Key /\ NoCommand /\ should_quit' = TRUE
        /\ UNCHANGED <<running, exited, current_config, is_loading_snapshot,
                       file, text, phase, seen, intended, acknowledged, overlap, save_failed>>
    BY <1>8 DEF Quit, configVars, taskVars, historyVars
  <2>2. InTransit' = InTransit
    BY <2>1 DEF Key, InTransit, InFlight, NoCommand, Waiting
  <2> QED
    BY <1>1, <1>2, <2>1, <2>2, KeyKeeps, NothingEmitted, HandlerKeeps
<1>9. ASSUME NEW l \in Refreshes, Refresh(l) PROVE ConfigInv'
  <2>1. /\ Key /\ Emit({l}) /\ is_loading_snapshot' = TRUE
        /\ overlap' = (overlap \/ InTransit # {})
        /\ UNCHANGED <<running, should_quit, exited, current_config,
                       file, text, phase, seen, intended, acknowledged, save_failed>>
    BY <1>9 DEF Refresh, taskVars
  <2>2. l \in Loads /\ l \in Tasks /\ {l} \in SUBSET Requests
    BY RequestKinds DEF Loads
  <2>3. FlightInv /\ ApartInv /\ FileInv /\ KeptInv
    BY DEF ConfigInv
  <2>4. /\ LoopTypeOK(Requests, Event)' /\ FlightInv'
        /\ InTransit' \subseteq InTransit \cup {l}
        /\ phase[l] = "ready" /\ l \in InTransit'
    BY <1>1, <1>2, <2>1, <2>2, <2>3, KeyKeeps, HandlerFlight
  <2>5. ConfigTypeOK'
    <3>1. overlap' \in BOOLEAN
      BY <2>1, <1>1 DEF ConfigTypeOK
    <3> QED
      BY <1>1, <2>1, <2>4, <3>1 DEF ConfigTypeOK
  <2>6. ~overlap' => ~overlap /\ InTransit = {} /\ InTransit' = {l}
    BY <2>1, <2>4
  <2>7. ApartInv'
    BY <2>1, <2>3, <2>6 DEF ApartInv
  <2>8. FileInv'
    BY <2>1, <2>3, KeyKeeps DEF FileInv
  <2>9. KeptInv'
    <3> SUFFICES ASSUME ~overlap', ~save_failed', ~exited'
                 PROVE  LoadKeeps(l)'
      BY <2>6, <2>2, RequestKinds DEF KeptInv
    <3> QED
      BY <2>1, <2>3, <2>4, <2>6 DEF KeptInv, LoadKeeps
  <2> QED
    BY <2>4, <2>5, <2>7, <2>8, <2>9 DEF ConfigInv
<1> QED
  BY <1>3, <1>4, <1>5, <1>6, <1>7, <1>8, <1>9 DEF Keys

-----------------------------------------------------------------------------
(* The events of tasks. *)
LEMMA SnapshotKeeps ==
    ASSUME ConfigInv, NEW r \in Tasks, NEW ok \in BOOLEAN, SnapshotLoaded(r, ok)
    PROVE  ConfigInv'
<1> DEFINE e == Done(r, "SnapshotLoaded", ok)
<1>1. ConfigTypeOK /\ FlightInv /\ ApartInv /\ FileInv /\ KeptInv
  BY DEF ConfigInv
<1>2. e.req = r /\ e.kind = "SnapshotLoaded" /\ e.ok = ok
  BY DoneIsEvent, RequestKinds
<1> HIDE DEF e
<1>3. /\ Receive(e) /\ is_loading_snapshot' = FALSE
      /\ current_config' = IF ok THEN seen[r] ELSE current_config
      /\ NoCommand
      /\ UNCHANGED <<running, should_quit, exited, file, text, phase, seen,
                     intended, acknowledged, overlap, save_failed>>
  BY DEF SnapshotLoaded, taskVars, historyVars, e
<1>4. /\ channel' \in Seq(Event) /\ ~exited
      /\ Elements(channel) = {e} \cup Elements(channel')
      /\ r \in Waiting
  BY <1>1, <1>2, <1>3, Taken
<1>5. r \in InTransit
  BY <1>4 DEF InTransit, InFlight, Tasks
<1>6. phase[r] = "over" /\ (ok <=> seen[r] \notin Broken)
  BY <1>1, <1>2, <1>4 DEF FlightInv, Says
<1>7. current_config' \in Found
  BY <1>1, <1>3, <1>6 DEF ConfigTypeOK
<1>8. \A t \in Saves : Refused(t) => Refused(t)'
  <2> SUFFICES ASSUME NEW t \in Saves
               PROVE  Done(t, "ConfigSaved", FALSE) # e
    BY <1>4 DEF Refused
  <2> QED
    BY <1>2, Refusal
<1>9. r \in Saves => ~Refused(r)
  <2> SUFFICES ASSUME r \in Saves, Refused(r)
               PROVE  FALSE
    OBVIOUS
  <2> DEFINE f == Done(r, "ConfigSaved", FALSE)
  <2>1. f.req = r /\ f.kind = "ConfigSaved" /\ f.ok = FALSE
    BY Refusal
  <2> HIDE DEF f
  <2>2. f \in Elements(channel)
    BY DEF Refused, f
  <2> QED
    BY <1>1, <1>2, <1>4, <2>1, <2>2 DEF FlightInv, OneFinal, Final
<1>10. ASSUME ~overlap, ~save_failed
       PROVE  seen[r] = intended /\ file = intended /\ current_config' = intended
  <2>1. seen[r] = intended /\ file = intended
    <3>1. CASE r \in Loads
      BY <1>1, <1>4, <1>5, <1>6, <1>10, <3>1 DEF KeptInv, LoadKeeps
    <3>2. CASE r \in Saves
      BY <1>1, <1>4, <1>5, <1>6, <1>9, <1>10, <3>2 DEF KeptInv, SaveKeeps
    <3> QED
      BY <3>1, <3>2, RequestKinds
  <2>2. ok
    BY <1>1, <1>6, <2>1, Configs DEF ConfigTypeOK
  <2> QED
    BY <1>3, <2>1, <2>2
<1>11. Emit({}) /\ {} \in SUBSET Requests /\ {} \cap Tasks = {}
  BY <1>1, <1>3, NothingEmitted
<1>12. /\ should_quit' \in BOOLEAN /\ is_loading_snapshot' \in BOOLEAN
       /\ acknowledged' \subseteq Settings /\ save_failed' \in BOOLEAN
  BY <1>1, <1>3 DEF ConfigTypeOK, LoopTypeOK
<1>13. Elements(channel') \subseteq Elements(channel)
  BY <1>4
<1> QED
  BY <1>3, <1>4, <1>5, <1>7, <1>8, <1>10, <1>11, <1>12, <1>13, HandlerKeeps

LEMMA ConfigSavedKeeps ==
    ASSUME ConfigInv, NEW s \in Saves, NEW ok \in BOOLEAN, ConfigSaved(s, ok)
    PROVE  ConfigInv'
<1> DEFINE e == Done(s, "ConfigSaved", ok)
<1>1. ConfigTypeOK /\ FlightInv /\ ApartInv /\ FileInv /\ KeptInv
  BY DEF ConfigInv
<1>2. e.req = s /\ e.kind = "ConfigSaved" /\ e.ok = ok
  BY DoneIsEvent, RequestKinds
<1>3. \A t \in Saves : Done(t, "ConfigSaved", FALSE) = e => ~ok
  <2> SUFFICES ASSUME NEW t \in Saves
               PROVE  Done(t, "ConfigSaved", FALSE).ok = FALSE
    BY <1>2
  <2> QED
    BY Refusal
<1> HIDE DEF e
<1>4. /\ Receive(e)
      /\ acknowledged' = (IF ok THEN acknowledged \cup text[s] ELSE acknowledged)
      /\ save_failed' = (save_failed \/ ~ok)
      /\ NoCommand
      /\ UNCHANGED <<running, should_quit, exited, current_config, is_loading_snapshot,
                     file, text, phase, seen, intended, overlap>>
  BY DEF ConfigSaved, taskVars, configVars, e
<1>5. /\ channel' \in Seq(Event) /\ ~exited
      /\ Elements(channel) = {e} \cup Elements(channel')
      /\ s \in Waiting /\ \A r : r \in Waiting <=> r \in Waiting' \/ r = s
  BY <1>1, <1>2, <1>4, Taken
<1>6. \A t \in Saves : Refused(t) => Refused(t)' \/ save_failed'
  BY <1>3, <1>4, <1>5 DEF Refused
<1>7. ASSUME ~overlap, ~save_failed', InTransit' = {}
      PROVE  file = intended /\ current_config = intended
  <2>1. ~save_failed /\ ok
    BY <1>4, <1>7
  <2>2. s \in InTransit
    BY <1>5 DEF InTransit, InFlight
  <2>3. SaveKeeps(s)
    BY <1>1, <1>5, <1>7, <2>1, <2>2 DEF KeptInv
  <2>4. ~Refused(s)
    <3> SUFFICES ASSUME Refused(s)
                 PROVE  s \in InTransit'
      BY <1>7
    <3>1. Done(s, "ConfigSaved", FALSE) \in Elements(channel')
      BY <1>6, <1>7 DEF Refused
    <3>2. s \in Waiting'
      BY <3>1, Refusal, OwnersWaitNext
    <3> QED
      BY <3>2 DEF InTransit, InFlight
  <2>5. s \notin running
    BY <1>4, <1>7 DEF InTransit, InFlight
  <2>6. phase[s] # "ready" /\ phase[s] # "opened" /\ phase[s] \notin {"saved", "read"}
    BY <1>1, <1>2, <1>5, <2>5, RequestKinds DEF FlightInv, Says
  <2>7. phase[s] = "over"
    BY <1>1, <2>6, RequestKinds DEF ConfigTypeOK, Phases
  <2> QED
    BY <2>3, <2>4, <2>7 DEF SaveKeeps
<1>8. Emit({}) /\ {} \in SUBSET Requests /\ {} \cap Tasks = {}
  BY <1>1, <1>4, NothingEmitted
<1>9. /\ should_quit' \in BOOLEAN /\ is_loading_snapshot' \in BOOLEAN
      /\ save_failed' \in BOOLEAN /\ current_config' \in Found
  BY <1>1, <1>4 DEF ConfigTypeOK, LoopTypeOK
<1>10. acknowledged' \subseteq Settings
  <2>1. text[s] \subseteq Settings /\ acknowledged \subseteq Settings
    BY <1>1, Configs DEF ConfigTypeOK
  <2> QED
    BY <1>4, <2>1
<1>11. /\ Elements(channel') \subseteq Elements(channel)
       /\ save_failed => save_failed'
  BY <1>4, <1>5
<1> QED
  BY <1>4, <1>5, <1>6, <1>7, <1>8, <1>9, <1>10, <1>11, HandlerKeeps

(* A login that returns is nothing that a save or load has sent. *)
LEMMA LoginTaken ==
    ASSUME ConfigInv, NEW l \in Logins \cup CodexLogins, NEW ok \in BOOLEAN,
           Receive(Done(l, "LoginDone", ok))
    PROVE  /\ channel' \in Seq(Event) /\ ~exited
           /\ Elements(channel') \subseteq Elements(channel)
           /\ \A t \in Saves : Refused(t) => Refused(t)'
           /\ \A r \in Tasks : r \in Waiting' <=> r \in Waiting
<1> DEFINE e == Done(l, "LoginDone", ok)
<1>1. e.req = l /\ e.kind = "LoginDone" /\ l \notin Tasks
  BY DoneIsEvent, RequestKinds
<1>2. \A t \in Saves : Done(t, "ConfigSaved", FALSE) # e
  BY <1>1, Refusal
<1> HIDE DEF e
<1>3. /\ channel' \in Seq(Event) /\ ~exited
      /\ Elements(channel) = {e} \cup Elements(channel')
      /\ \A r : r \in Waiting <=> r \in Waiting' \/ r = l
  BY <1>1, Taken DEF ConfigInv, e
<1> QED
  BY <1>1, <1>2, <1>3 DEF Refused

LEMMA EventsKeep == ASSUME ConfigInv, Events PROVE ConfigInv'
<1>1. ConfigTypeOK
  BY DEF ConfigInv
<1>2. /\ is_loading_snapshot \in BOOLEAN /\ should_quit \in BOOLEAN
      /\ acknowledged \subseteq Settings /\ current_config \in Found
      /\ save_failed \in BOOLEAN
  BY <1>1 DEF ConfigTypeOK, LoopTypeOK
<1>3. ASSUME NEW l \in Logins, OpenAiLoginCompleted(l) PROVE ConfigInv'
  <2>1. /\ SaveAfter(l) \in Saves
        /\ {LoadAfter(l)} \in SUBSET (Logins \cup CodexLogins \cup Loads)
    BY DEF Saves, Loads
  <2> QED
    BY <1>1, <1>2, <1>3, <2>1, LoginTaken, EditsAgree, EditKeeps, Configs
    DEF OpenAiLoginCompleted
<1>4. ASSUME NEW l \in CodexLogins, CodexLoginCompleted(l) PROVE ConfigInv'
  <2>1. SaveAfter(l) \in Saves
    BY DEF Saves
  <2> QED
    BY <1>1, <1>2, <1>4, <2>1, LoginTaken, EditsAgree, EditKeeps, Configs
    DEF CodexLoginCompleted
<1>5. ASSUME NEW l \in Logins \cup CodexLogins, LoginFailed(l) PROVE ConfigInv'
  <2>1. /\ Receive(Done(l, "LoginDone", FALSE)) /\ NoCommand
        /\ UNCHANGED <<running, should_quit, exited, current_config, is_loading_snapshot,
                       file, text, phase, seen, intended, acknowledged, overlap, save_failed>>
    BY <1>5 DEF LoginFailed, configVars, taskVars, historyVars
  <2>2. InTransit' = InTransit
    BY <2>1, LoginTaken DEF InTransit, InFlight, NoCommand, Tasks
  <2>3. Emit({}) /\ {} \in SUBSET Requests /\ {} \cap Tasks = {}
    BY <1>1, <2>1, NothingEmitted
  <2> QED
    BY <1>2, <2>1, <2>2, <2>3, LoginTaken, HandlerKeeps
<1> QED
  BY <1>3, <1>4, <1>5, SnapshotKeeps, ConfigSavedKeeps DEF Events, Tasks

-----------------------------------------------------------------------------
(* The steps of tasks. *)

(* A task that runs is in flight and not over, and nothing final of it waits. *)
LEMMA Running ==
    ASSUME ConfigInv, NEW r \in Tasks, r \in running
    PROVE  /\ r \in InTransit /\ r \in issued
           /\ phase[r] # "over"
           /\ \A e \in Elements(channel) : e.req = r => ~Final(e)
<1>1. ConfigTypeOK /\ FlightInv
  BY DEF ConfigInv
<1>2. r \in InTransit /\ r \in issued /\ phase[r] # "over"
  BY <1>1 DEF InTransit, InFlight, FlightInv, ConfigTypeOK, LoopTypeOK, Tasks
<1>3. \A e \in Elements(channel) : e.req = r => ~Final(e)
  BY <1>1, <1>2 DEF FlightInv, Says, Final
<1> QED
  BY <1>2, <1>3

(* A task goes on, from one phase to the next, and sends an event or none. *)
OnlyPhaseOf(r) ==
    /\ phase' \in [Tasks -> Phases] /\ phase'[r] # "ready"
    /\ \A q \in Tasks : q # r => phase'[q] = phase[q]
    /\ \A q \in Tasks : q # r => seen'[q] = seen[q]
    /\ r \in Loads => phase'[r] \in {"read", "over"}
    /\ running' = IF phase'[r] = "over" THEN running \ {r} ELSE running
    /\ UNCHANGED <<issued, outbox, should_quit, exited>>
Sends(r, sent) ==
    /\ channel' \in Seq(Event) /\ Elements(channel') = Elements(channel) \cup sent
    /\ \A e, f \in sent : e = f
    /\ \A e \in sent : e.req = r /\ (Final(e) => phase'[r] = "over")

LEMMA TaskFlight ==
    ASSUME ConfigInv, NEW r \in Tasks, r \in running, ~exited, OnlyPhaseOf(r),
           NEW sent, Sends(r, sent), \A e \in sent : Says(e)'
    PROVE  /\ FlightInv'
           /\ LoopTypeOK(Requests, Event)'
           /\ InTransit' \subseteq InTransit
           /\ phase'[r] # "over" => r \in InTransit'
<1>1. ConfigTypeOK /\ FlightInv
  BY DEF ConfigInv
<1>2. /\ phase' \in [Tasks -> Phases] /\ phase'[r] # "ready"
      /\ \A q \in Tasks : q # r => phase'[q] = phase[q]
      /\ \A q \in Tasks : q # r => seen'[q] = seen[q]
      /\ r \in Loads => phase'[r] \in {"read", "over"}
      /\ running' = IF phase'[r] = "over" THEN running \ {r} ELSE running
      /\ issued' = issued /\ outbox' = outbox /\ should_quit' = should_quit /\ exited' = exited
  BY DEF OnlyPhaseOf
<1>3. /\ channel' \in Seq(Event) /\ Elements(channel') = Elements(channel) \cup sent
      /\ \A e, f \in sent : e = f
      /\ \A e \in sent : e.req = r /\ (Final(e) => phase'[r] = "over")
  BY DEF Sends
<1>4. \A q : q \in Waiting' => q \in Waiting \/ q = r
  BY <1>3, OwnersWait, OwnersWaitNext
<1>5. /\ r \in InTransit /\ r \in issued /\ phase[r] # "over"
      /\ \A e \in Elements(channel) : e.req = r => ~Final(e)
  BY Running
<1>6. Waiting' \subseteq issued' /\ outbox' \cap running' = {}
  BY <1>1, <1>2, <1>4, <1>5 DEF FlightInv
<1>7. LoopTypeOK(Requests, Event)'
  BY <1>1, <1>2, <1>3 DEF ConfigTypeOK, LoopTypeOK
<1>8. ASSUME NEW e \in Elements(channel') PROVE Says(e)'
  <2>1. CASE e \in sent
    BY <2>1
  <2>2. CASE e \notin sent
    <3>1. e \in Elements(channel) /\ Says(e)
      BY <1>1, <1>3, <1>8, <2>2 DEF FlightInv
    <3>2. CASE e.req = r
      BY <1>2, <1>5, <3>1, <3>2 DEF Says, Final
    <3>3. CASE e.req # r
      <4>1. e.req \in Tasks => phase'[e.req] = phase[e.req] /\ seen'[e.req] = seen[e.req]
        BY <1>2, <3>3
      <4> QED
        BY <3>1, <4>1, RequestKinds DEF Says
    <3> QED
      BY <3>2, <3>3
  <2> QED
    BY <2>1, <2>2
<1>9. OneFinal(Elements(channel'))
  BY <1>1, <1>3, <1>5 DEF FlightInv, OneFinal
<1>10. ASSUME NEW q \in Tasks
       PROVE  /\ phase'[q] # "ready" => q \in issued' \ outbox'
              /\ q \in running' => phase'[q] # "over"
              /\ phase'[q] = "opened" => q \in running'
              /\ phase'[q] \in {"saved", "read"} => q \in running' \/ exited'
              /\ q \in Loads => phase'[q] \in {"ready", "read", "over"}
  <2>1. CASE q # r
    BY <1>1, <1>2, <2>1 DEF FlightInv
  <2>2. CASE q = r
    <3>1. r \notin outbox
      BY <1>1, <1>5 DEF FlightInv
    <3> QED
      BY <1>2, <1>5, <2>2, <3>1
  <2> QED
    BY <2>1, <2>2
<1>11. FlightInv'
  BY <1>6, <1>8, <1>9, <1>10 DEF FlightInv
<1>12. InTransit' \subseteq InTransit
  BY <1>2, <1>4, <1>5 DEF InTransit, InFlight
<1>13. phase'[r] # "over" => r \in InTransit'
  BY <1>2 DEF InTransit, InFlight, Tasks
<1> QED
  BY <1>7, <1>11, <1>12, <1>13

(* The phase of the task alone is changed. *)
LEMMA PhaseUpdate ==
    ASSUME ConfigTypeOK, NEW r \in Tasks, NEW p \in Phases,
           phase' = [phase EXCEPT ![r] = p]
    PROVE  /\ phase' \in [Tasks -> Phases] /\ phase'[r] = p
           /\ \A q \in Tasks : q # r => phase'[q] = phase[q]
  BY DEF ConfigTypeOK, Phases

(* What the file, the history and the configuration owe to the task. *)
LEMMA ApartSoFar ==
    ASSUME ConfigInv, ~overlap, NEW r \in Tasks, r \in running
    PROVE  InTransit = {r}
  BY Running DEF ConfigInv, ApartInv

LEMMA OpenKeeps == ASSUME ConfigInv, NEW s \in Saves, OpenFile(s) PROVE ConfigInv'
<1>1. ConfigTypeOK /\ FlightInv /\ ApartInv /\ FileInv /\ KeptInv
  BY DEF ConfigInv
<1>2. /\ ~exited /\ s \in running /\ phase[s] = "ready" /\ s \in Tasks /\ s \notin Loads
      /\ phase' = [phase EXCEPT ![s] = "opened"] /\ file' = Empty
      /\ UNCHANGED <<issued, outbox, running, channel, should_quit, exited, current_config,
                     is_loading_snapshot, text, seen, intended, acknowledged, overlap, save_failed>>
  BY RequestKinds DEF OpenFile, loopVars, configVars, historyVars
<1>3. /\ channel' \in Seq(Event) /\ Elements(channel') = Elements(channel) \cup {}
      /\ {} \in SUBSET Event
  BY <1>1, <1>2 DEF ConfigTypeOK, LoopTypeOK
<1>4. /\ FlightInv' /\ LoopTypeOK(Requests, Event)'
      /\ phase' \in [Tasks -> Phases]
      /\ phase'[s] = "opened" /\ \A q \in Tasks : q # s => phase'[q] = phase[q]
      /\ InTransit' \subseteq InTransit /\ s \in InTransit'
  <2>1. /\ phase' \in [Tasks -> Phases] /\ phase'[s] = "opened"
        /\ \A q \in Tasks : q # s => phase'[q] = phase[q]
    BY <1>1, <1>2, PhaseUpdate DEF Phases
  <2>2. OnlyPhaseOf(s) /\ Sends(s, {})
    BY <1>2, <1>3, <2>1 DEF OnlyPhaseOf, Sends
  <2> QED
    BY <1>2, <2>1, <2>2, TaskFlight
<1>5. ConfigTypeOK'
  BY <1>1, <1>2, <1>4, Configs DEF ConfigTypeOK, Broken
<1>6. ApartInv'
  BY <1>1, <1>2, <1>4 DEF ApartInv
<1>7. FileInv'
  BY <1>2, <1>4, Configs DEF FileInv
<1>8. KeptInv'
  <2> SUFFICES ASSUME ~overlap, ~save_failed
               PROVE  InTransit' = {s} /\ SaveKeeps(s)'
    BY <1>2 DEF KeptInv
  <2>1. InTransit = {s}
    BY <1>2, ApartSoFar
  <2>2. SaveKeeps(s)
    BY <1>1, <1>2, <2>1 DEF KeptInv
  <2> QED
    BY <1>2, <1>4, <2>1, <2>2 DEF SaveKeeps
<1> QED
  BY <1>4, <1>5, <1>6, <1>7, <1>8 DEF ConfigInv

(* A save that is refused, or whose write fails: both end with the same event. *)
LEMMA FailKeeps ==
    ASSUME ConfigInv, NEW s \in Saves, RefuseSave(s) \/ FailWrite(s)
    PROVE  ConfigInv'
<1> DEFINE e == Done(s, "ConfigSaved", FALSE)
<1>1. ConfigTypeOK /\ FlightInv /\ ApartInv /\ FileInv /\ KeptInv
  BY DEF ConfigInv
<1>2. e \in Event /\ e.req = s /\ e.kind = "ConfigSaved" /\ e.ok = FALSE
  <2>1. s \in Requests
    BY RequestKinds
  <2> QED
    BY <2>1, DoneIsEvent
<1>3. Refused(s)' <=> e \in Elements(channel')
  BY DEF Refused
<1> HIDE DEF e
<1>4. /\ ~exited /\ s \in running /\ s \in Tasks /\ s \notin Loads
      /\ phase' = [phase EXCEPT ![s] = "over"]
      /\ running' = running \ {s} /\ channel' = Append(channel, e)
      /\ UNCHANGED <<issued, outbox, should_quit, exited, current_config, is_loading_snapshot,
                     file, text, seen, intended, acknowledged, overlap, save_failed>>
  BY RequestKinds DEF RefuseSave, FailWrite, SendLast, configVars, historyVars, e
<1>5. /\ channel' \in Seq(Event) /\ Elements(channel') = Elements(channel) \cup {e}
      /\ {e} \in SUBSET Event /\ Refused(s)'
  BY <1>1, <1>2, <1>3, <1>4, Sent
<1>6. phase'[s] = "over"
  BY <1>1, <1>4, PhaseUpdate DEF Phases
<1>7. Says(e)'
  BY <1>2, <1>6 DEF Says
<1>8. /\ FlightInv' /\ LoopTypeOK(Requests, Event)'
      /\ phase' \in [Tasks -> Phases]
      /\ \A q \in Tasks : q # s => phase'[q] = phase[q]
      /\ InTransit' \subseteq InTransit
  <2>1. /\ phase' \in [Tasks -> Phases]
        /\ \A q \in Tasks : q # s => phase'[q] = phase[q]
    BY <1>1, <1>4, PhaseUpdate DEF Phases
  <2>2. OnlyPhaseOf(s) /\ Sends(s, {e})
    BY <1>2, <1>4, <1>5, <1>6, <2>1 DEF OnlyPhaseOf, Sends
  <2>3. \A d \in {e} : Says(d)'
    BY <1>7
  <2> QED
    BY <1>4, <2>1, <2>2, <2>3, TaskFlight
<1>9. ConfigTypeOK'
  BY <1>1, <1>4, <1>8 DEF ConfigTypeOK
<1>10. ApartInv'
  BY <1>1, <1>4, <1>6, <1>8, RequestKinds DEF ApartInv
<1>11. FileInv'
  <2>1. \A t \in Saves : Refused(t) => Refused(t)'
    BY <1>5 DEF Refused
  <2> QED
    BY <1>1, <1>4, <1>5, <1>8, <2>1, RequestKinds DEF FileInv
<1>12. KeptInv'
  <2> SUFFICES ASSUME ~overlap, ~save_failed
               PROVE  InTransit' = {s} /\ SaveKeeps(s)'
    BY <1>4 DEF KeptInv
  <2>1. InTransit = {s}
    BY <1>4, ApartSoFar
  <2>2. SaveKeeps(s)
    BY <1>1, <1>4, <2>1 DEF KeptInv
  <2>3. s \in Waiting'
    BY <1>2, <1>5, OwnersWaitNext
  <2>4. s \in InTransit'
    BY <2>3 DEF InTransit, InFlight
  <2> QED
    BY <1>4, <1>5, <1>6, <1>8, <2>1, <2>2, <2>4 DEF SaveKeeps
<1> QED
  BY <1>8, <1>9, <1>10, <1>11, <1>12 DEF ConfigInv

LEMMA WriteKeeps == ASSUME ConfigInv, NEW s \in Saves, WriteFile(s) PROVE ConfigInv'
<1> DEFINE e == Done(s, "ConfigSaved", TRUE)
<1>1. ConfigTypeOK /\ FlightInv /\ ApartInv /\ FileInv /\ KeptInv
  BY DEF ConfigInv
<1>2. e \in Event /\ e.req = s /\ e.kind = "ConfigSaved" /\ e.ok = TRUE
  <2>1. s \in Requests
    BY RequestKinds
  <2> QED
    BY <2>1, DoneIsEvent
<1> HIDE DEF e
<1>3. /\ ~exited /\ s \in running /\ s \in Tasks /\ s \notin Loads /\ phase[s] = "opened"
      /\ phase' = [phase EXCEPT ![s] = "saved"]
      /\ file' \in {text[s]} \cup (IF file \in {Empty, text[s]} THEN {} ELSE {Garbled})
      /\ running' = running /\ channel' = Append(channel, e)
      /\ UNCHANGED <<issued, outbox, should_quit, exited, current_config, is_loading_snapshot,
                     text, seen, intended, acknowledged, overlap, save_failed>>
  BY RequestKinds DEF WriteFile, SendMore, configVars, historyVars, e
<1>4. /\ channel' \in Seq(Event) /\ Elements(channel') = Elements(channel) \cup {e}
      /\ {e} \in SUBSET Event
  BY <1>1, <1>2, <1>3, Sent
<1>5. phase'[s] = "saved"
  BY <1>1, <1>3, PhaseUpdate DEF Phases
<1>6. Says(e)' /\ ~Final(e)
  BY <1>2, <1>5 DEF Says, Final
<1>7. /\ FlightInv' /\ LoopTypeOK(Requests, Event)'
      /\ phase' \in [Tasks -> Phases]
      /\ \A q \in Tasks : q # s => phase'[q] = phase[q]
      /\ InTransit' \subseteq InTransit /\ s \in InTransit'
  <2>1. /\ phase' \in [Tasks -> Phases]
        /\ \A q \in Tasks : q # s => phase'[q] = phase[q]
    BY <1>1, <1>3, PhaseUpdate DEF Phases
  <2>2. OnlyPhaseOf(s) /\ Sends(s, {e})
    BY <1>2, <1>3, <1>4, <1>5, <1>6, <2>1 DEF OnlyPhaseOf, Sends
  <2>3. \A d \in {e} : Says(d)'
    BY <1>6
  <2> QED
    BY <1>3, <1>5, <2>1, <2>2, <2>3, TaskFlight
<1>8. text[s] \in Config
  BY <1>1 DEF ConfigTypeOK
<1>9. ~overlap => file' = text[s]
  BY <1>1, <1>3 DEF ApartInv
<1>10. ConfigTypeOK'
  <2>1. file' \in Found \cup Broken
    BY <1>3, <1>8, Configs DEF Broken
  <2> QED
    BY <1>1, <1>3, <1>7, <2>1 DEF ConfigTypeOK
<1>11. ApartInv'
  <2> SUFFICES ASSUME ~overlap
               PROVE  /\ \A r, q \in InTransit' : r = q
                      /\ \A t \in Saves : phase'[t] # "opened"
    BY <1>3 DEF ApartInv
  <2>1. InTransit = {s}
    BY <1>3, ApartSoFar
  <2>2. ASSUME NEW t \in Saves, phase'[t] = "opened" PROVE FALSE
    <3>1. t \in Tasks /\ t # s /\ phase[t] = "opened"
      BY <1>5, <1>7, <2>2, RequestKinds
    <3>2. t \in running
      BY <1>1, <3>1 DEF FlightInv
    <3> QED
      BY <2>1, <3>1, <3>2, Running
  <2> QED
    BY <1>7, <2>1, <2>2
<1>12. FileInv'
  <2>1. file' # Empty
    BY <1>3, <1>8, Configs
  <2>2. file' = Garbled => overlap
    BY <1>8, <1>9, Configs
  <2> QED
    BY <1>3, <2>1, <2>2 DEF FileInv
<1>13. KeptInv'
  <2> SUFFICES ASSUME ~overlap, ~save_failed
               PROVE  InTransit' = {s} /\ SaveKeeps(s)'
    BY <1>3 DEF KeptInv
  <2>1. InTransit = {s}
    BY <1>3, ApartSoFar
  <2>2. SaveKeeps(s)
    BY <1>1, <1>3, <2>1 DEF KeptInv
  <2> QED
    BY <1>3, <1>5, <1>7, <1>9, <2>1, <2>2 DEF SaveKeeps
<1> QED
  BY <1>7, <1>10, <1>11, <1>12, <1>13 DEF ConfigInv

LEMMA ReadKeeps == ASSUME ConfigInv, NEW r \in Tasks, ReadFile(r) PROVE ConfigInv'
<1>1. ConfigTypeOK /\ FlightInv /\ ApartInv /\ FileInv /\ KeptInv
  BY DEF ConfigInv
<1>2. /\ ~exited /\ r \in running
      /\ phase[r] = IF r \in Saves THEN "saved" ELSE "ready"
      /\ phase' = [phase EXCEPT ![r] = "read"] /\ seen' = [seen EXCEPT ![r] = file]
      /\ UNCHANGED <<issued, outbox, running, channel, should_quit, exited, current_config,
                     is_loading_snapshot, file, text, intended, acknowledged, overlap, save_failed>>
  BY DEF ReadFile, loopVars, configVars, historyVars
<1>3. /\ channel' \in Seq(Event) /\ Elements(channel') = Elements(channel) \cup {}
      /\ {} \in SUBSET Event
  BY <1>1, <1>2 DEF ConfigTypeOK, LoopTypeOK
<1>4. /\ seen' \in [Tasks -> Found \cup Broken] /\ seen'[r] = file
      /\ \A q \in Tasks : q # r => seen'[q] = seen[q]
  BY <1>1, <1>2 DEF ConfigTypeOK
<1>5. /\ FlightInv' /\ LoopTypeOK(Requests, Event)'
      /\ phase' \in [Tasks -> Phases]
      /\ phase'[r] = "read" /\ \A q \in Tasks : q # r => phase'[q] = phase[q]
      /\ InTransit' \subseteq InTransit /\ r \in InTransit'
  <2>1. /\ phase' \in [Tasks -> Phases] /\ phase'[r] = "read"
        /\ \A q \in Tasks : q # r => phase'[q] = phase[q]
    BY <1>1, <1>2, PhaseUpdate DEF Phases
  <2>2. OnlyPhaseOf(r) /\ Sends(r, {})
    BY <1>2, <1>3, <1>4, <2>1 DEF OnlyPhaseOf, Sends
  <2> QED
    BY <1>2, <2>1, <2>2, TaskFlight
<1>6. ConfigTypeOK'
  BY <1>1, <1>2, <1>4, <1>5 DEF ConfigTypeOK
<1>7. ApartInv'
  BY <1>1, <1>2, <1>5, RequestKinds DEF ApartInv
<1>8. FileInv'
  <2>1. \A t \in Saves : Refused(t) => Refused(t)'
    BY <1>2 DEF Refused
  <2>2. \A t \in Saves : phase[t] = "opened" => phase'[t] = "opened"
    BY <1>2, <1>5, RequestKinds
  <2> QED
    BY <1>1, <1>2, <2>1, <2>2 DEF FileInv
<1>9. KeptInv'
  <2> SUFFICES ASSUME ~overlap, ~save_failed
               PROVE  /\ InTransit' = {r}
                      /\ r \in Loads => LoadKeeps(r)'
                      /\ r \in Saves => SaveKeeps(r)'
    BY <1>2 DEF KeptInv
  <2>1. InTransit = {r}
    BY <1>2, ApartSoFar
  <2>2. ASSUME r \in Loads PROVE LoadKeeps(r)'
    <3>1. LoadKeeps(r)
      BY <1>1, <1>2, <2>1, <2>2 DEF KeptInv
    <3> QED
      BY <1>2, <1>4, <3>1 DEF LoadKeeps
  <2>3. ASSUME r \in Saves PROVE SaveKeeps(r)'
    <3>1. SaveKeeps(r)
      BY <1>1, <1>2, <2>1, <2>3 DEF KeptInv
    <3> QED
      BY <1>2, <1>4, <1>5, <2>3, <3>1 DEF SaveKeeps
  <2> QED
    BY <1>5, <2>1, <2>2, <2>3
<1> QED
  BY <1>5, <1>6, <1>7, <1>8, <1>9 DEF ConfigInv

LEMMA ReportKeeps == ASSUME ConfigInv, NEW r \in Tasks, ReportSnapshot(r) PROVE ConfigInv'
<1>1. ConfigTypeOK /\ FlightInv /\ ApartInv /\ FileInv /\ KeptInv
  BY DEF ConfigInv
<1>2. PICK good \in BOOLEAN : good = (seen[r] \notin Broken)
  OBVIOUS
<1> DEFINE e == Done(r, "SnapshotLoaded", good)
<1>3. /\ ~exited /\ r \in running /\ phase[r] = "read"
      /\ phase' = [phase EXCEPT ![r] = "over"]
      /\ running' = running \ {r} /\ channel' = Append(channel, e)
      /\ UNCHANGED <<issued, outbox, should_quit, exited, current_config, is_loading_snapshot,
                     file, text, seen, intended, acknowledged, overlap, save_failed>>
  BY <1>2 DEF ReportSnapshot, SendLast, configVars, historyVars, Broken
<1>4. good <=> seen'[r] \notin Broken
  BY <1>2, <1>3
<1>5. e \in Event /\ e.req = r /\ e.kind = "SnapshotLoaded" /\ e.ok = good
  <2>1. r \in Requests
    BY RequestKinds
  <2> QED
    BY <2>1, DoneIsEvent
<1> HIDE DEF e
<1>6. /\ channel' \in Seq(Event) /\ Elements(channel') = Elements(channel) \cup {e}
      /\ {e} \in SUBSET Event
  BY <1>1, <1>3, <1>5, Sent
<1>7. phase'[r] = "over"
  BY <1>1, <1>3, PhaseUpdate DEF Phases
<1>8. Says(e)'
  BY <1>4, <1>5, <1>7 DEF Says
<1>9. /\ FlightInv' /\ LoopTypeOK(Requests, Event)'
      /\ phase' \in [Tasks -> Phases]
      /\ \A q \in Tasks : q # r => phase'[q] = phase[q]
      /\ InTransit' \subseteq InTransit
  <2>1. /\ phase' \in [Tasks -> Phases]
        /\ \A q \in Tasks : q # r => phase'[q] = phase[q]
    BY <1>1, <1>3, PhaseUpdate DEF Phases
  <2>2. OnlyPhaseOf(r) /\ Sends(r, {e})
    BY <1>3, <1>5, <1>6, <1>7, <2>1 DEF OnlyPhaseOf, Sends
  <2>3. \A d \in {e} : Says(d)'
    BY <1>8
  <2> QED
    BY <1>3, <2>1, <2>2, <2>3, TaskFlight
<1>10. ConfigTypeOK'
  BY <1>1, <1>3, <1>9 DEF ConfigTypeOK
<1>11. ApartInv'
  BY <1>1, <1>3, <1>7, <1>9, RequestKinds DEF ApartInv
<1>12. FileInv'
  <2>1. \A t \in Saves : Refused(t) => Refused(t)'
    BY <1>6 DEF Refused
  <2>2. \A t \in Saves : phase[t] = "opened" => phase'[t] = "opened"
    BY <1>3, <1>9, RequestKinds
  <2> QED
    BY <1>1, <1>3, <2>1, <2>2 DEF FileInv
<1>13. KeptInv'
  <2> SUFFICES ASSUME ~overlap, ~save_failed
               PROVE  /\ InTransit' = {r}
                      /\ r \in Loads => LoadKeeps(r)'
                      /\ r \in Saves => SaveKeeps(r)'
    BY <1>3 DEF KeptInv
  <2>1. InTransit = {r}
    BY <1>3, ApartSoFar
  <2>2. ASSUME r \in Loads PROVE LoadKeeps(r)'
    <3>1. LoadKeeps(r)
      BY <1>1, <1>3, <2>1, <2>2 DEF KeptInv
    <3> QED
      BY <1>3, <3>1 DEF LoadKeeps
  <2>3. ASSUME r \in Saves PROVE SaveKeeps(r)'
    <3>1. SaveKeeps(r)
      BY <1>1, <1>3, <2>1, <2>3 DEF KeptInv
    <3> QED
      BY <1>3, <1>7, <3>1 DEF SaveKeeps
  <2>4. r \in Waiting'
    BY <1>5, <1>6, OwnersWaitNext
  <2>5. r \in InTransit'
    BY <2>4 DEF InTransit, InFlight, Tasks
  <2> QED
    BY <1>9, <2>1, <2>2, <2>3, <2>5
<1> QED
  BY <1>9, <1>10, <1>11, <1>12, <1>13 DEF ConfigInv

(* A step that loads and saves do not notice. *)
LEMMA UnnoticedKeeps ==
    ASSUME ConfigInv, LoopTypeOK(Requests, Event)', FlightInv',
           InTransit' = InTransit, exited' = exited,
           \A s \in Saves : Refused(s)' <=> Refused(s),
           UNCHANGED <<current_config, is_loading_snapshot, file, text, phase, seen,
                       intended, acknowledged, overlap, save_failed>>
    PROVE  ConfigInv'
<1>1. ConfigTypeOK /\ FlightInv /\ ApartInv /\ FileInv /\ KeptInv
  BY DEF ConfigInv
<1>2. ConfigTypeOK'
  BY <1>1 DEF ConfigTypeOK
<1>3. ApartInv'
  BY <1>1 DEF ApartInv
<1>4. FileInv'
  BY <1>1 DEF FileInv
<1>5. \A r : LoadKeeps(r)' <=> LoadKeeps(r)
  BY DEF LoadKeeps
<1>6. \A s \in Saves : SaveKeeps(s)' <=> SaveKeeps(s)
  BY DEF SaveKeeps
<1>7. KeptInv'
  BY <1>1, <1>5, <1>6 DEF KeptInv
<1> QED
  BY <1>2, <1>3, <1>4, <1>7 DEF ConfigInv

LEMMA LoginKeeps ==
    ASSUME ConfigInv, NEW l \in Logins \cup CodexLogins, LoginReturns(l)
    PROVE  ConfigInv'
<1>1. ConfigTypeOK /\ FlightInv
  BY DEF ConfigInv
<1>2. PICK ok \in BOOLEAN : SendLast(l, Done(l, "LoginDone", ok))
  BY DEF LoginReturns
<1> DEFINE e == Done(l, "LoginDone", ok)
<1>3. l \notin Tasks /\ e \in Event /\ e.req = l /\ e.kind = "LoginDone"
  <2>1. l \in Requests /\ l \notin Tasks
    BY RequestKinds
  <2> QED
    BY <2>1, DoneIsEvent
<1>4. \A t \in Saves : Done(t, "ConfigSaved", FALSE) # e
  BY <1>3, Refusal
<1> HIDE DEF e
<1>5. /\ l \in running /\ running' = running \ {l} /\ channel' = Append(channel, e)
      /\ UNCHANGED <<issued, outbox, should_quit, exited, current_config, is_loading_snapshot,
                     file, text, phase, seen, intended, acknowledged, overlap, save_failed>>
  BY <1>2 DEF SendLast, LoginReturns, configVars, taskVars, historyVars, e
<1>6. /\ channel' \in Seq(Event) /\ Elements(channel') = Elements(channel) \cup {e}
      /\ \A r : r \in Waiting' <=> r \in Waiting \/ r = l
  BY <1>1, <1>3, <1>5, Sent
<1>7. LoopTypeOK(Requests, Event)'
  BY <1>1, <1>5, <1>6 DEF ConfigTypeOK, LoopTypeOK
<1>8. \A d \in Elements(channel') : Says(d)'
  BY <1>1, <1>3, <1>5, <1>6 DEF FlightInv, Says
<1>9. OneFinal(Elements(channel'))
  BY <1>1, <1>3, <1>6 DEF FlightInv, OneFinal, Final
<1>10. Waiting' \subseteq issued' /\ outbox' \cap running' = {}
  BY <1>1, <1>5, <1>6 DEF FlightInv, ConfigTypeOK, LoopTypeOK
<1>11. \A r \in Tasks : r \in running' <=> r \in running
  BY <1>3, <1>5
<1>12. FlightInv'
  BY <1>1, <1>5, <1>8, <1>9, <1>10, <1>11 DEF FlightInv
<1>13. InTransit' = InTransit
  BY <1>3, <1>5, <1>6 DEF InTransit, InFlight, Tasks
<1>14. \A s \in Saves : Refused(s)' <=> Refused(s)
  BY <1>4, <1>6 DEF Refused
<1> QED
  BY <1>5, <1>7, <1>12, <1>13, <1>14, UnnoticedKeeps

-----------------------------------------------------------------------------
(* The loop. *)
LEMMA LoopKeeps == ASSUME ConfigInv, DispatchCommands \/ EndSession PROVE ConfigInv'
<1>1. ConfigTypeOK /\ FlightInv /\ ApartInv /\ FileInv /\ KeptInv
  BY DEF ConfigInv
<1>2. /\ channel = <<>> /\ channel' = channel /\ issued' = issued /\ outbox' = {}
      /\ UNCHANGED <<should_quit, current_config, is_loading_snapshot, file, text, phase,
                     seen, intended, acknowledged, overlap, save_failed>>
  BY DEF DispatchCommands, EndSession, Dispatch, Leave, configVars, taskVars, historyVars
<1>3. Waiting' = Waiting /\ \A s \in Saves : Refused(s)' <=> Refused(s)
  BY <1>2 DEF Waiting, Refused
<1>4. (\A d \in Elements(channel') : Says(d)') /\ OneFinal(Elements(channel'))
  BY <1>1, <1>2 DEF FlightInv, Says
<1>5. CASE DispatchCommands
  <2>1. running' = running \cup outbox /\ exited' = exited
    BY <1>5 DEF DispatchCommands, Dispatch
  <2>2. LoopTypeOK(Requests, Event)'
    BY <1>1, <1>2, <2>1 DEF ConfigTypeOK, LoopTypeOK
  <2>3. FlightInv'
    BY <1>1, <1>2, <1>3, <1>4, <2>1 DEF FlightInv
  <2>4. InTransit' = InTransit
    BY <1>2, <1>3, <2>1 DEF InTransit, InFlight
  <2> QED
    BY <1>2, <1>3, <2>1, <2>2, <2>3, <2>4, UnnoticedKeeps
<1>6. CASE EndSession
  <2>1. running' = {} /\ exited' = TRUE /\ \A s \in Saves : phase[s] # "opened"
    BY <1>6 DEF EndSession, Leave
  <2>2. LoopTypeOK(Requests, Event)'
    BY <1>1, <1>2, <2>1 DEF ConfigTypeOK, LoopTypeOK
  <2>3. FlightInv'
    <3>1. \A r \in Tasks : phase[r] # "opened"
      BY <1>1, <2>1, RequestKinds DEF FlightInv
    <3> QED
      BY <1>1, <1>2, <1>3, <1>4, <2>1, <3>1 DEF FlightInv
  <2>4. ConfigTypeOK'
    BY <1>1, <1>2, <2>2 DEF ConfigTypeOK
  <2>5. InTransit' \subseteq InTransit
    BY <1>2, <1>3, <2>1 DEF InTransit, InFlight
  <2>6. ApartInv'
    BY <1>1, <1>2, <2>5 DEF ApartInv
  <2>7. FileInv'
    BY <1>1, <1>2, <1>3 DEF FileInv
  <2>8. KeptInv'
    BY <2>1 DEF KeptInv
  <2> QED
    BY <2>3, <2>4, <2>6, <2>7, <2>8 DEF ConfigInv
<1> QED
  BY <1>5, <1>6

LEMMA InitConfig == Init => ConfigInv
<1> SUFFICES ASSUME Init PROVE ConfigInv
  OBVIOUS
<1>1. Elements(<<>>) = {} /\ Reqs(<<>>) = {} /\ <<>> \in Seq(Event)
  BY DEF Elements, Reqs
<1>2. /\ issued = {Startup} /\ running = {Startup} /\ outbox = {} /\ channel = <<>>
      /\ should_quit = FALSE /\ exited = FALSE
      /\ current_config = NoConfig /\ is_loading_snapshot = TRUE
      /\ file \in FilesAtStart /\ text = [s \in Saves |-> {}]
      /\ phase = [r \in Tasks |-> "ready"] /\ seen = [r \in Tasks |-> NoConfig]
      /\ intended = file /\ acknowledged = {} /\ overlap = FALSE /\ save_failed = FALSE
  BY DEF Init, LoopInit, Tasks
<1>3. Startup \in Loads /\ Startup \in Tasks /\ Startup \in Requests
  BY DEF Loads, Tasks, Requests
<1>4. file \in Found /\ file \notin Broken /\ NoConfig \in Found
  BY <1>2, ConfigAssumption, Configs DEF Found
<1>5. ConfigTypeOK
  BY <1>1, <1>2, <1>3, <1>4, Configs DEF ConfigTypeOK, LoopTypeOK, Phases
<1>6. InTransit = {Startup}
  BY <1>1, <1>2, <1>3 DEF InTransit, InFlight, Waiting, Tasks
<1>7. FlightInv
  BY <1>1, <1>2 DEF FlightInv, OneFinal, Waiting
<1>8. ApartInv
  BY <1>2, <1>6, RequestKinds DEF ApartInv
<1>9. FileInv
  BY <1>4 DEF FileInv, Broken
<1>10. KeptInv
  <2>1. LoadKeeps(Startup)
    BY <1>2, <1>3 DEF LoadKeeps
  <2> QED
    BY <1>3, <1>6, <2>1, RequestKinds DEF KeptInv
<1> QED
  BY <1>5, <1>7, <1>8, <1>9, <1>10 DEF ConfigInv

LEMMA NextConfig == ConfigInv /\ [Next]_vars => ConfigInv'
<1> SUFFICES ASSUME ConfigInv, [Next]_vars PROVE ConfigInv'
  OBVIOUS
<1>1. CASE Keys
  BY <1>1, KeysKeep
<1>2. CASE Events
  BY <1>2, EventsKeep
<1>3. ASSUME NEW s \in Saves, SaveStep(s) PROVE ConfigInv'
  BY <1>3, OpenKeeps, FailKeeps, WriteKeeps DEF SaveStep
<1>4. ASSUME NEW r \in Tasks, LoadStep(r) PROVE ConfigInv'
  BY <1>4, ReadKeeps, ReportKeeps DEF LoadStep
<1>5. ASSUME NEW l \in Logins \cup CodexLogins, LoginReturns(l) PROVE ConfigInv'
  BY <1>5, LoginKeeps
<1>6. CASE DispatchCommands \/ EndSession
  BY <1>6, LoopKeeps
<1>7. CASE UNCHANGED vars
  <2>1. UNCHANGED <<issued, outbox, running, channel, should_quit, exited, current_config,
                    is_loading_snapshot, file, text, phase, seen, intended, acknowledged,
                    overlap, save_failed>>
    BY <1>7 DEF vars, loopVars, configVars, taskVars, historyVars
  <2>2. Waiting' = Waiting /\ \A s \in Saves : Refused(s)' <=> Refused(s)
    BY <2>1 DEF Waiting, Refused
  <2>3. LoopTypeOK(Requests, Event)' /\ FlightInv'
    BY <2>1, <2>2 DEF ConfigInv, ConfigTypeOK, LoopTypeOK, FlightInv, Says
  <2>4. InTransit' = InTransit
    BY <2>1, <2>2 DEF InTransit, InFlight
  <2> QED
    BY <2>1, <2>2, <2>3, <2>4, UnnoticedKeeps
<1> QED
  BY <1>1, <1>2, <1>3, <1>4, <1>5, <1>6, <1>7 DEF Next, Tasks

LEMMA ConfigAlways == Spec => []ConfigInv
  BY InitConfig, NextConfig, PTL DEF Spec

-----------------------------------------------------------------------------
(* Every variable keeps to its type, whatever the session does: the file is
   never anything but a configuration, nothing, truncated or mixed up. *)
THEOREM ConfigTypeCorrect == Spec => []ConfigTypeOK
<1>1. ConfigInv => ConfigTypeOK
  BY DEF ConfigInv
<1> QED
  BY <1>1, ConfigAlways, PTL

(* config.toml is unreadable only for a reason: while a save writes it, after
   one has failed, or because two have met. *)
THEOREM FileStaysWhole == Spec => []FileIsWhole
<1>1. ConfigInv => FileIsWhole
  <2> SUFFICES ASSUME ConfigInv PROVE FileIsWhole
    OBVIOUS
  <2>1. FlightInv /\ FileInv
    BY DEF ConfigInv
  <2>2. ASSUME NEW s \in Saves, Refused(s) PROVE phase[s] = "over" /\ s \in Waiting
    <3>1. Done(s, "ConfigSaved", FALSE) \in Elements(channel)
      BY <2>2 DEF Refused
    <3>2. Says(Done(s, "ConfigSaved", FALSE))
      BY <2>1, <3>1 DEF FlightInv
    <3> QED
      BY <3>1, <3>2, Refusal, OwnersWait DEF Says
  <2> QED
    BY <2>1, <2>2 DEF FileInv, FileIsWhole
<1> QED
  BY <1>1, ConfigAlways, PTL

(* A user who lets every command come back loses no edit: once all is quiet,
   the file and the configuration in memory are what the edits have made. *)
THEOREM PatientEditsStay == Spec => []PatientEditsAreKept
<1>1. ConfigInv => PatientEditsAreKept
  BY DEF ConfigInv, KeptInv, PatientEditsAreKept, Quiet
<1> QED
  BY <1>1, ConfigAlways, PTL
=============================================================================
