------------------------------ MODULE TuiConfig ------------------------------
(***************************************************************************)
(* The configuration of the terminal user interface: the copy AppState     *)
(* edits, the file .argos/config.toml the services read, and the two kinds *)
(* of task that carry one to the other - LoadSnapshot and SaveConfig, which*)
(* reloads once it has saved (argos-tui/src/app.rs, argos-tui/src/         *)
(* services.rs, argos-tui/src/runtime.rs).                                 *)
(*                                                                         *)
(* A configuration is the set of things the user has configured: a         *)
(* provider entry, its model, the n8n address, ...  One command sets or    *)
(* removes one of them; which provider is the active one is not told apart,*)
(* so normalize_configured_providers and sync_active_provider_entry, which *)
(* copy the active entry into the list, change nothing here.  Model        *)
(* fetches, which some handlers also return, touch none of this.           *)
(***************************************************************************)
EXTENDS TuiLoop, FiniteSets

CONSTANTS Edits,             \* the commands of the user that save
          Refreshes,         \* the commands of the user that load
          Startup,           \* the load startup_commands emits
          Logins,            \* device logins, from StartOpenAiLogin to the
                             \* answer: the handlers in between (app.rs:1904)
                             \* change nothing of the configuration
          CodexLogins,       \* StartCodexLogin
          Settings,          \* what the user may configure
          OAuthProvider,     \* the settings the two logins make
          CodexProvider,
          FilesAtStart,      \* what config.toml may hold when the session starts
          NoConfig,          \* no file, or no configuration in memory
          Empty, Garbled,    \* a truncated file; one written over another
          SaveCanFail        \* whether saving may be refused or fail

(* The commands a completed login returns. *)
SaveAfter(l) == <<"save", l>>
LoadAfter(l) == <<"load", l>>

Saves    == Edits \cup {SaveAfter(l) : l \in Logins \cup CodexLogins}
Loads    == {Startup} \cup Refreshes \cup {LoadAfter(l) : l \in Logins}
Requests == Saves \cup Loads \cup Logins \cup CodexLogins
Config   == {S : S \in SUBSET Settings}

(* A request is of one kind. *)
ASSUME RequestAssumption ==
    /\ Saves \cap Loads = {}
    /\ (Saves \cup Loads) \cap (Logins \cup CodexLogins) = {}

ASSUME ConfigAssumption ==
    /\ {OAuthProvider, CodexProvider} \subseteq Settings
    /\ FilesAtStart \subseteq Config \cup {NoConfig}
    /\ NoConfig \notin Config /\ Empty \notin Config /\ Garbled \notin Config
    /\ NoConfig # Empty /\ NoConfig # Garbled /\ Empty # Garbled
    /\ SaveCanFail \in BOOLEAN

VARIABLES current_config,       \* AppState.current_config
          is_loading_snapshot,
          file,                 \* config.toml
          text,                 \* text[s]: the configuration save s carries
          phase,                \* how far a load or save has come
          seen,                 \* seen[r]: what the load in r found
          intended,             \* history: the edits, one after another
          acknowledged,         \* history: settings reported as written
          overlap,              \* history: loads or saves were in flight at once
          save_failed           \* history: a save failed

configVars == <<current_config, is_loading_snapshot>>
taskVars   == <<file, text, phase, seen>>
historyVars == <<intended, acknowledged, overlap, save_failed>>
vars       == <<loopVars, configVars, taskVars, historyVars>>

Done(r, what, result) == [req |-> r, kind |-> what, ok |-> result]

InTransit == {r \in Saves \cup Loads : InFlight(r)}
Quiet == InTransit = {} /\ ~exited

Init ==
    /\ LoopInit({Startup})
    /\ current_config = NoConfig
    /\ is_loading_snapshot = TRUE
    /\ file \in FilesAtStart
    /\ text = [s \in Saves |-> {}]
    /\ phase = [r \in Saves \cup Loads |-> "ready"]
    /\ seen = [r \in Saves \cup Loads |-> NoConfig]
    /\ intended = file
    /\ acknowledged = {}
    /\ overlap = FALSE
    /\ save_failed = FALSE

-----------------------------------------------------------------------------
(* Keys and slash commands *)

(* ensure_config: a blank configuration where none is loaded. *)
ensure_config(c) == IF c = NoConfig THEN {} ELSE c

(* A defect: the command saves the configuration it started from. *)
EditSavesOld(s, config, more) ==
    /\ Emit({s} \cup more)
    /\ current_config' = config
    /\ text' = [text EXCEPT ![s] = ensure_config(current_config)]
    /\ overlap' = (overlap \/ InTransit # {} \/ more \cap Loads # {})

(* The commands that change the configuration keep the result in memory and
   emit SaveConfig with a copy of it, together with the requests `more'. *)
Edit(s, config, more) ==
    /\ Emit({s} \cup more)
    /\ current_config' = config
    /\ text' = [text EXCEPT ![s] = config]
    /\ overlap' = (overlap \/ InTransit # {} \/ more \cap Loads # {})

(* /provider, /model, /endpoint, /n8n, /provider-add ... and the popup's
   selection: set x, and trigger_refresh. *)
SetAndRefresh(s, x) ==
    /\ Key
    /\ Edit(s, ensure_config(current_config) \cup {x}, {})
    /\ is_loading_snapshot' = TRUE
    /\ intended' = ensure_config(intended) \cup {x}
    /\ UNCHANGED <<running, should_quit, exited, file, phase, seen,
                   acknowledged, save_failed>>

(* /key-ref, /n8n-mode, /n8n-key-ref: set x and say so. *)
SetQuietly(s, x) ==
    /\ Key
    /\ Edit(s, ensure_config(current_config) \cup {x}, {})
    /\ intended' = ensure_config(intended) \cup {x}
    /\ UNCHANGED <<running, should_quit, exited, is_loading_snapshot, file,
                   phase, seen, acknowledged, save_failed>>

(* /provider-remove and Delete in the popup. *)
RemoveProvider(s, x) ==
    /\ Key
    /\ Edit(s, ensure_config(current_config) \ {x}, {})
    /\ intended' = ensure_config(intended) \ {x}
    /\ UNCHANGED <<running, should_quit, exited, is_loading_snapshot, file,
                   phase, seen, acknowledged, save_failed>>

(* /provider-add-openai-oauth: add the provider and start the login. *)
AddOAuthProvider(s, l) ==
    /\ Key
    /\ Edit(s, ensure_config(current_config) \cup {OAuthProvider}, {l})
    /\ is_loading_snapshot' = TRUE
    /\ intended' = ensure_config(intended) \cup {OAuthProvider}
    /\ UNCHANGED <<running, should_quit, exited, file, phase, seen,
                   acknowledged, save_failed>>

(* /openai-login, /codex-login and F3. *)
StartLogin(l) ==
    /\ Key
    /\ Emit({l})
    /\ UNCHANGED <<running, should_quit, exited, configVars, taskVars,
                   historyVars>>

(* Action::Refresh and /refresh. *)
Refresh(l) ==
    /\ Key
    /\ ~is_loading_snapshot
    /\ Emit({l})
    /\ is_loading_snapshot' = TRUE
    /\ overlap' = (overlap \/ InTransit # {})
    /\ UNCHANGED <<running, should_quit, exited, current_config, taskVars,
                   intended, acknowledged, save_failed>>

(* Any way to quit. *)
Quit ==
    /\ Key
    /\ should_quit' = TRUE
    /\ NoCommand
    /\ UNCHANGED <<running, exited, configVars, taskVars, historyVars>>

-----------------------------------------------------------------------------
(* Tasks *)

(* services.save_config: the configuration is refused, or the file cannot be
   opened. *)
RefuseSave(s) ==
    /\ SaveCanFail
    /\ phase[s] = "ready"
    /\ phase' = [phase EXCEPT ![s] = "over"]
    /\ SendLast(s, Done(s, "ConfigSaved", FALSE))
    /\ UNCHANGED <<configVars, file, text, seen, historyVars>>

(* A defect: the file is opened without being truncated. *)
OpenInPlace(s) ==
    /\ ~exited
    /\ s \in running
    /\ phase[s] = "ready"
    /\ phase' = [phase EXCEPT ![s] = "opened"]
    /\ UNCHANGED <<loopVars, configVars, file, text, seen, historyVars>>

(* std::fs::write first opens the file and truncates it. *)
OpenFile(s) ==
    /\ ~exited
    /\ s \in running
    /\ phase[s] = "ready"
    /\ phase' = [phase EXCEPT ![s] = "opened"]
    /\ file' = Empty
    /\ UNCHANGED <<loopVars, configVars, text, seen, historyVars>>

(* A defect: the task ends with the save. *)
WriteAndEnd(s) ==
    /\ phase[s] = "opened"
    /\ phase' = [phase EXCEPT ![s] = "over"]
    /\ file' = text[s]
    /\ SendLast(s, Done(s, "ConfigSaved", TRUE))
    /\ UNCHANGED <<configVars, text, seen, historyVars>>

(* Then it writes from the first byte on - what another save has written since
   is replaced, unless it was longer: then its end stays behind - and the task
   reports the save before it goes on to reload. *)
WriteFile(s) ==
    /\ phase[s] = "opened"
    /\ phase' = [phase EXCEPT ![s] = "saved"]
    /\ file' \in {text[s]} \cup (IF file \in {Empty, text[s]} THEN {}
                                                          ELSE {Garbled})
    /\ SendMore(s, Done(s, "ConfigSaved", TRUE))
    /\ UNCHANGED <<configVars, text, seen, historyVars>>

(* The write itself fails: the file stays truncated. *)
FailWrite(s) ==
    /\ SaveCanFail
    /\ phase[s] = "opened"
    /\ phase' = [phase EXCEPT ![s] = "over"]
    /\ SendLast(s, Done(s, "ConfigSaved", FALSE))
    /\ UNCHANGED <<configVars, file, text, seen, historyVars>>

(* services.load_snapshot reads the file before it asks the provider and n8n
   for their status. *)
ReadFile(r) ==
    /\ ~exited
    /\ r \in running
    /\ phase[r] = IF r \in Saves THEN "saved" ELSE "ready"
    /\ phase' = [phase EXCEPT ![r] = "read"]
    /\ seen' = [seen EXCEPT ![r] = file]
    /\ UNCHANGED <<loopVars, configVars, file, text, historyVars>>

(* load_snapshot returns; a file that does not parse is an error. *)
ReportSnapshot(r) ==
    /\ phase[r] = "read"
    /\ phase' = [phase EXCEPT ![r] = "over"]
    /\ SendLast(r, Done(r, "SnapshotLoaded", seen[r] \notin {Empty, Garbled}))
    /\ UNCHANGED <<configVars, file, text, seen, historyVars>>

(* A login ends, in the browser or at the device page. *)
LoginReturns(l) ==
    /\ \E ok \in BOOLEAN : SendLast(l, Done(l, "LoginDone", ok))
    /\ UNCHANGED <<configVars, taskVars, historyVars>>

-----------------------------------------------------------------------------
(* Events of tasks *)

(* AsyncEvent::SnapshotLoaded replaces the configuration in memory. *)
SnapshotLoaded(r, ok) ==
    /\ Receive(Done(r, "SnapshotLoaded", ok))
    /\ is_loading_snapshot' = FALSE
    /\ current_config' = IF ok THEN seen[r] ELSE current_config
    /\ NoCommand
    /\ UNCHANGED <<running, should_quit, exited, taskVars, historyVars>>

(* AsyncEvent::ConfigSaved only reports. *)
ConfigSaved(s, ok) ==
    /\ Receive(Done(s, "ConfigSaved", ok))
    /\ acknowledged' = IF ok THEN acknowledged \cup text[s] ELSE acknowledged
    /\ save_failed' = (save_failed \/ ~ok)
    /\ NoCommand
    /\ UNCHANGED <<running, should_quit, exited, configVars, taskVars,
                   intended, overlap>>

(* AsyncEvent::OpenAiLoginCompleted(Ok): the provider is added, then saved
   and reloaded by two commands at once. *)
OpenAiLoginCompleted(l) ==
    /\ Receive(Done(l, "LoginDone", TRUE))
    /\ Edit(SaveAfter(l), ensure_config(current_config) \cup {OAuthProvider},
            {LoadAfter(l)})
    /\ intended' = ensure_config(intended) \cup {OAuthProvider}
    /\ UNCHANGED <<running, should_quit, exited, is_loading_snapshot, file,
                   phase, seen, acknowledged, save_failed>>

(* AsyncEvent::CodexLoginCompleted(Ok). *)
CodexLoginCompleted(l) ==
    /\ Receive(Done(l, "LoginDone", TRUE))
    /\ Edit(SaveAfter(l), ensure_config(current_config) \cup {CodexProvider}, {})
    /\ intended' = ensure_config(intended) \cup {CodexProvider}
    /\ UNCHANGED <<running, should_quit, exited, is_loading_snapshot, file,
                   phase, seen, acknowledged, save_failed>>

(* A login that failed is only reported. *)
LoginFailed(l) ==
    /\ Receive(Done(l, "LoginDone", FALSE))
    /\ NoCommand
    /\ UNCHANGED <<running, should_quit, exited, configVars, taskVars,
                   historyVars>>

-----------------------------------------------------------------------------
(* The loop *)

DispatchCommands == Dispatch /\ UNCHANGED <<configVars, taskVars, historyVars>>

(* The runtime lets a task finish the stretch it is executing before it drops
   it, and a file is opened and written in one. *)
EndSession ==
    /\ Leave
    /\ \A s \in Saves : phase[s] # "opened"
    /\ UNCHANGED <<configVars, taskVars, historyVars>>

Keys ==
    \/ \E s \in Edits, x \in Settings :
        \/ SetAndRefresh(s, x)
        \/ SetQuietly(s, x)
        \/ RemoveProvider(s, x)
    \/ \E s \in Edits, l \in Logins : AddOAuthProvider(s, l)
    \/ \E l \in Logins \cup CodexLogins : StartLogin(l)
    \/ \E l \in Refreshes : Refresh(l)
    \/ Quit

Events ==
    \/ \E r \in Saves \cup Loads, ok \in BOOLEAN : SnapshotLoaded(r, ok)
    \/ \E s \in Saves, ok \in BOOLEAN : ConfigSaved(s, ok)
    \/ \E l \in Logins : OpenAiLoginCompleted(l)
    \/ \E l \in CodexLogins : CodexLoginCompleted(l)
    \/ \E l \in Logins \cup CodexLogins : LoginFailed(l)

SaveStep(s) ==
    RefuseSave(s) \/ OpenFile(s) \/ WriteFile(s) \/ FailWrite(s)

LoadStep(r) == ReadFile(r) \/ ReportSnapshot(r)

Next ==
    \/ Keys
    \/ Events
    \/ \E s \in Saves : SaveStep(s)
    \/ \E r \in Saves \cup Loads : LoadStep(r)
    \/ \E l \in Logins \cup CodexLogins : LoginReturns(l)
    \/ DispatchCommands
    \/ EndSession

Spec == Init /\ [][Next]_vars

(* Spawned tasks are polled to their end - file access does not block and the
   status checks of load_snapshot are assumed to return - and so is the loop.
   A login may wait for the user for as long as it likes. *)
Fairness ==
    /\ WF_vars(Events)
    /\ \A s \in Saves : WF_vars(SaveStep(s))
    /\ \A r \in Saves \cup Loads : WF_vars(LoadStep(r))
    /\ WF_vars(DispatchCommands)
    /\ WF_vars(EndSession)

FairSpec == Spec /\ Fairness

-----------------------------------------------------------------------------
(* Properties *)

(* A user who lets every command come back before giving the next one loses
   nothing: once all is quiet, the file, the configuration in memory and the
   edits agree - also after /refresh, quiet edits and Codex logins. *)
PatientEditsAreKept ==
    Quiet /\ ~overlap /\ ~save_failed =>
        file = intended /\ current_config = intended

(* config.toml is unreadable only for a reason: truncated while a save is
   writing it or since one failed, mixed up when two saves met. *)
FileIsWhole ==
    /\ file = Empty => \/ \E s \in Saves : phase[s] = "opened"
                       \/ save_failed
                       \/ \E s \in Saves : phase[s] = "over" /\ s \in Waiting
    /\ file = Garbled => overlap

(* "Refreshing status..." (app.rs:976) ends: the loading flag is lowered,
   whatever else was started meanwhile.  After a failed save it may stay up for
   good: only a save that succeeds goes on to reload (runtime.rs:174). *)
LoadingEnds == is_loading_snapshot ~> ~is_loading_snapshot \/ exited \/ save_failed

(* "Configuration written to .argos/config.toml." (app.rs:1858): what was
   reported as written is in the file once all is quiet, unless the user
   removed it.  The code violates this when two saves overtake each other or a
   stale snapshot is edited. *)
WrittenSettingsStay ==
    Quiet /\ acknowledged # {} =>
        /\ file \notin {NoConfig, Empty, Garbled}
        /\ acknowledged \cap intended \subseteq file

=============================================================================
