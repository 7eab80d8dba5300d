-------------------------- MODULE DesktopProvider --------------------------
(* The provider form of the desktop application and what stands behind it: the
   form's handlers (argos-ui/src/workspace/mod.rs), the save in two places, the
   configuration and the keyring, and the assistant that reads both
   (argos-ui/src/backend.rs).  Endpoint, model and key of a form are typed
   together: a version stands for all three, 0 for a preset's defaults. *)
EXTENDS Integers

CONSTANTS
  Presets, Keyless,        \* Keyless: those that are asked without a key (ollama)
  MaxVersions, MaxCrashes  \* bounds

ASSUME PresetsAssumption == Presets # {} /\ Keyless \subseteq Presets /\ "" \notin Presets

VARIABLES
  presets_shown,      \* the snapshot is loaded
  current_provider, form, modal_open, form_test_result,
  save, test, chat,   \* the three tasks; a button is disabled while its task is under way
  config,             \* config.toml
  vault,
  versions, crashes,     \* bounded
  unsure              \* history: presets whose last save did not end well

form_vars == <<presets_shown, current_provider, form, modal_open, form_test_result>>
stored == <<config, vault>>
provider_vars == <<form_vars, save, test, chat, stored, versions, crashes, unsure>>

(* A configuration: the active provider's preset, and an entry per preset. *)
Config(provider, providers) == [provider |-> provider, providers |-> providers]
NoFile == Config("", [p \in {} |-> 0])
Torn == Config("torn", [p \in {} |-> 0])
Entry(version, auth) == [version |-> version, auth_method |-> auth]
NoKey == 0 - 1
NoInput == [preset_id |-> "", version |-> 0]
Input(preset, version) == [preset_id |-> preset, version |-> version]

Idle == [step |-> "idle", input |-> NoInput, config |-> NoFile]
NoChat == [step |-> "idle", preset |-> "", entry |-> Entry(0, "ApiKey"), key |-> NoKey, crossed |-> FALSE]   \* crossed: with a save

(* A configuration of the terminal UI's may be there already. *)
ProviderInit ==
  /\ presets_shown = FALSE /\ current_provider = NoInput /\ form = NoInput /\ modal_open = FALSE /\ form_test_result = ""
  /\ save = Idle /\ test = Idle /\ chat = NoChat
  /\ \/ config = NoFile
     \/ \E p \in Presets, auth \in {"OpenAiOAuth"} :
          config = Config(p, [q \in {p} |-> Entry(0, auth)])
  /\ vault = [p \in Presets |-> NoKey]
  /\ versions = 0 /\ crashes = 0 /\ unsure = {}

Readable == config \notin {NoFile, Torn}
ActiveEntry == config.providers[config.provider]

-----------------------------------------------------------------------------
(* The form. *)

(* get_current_provider; a file that can not be parsed ends the loading. *)
ProviderLoaded ==
  /\ ~presets_shown /\ config # Torn /\ presets_shown' = TRUE
  /\ current_provider' = IF Readable /\ (ActiveEntry.auth_method # "ApiKey" \/ vault[config.provider] # NoKey)
                         THEN Input(config.provider, ActiveEntry.version) ELSE NoInput
  /\ form' = [form EXCEPT !.preset_id = current_provider'.preset_id]
  /\ UNCHANGED <<modal_open, form_test_result, save, test, chat, stored, versions, crashes, unsure>>

OpenPresetForm(p) ==
  /\ presets_shown
  /\ form' = Input(p, IF current_provider.preset_id = p THEN current_provider.version ELSE 0)
  /\ form_test_result' = "" /\ modal_open' = TRUE
  /\ UNCHANGED <<presets_shown, current_provider, save, test, chat, stored, versions, crashes, unsure>>

CloseModal ==
  /\ modal_open /\ modal_open' = FALSE /\ form_test_result' = ""
  /\ UNCHANGED <<presets_shown, current_provider, form, save, test, chat, stored, versions, crashes, unsure>>

InputChanged ==
  /\ modal_open /\ versions < MaxVersions /\ versions' = versions + 1 /\ form' = [form EXCEPT !.version = versions']
  /\ UNCHANGED <<presets_shown, current_provider, modal_open, form_test_result, save, test, chat, stored, crashes, unsure>>

TestConnection ==
  /\ modal_open /\ test = Idle
  /\ test' = [Idle EXCEPT !.step = "asked", !.input = form] /\ form_test_result' = ""
  /\ UNCHANGED <<presets_shown, current_provider, form, modal_open, save, chat, stored, versions, crashes, unsure>>
ConnectionTested ==
  /\ test # Idle /\ test' = Idle /\ form_test_result' = test.input.preset_id
  /\ UNCHANGED <<presets_shown, current_provider, form, modal_open, save, chat, stored, versions, crashes, unsure>>

SaveProvider ==
  /\ modal_open /\ save = Idle
  /\ save' = [Idle EXCEPT !.step = "store", !.input = form] /\ chat' = [chat EXCEPT !.crossed = chat # NoChat]
  /\ UNCHANGED <<form_vars, test, stored, versions, crashes, unsure>>

-----------------------------------------------------------------------------
(* save_provider: the key, then the file, read, truncated and written. *)
(* Defect: One key for all. *)
one_key_ref(preset) == CHOOSE p \in Presets : TRUE
api_key_ref(preset) == preset
SaveGoes(step) == save' = [save EXCEPT !.step = step] /\ UNCHANGED <<form_vars, test, chat, versions, crashes>>
StoreKey ==
  /\ save.step = "store" /\ SaveGoes("read")
  /\ vault' = [vault EXCEPT ![api_key_ref(save.input.preset_id)] = save.input.version] /\ UNCHANGED <<config, unsure>>

provider_config_from_input == Entry(save.input.version, "ApiKey")
Others == IF Readable THEN DOMAIN config.providers \ {save.input.preset_id} ELSE {}
(* Defect: An entry that is there already is kept. *)
Appended ==
  Config(save.input.preset_id, [p \in Others \cup {save.input.preset_id} |->
           IF p \in Others \/ (Readable /\ p \in DOMAIN config.providers) THEN config.providers[p] ELSE provider_config_from_input])
Updated ==
  Config(save.input.preset_id, [p \in Others \cup {save.input.preset_id} |->
           IF p = save.input.preset_id THEN provider_config_from_input ELSE config.providers[p]])
OpenConfig ==
  /\ save.step = "read" /\ config # Torn
  /\ save' = [save EXCEPT !.step = "write", !.config = Updated] /\ config' = Torn
  /\ UNCHANGED <<form_vars, test, chat, vault, versions, crashes, unsure>>
WriteConfig ==
  /\ save.step = "write" /\ SaveGoes("ok")
  /\ config' = save.config
  /\ unsure' = unsure \ {save.input.preset_id} /\ UNCHANGED vault
SaveFails ==
  /\ save.step \in {"store", "read", "write"} /\ SaveGoes("failed")
  /\ unsure' = unsure \cup {save.input.preset_id} /\ UNCHANGED stored

(* Defect: What the form says by now is taken for what was saved. *)
FormSaved ==
  /\ save.step \in {"ok", "failed"} /\ save' = Idle
  /\ IF save.step = "failed" THEN UNCHANGED form_vars
     ELSE /\ current_provider' = form
          /\ modal_open' = FALSE /\ form_test_result' = "" /\ UNCHANGED <<presets_shown, form>>
  /\ UNCHANGED <<test, chat, stored, versions, crashes, unsure>>
ProviderSaved ==
  /\ save.step \in {"ok", "failed"} /\ save' = Idle
  /\ IF save.step = "failed" THEN UNCHANGED form_vars
     ELSE /\ current_provider' = save.input
          /\ modal_open' = FALSE /\ form_test_result' = "" /\ UNCHANGED <<presets_shown, form>>
  /\ UNCHANGED <<test, chat, stored, versions, crashes, unsure>>

-----------------------------------------------------------------------------
(* run_assistant: the configuration, then the key it refers to. *)
AskAssistant ==
  /\ presets_shown /\ chat = NoChat
  /\ chat' = [NoChat EXCEPT !.step = "config", !.crossed = save # Idle]
  /\ UNCHANGED <<form_vars, save, test, stored, versions, crashes, unsure>>
LoadForChat ==
  /\ chat.step = "config"
  /\ chat' = IF Readable THEN [chat EXCEPT !.step = "key", !.preset = config.provider, !.entry = ActiveEntry] ELSE NoChat
  /\ UNCHANGED <<form_vars, save, test, stored, versions, crashes, unsure>>
(* provider_from_config: the terminal UI's logins have no key of the desktop's. *)
provider_from_config ==
  /\ chat.step = "key"
  /\ \/ chat' = NoChat   \* the endpoint does not parse, or the keyring fails
     \/ /\ chat.preset \in Keyless
        /\ chat' = [chat EXCEPT !.step = "sent", !.key = chat.entry.version]
     \/ /\ chat.preset \notin Keyless /\ chat.entry.auth_method = "ApiKey" /\ vault[api_key_ref(chat.preset)] # NoKey
        /\ chat' = [chat EXCEPT !.step = "sent", !.key = vault[api_key_ref(chat.preset)]]
  /\ UNCHANGED <<form_vars, save, test, stored, versions, crashes, unsure>>
ChatAnswered ==
  /\ chat.step = "sent" /\ chat' = NoChat
  /\ UNCHANGED <<form_vars, save, test, stored, versions, crashes, unsure>>

(* The application is closed, or ends by itself, and is started again. *)
Restart ==
  /\ crashes < MaxCrashes /\ crashes' = crashes + 1
  /\ presets_shown' = FALSE /\ current_provider' = NoInput /\ form' = NoInput /\ modal_open' = FALSE /\ form_test_result' = ""
  /\ save' = Idle /\ test' = Idle /\ chat' = NoChat
  /\ unsure' = unsure \cup (IF save.step \in {"store", "read", "write"} THEN {save.input.preset_id} ELSE {})
  /\ UNCHANGED <<stored, versions>>

Form == (\E p \in Presets : OpenPresetForm(p)) \/ CloseModal \/ InputChanged \/ TestConnection \/ SaveProvider
save_provider == StoreKey \/ OpenConfig \/ WriteConfig \/ SaveFails
run_assistant == AskAssistant \/ LoadForChat \/ provider_from_config \/ ChatAnswered
ProviderNext == ProviderLoaded \/ Form \/ ConnectionTested \/ save_provider \/ ProviderSaved \/ run_assistant \/ Restart

ProviderSpec == ProviderInit /\ [][ProviderNext]_provider_vars

-----------------------------------------------------------------------------
(* The configuration never names a provider whose key is not stored, whatever
   fails or ends between the two writes of a save; and once a preset's save has
   ended well, its key, endpoint and model are of one form (backend.rs:305). *)
KeysFitTheConfig ==
  Readable =>
    \A p \in DOMAIN config.providers : config.providers[p].auth_method = "ApiKey" =>
      /\ vault[api_key_ref(p)] # NoKey
      /\ p \notin unsure /\ save.input.preset_id # p => vault[api_key_ref(p)] = config.providers[p].version

(* The provider shown is the one of the file: what was saved, whatever has been
   typed or opened since the save was started (mod.rs:432). *)
ShownProviderIsSaved ==
  presets_shown /\ save.step \notin {"write", "ok"} /\ current_provider # NoInput /\ config # Torn =>
    current_provider = Input(config.provider, ActiveEntry.version)

(* A request carries the key that was saved with the endpoint it goes to,
   though it reads them one after the other, unless a save went on meanwhile or
   had not ended well (backend.rs:384). *)
RequestsUseOneSave ==
  chat.step = "sent" /\ ~chat.crossed /\ chat.preset \notin unsure => chat.key = chat.entry.version
=============================================================================
