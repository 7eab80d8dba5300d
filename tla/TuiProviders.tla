---------------------------- MODULE TuiProviders ----------------------------
(* The providers of the terminal UI (argos-tui/src/app.rs, state.rs): the
   configured ones and the active one among them, the popup that picks one with
   a model, and the catalogues of models that are fetched for them.  TuiConfig
   has the races of saving and loading; here a save is written at some time,
   and what matters is what the configuration says. *)
EXTENDS Integers, Sequences, FiniteSets

CONSTANTS
  Backends,      \* what the user names
  Known,         \* KNOWN_PROVIDERS: those with a default endpoint
  Models,        \* model ids
  OpenRouterIds, \* those that look like ids of OpenRouter's catalogue
  Lists,         \* the catalogues a provider may answer with
  MaxTasks, MaxChanges   \* bounds: tasks in flight, changes of the configuration

ASSUME ProvidersAssumption ==
  /\ {"openrouter", "openai", "codex"} \subseteq Known /\ Known \subseteq Backends /\ "" \notin Backends
  /\ OpenRouterIds \subseteq Models /\ "gpt" \in Models \ OpenRouterIds /\ "" \notin Models /\ Lists \subseteq Seq(Models) \ {<<>>}

VARIABLES
  current_config,   \* at most one configuration
  popup,            \* provider_popup; indexes from 0
  dynamic_models,   \* per backend: for whom its catalogue was fetched, and the ids
  tasks,            \* saves, loads and fetches in flight
  file,             \* config.toml, at most one
  changes,          \* bounded
  unchecked         \* history: a model was taken over without validation

providerVars == <<current_config, popup, dynamic_models, tasks, file, changes, unchecked>>

Provider == [backend : {""} \cup Backends, model : {""} \cup Models, endpoint : BOOLEAN,
             auth_method : {"ApiKey", "OpenAiOAuth", "Codex"}, key : BOOLEAN]
Blank == [backend |-> "", model |-> "", endpoint |-> FALSE, auth_method |-> "ApiKey", key |-> FALSE]
Fetched(backend, ids) == [backend |-> backend, ids |-> ids]
Unknown == Fetched("", <<>>)
Save(c) == [kind |-> "save", config |-> c, for |-> Blank]
Load == [kind |-> "load", config |-> {}, for |-> Blank]
Fetch(p) == [kind |-> "fetch", config |-> {}, for |-> [p EXCEPT !.model = ""]]

(* Configurations: those of a new and of an old file, which has no list. *)
Entry(backend, model) == [backend |-> backend, model |-> model, endpoint |-> TRUE, auth_method |-> "ApiKey", key |-> TRUE]
OldFile(p) == [provider |-> p, providers |-> <<>>]
NewFile(p, q) == [provider |-> q, providers |-> <<p, q>>]

ProvidersInit ==
  /\ current_config = {} /\ popup = [visible |-> FALSE, provider |-> 0, model |-> 0, column |-> "Provider"]
  /\ dynamic_models = [b \in Backends \cup {""} |-> Unknown]
  /\ tasks = {Load, Fetch([Blank EXCEPT !.backend = "openrouter", !.endpoint = TRUE])}
  /\ \E p \in {Entry("openai", "gpt")}, q \in {Entry("openrouter", m) : m \in OpenRouterIds} :
       file \in {{}, {OldFile(p)}, {NewFile(p, q)}}
  /\ changes = 0 /\ unchecked = FALSE

-----------------------------------------------------------------------------
(* The list of providers. *)
ensure_config == IF current_config = {} THEN OldFile(Blank) ELSE CHOOSE c \in current_config : TRUE
Elements(s) == {s[i] : i \in DOMAIN s}
Places(c, backend) == {i \in DOMAIN c.providers : c.providers[i].backend = backend}
FirstOf(places) == CHOOSE i \in places : \A j \in places : i <= j
configured_providers == ensure_config.providers

upsert_configured_provider(c, p) ==
  IF Places(c, p.backend) # {} THEN [c EXCEPT !.providers[FirstOf(Places(c, p.backend))] = p]
                               ELSE [c EXCEPT !.providers = Append(@, p)]
Activate(c, p) == [upsert_configured_provider(c, p) EXCEPT !.provider = p]
sync_active_provider_entry(c) ==
  IF c.provider.backend = "" \/ c.provider.model = "" THEN c ELSE upsert_configured_provider(c, c.provider)
(* Defect: the list keeps what the active provider was before. *)
SetActiveOnly(p) == [ensure_config EXCEPT !.provider = p]
SetActive(p) == sync_active_provider_entry([ensure_config EXCEPT !.provider = p])
without(providers, backend) ==
  LET kept[n \in 0..Len(providers)] ==
        IF n = 0 THEN <<>>
        ELSE IF providers[n].backend = backend THEN kept[n - 1] ELSE Append(kept[n - 1], providers[n])
  IN kept[Len(providers)]
removed(c, backend) ==
  LET rest == without(c.providers, backend) IN
  [providers |-> rest, provider |-> IF c.provider.backend # backend THEN c.provider
                                    ELSE IF rest # <<>> THEN rest[1] ELSE Blank]
normalize_configured_providers(c) ==
  IF c.providers = <<>> /\ c.provider.backend # "" /\ c.provider.model # ""
  THEN [c EXCEPT !.providers = <<c.provider>>] ELSE c

validate_provider_model(backend, model) == backend = "openrouter" \/ model \notin OpenRouterIds

-----------------------------------------------------------------------------
(* Catalogues. *)
HasModels(backend) == dynamic_models[backend].ids # <<>>
get_provider_models(backend) == dynamic_models[backend].ids
(* The table has an endpoint for each but those nobody has heard of. *)
known_provider(backend) == backend \in Known
HasEndpoint(p) == p.endpoint \/ known_provider(p.backend)
queue_models_fetch(p) == IF HasModels(p.backend) THEN {} ELSE {Fetch([p EXCEPT !.endpoint = TRUE])}

selected_configured_provider == {configured_providers[i] : i \in DOMAIN configured_providers \cap {popup'.provider + 1}}
maybe_fetch_models ==
  UNION {queue_models_fetch(p) : p \in {q \in selected_configured_provider :
    HasEndpoint(q) /\ (q.backend \in {"openrouter", "ollama"} \/ q.auth_method = "OpenAiOAuth" \/ q.key)}}
current_provider_models_command(c) ==
  IF HasEndpoint(c.provider) THEN queue_models_fetch(c.provider) ELSE {}

-----------------------------------------------------------------------------
(* Changing the configuration: by a slash command, typed and submitted. *)
Emit(new) == tasks' = tasks \cup new /\ Cardinality(tasks') <= MaxTasks
Store(c, more) ==
  /\ changes < MaxChanges /\ changes' = changes + 1
  /\ current_config' = {c} /\ Emit({Save({c})} \cup more) /\ UNCHANGED <<dynamic_models, file>>

SetProvider(backend, model) ==
  /\ \E i \in Places(ensure_config, backend) : i = FirstOf(Places(ensure_config, backend))
       /\ validate_provider_model(backend, model)
       /\ Store(Activate(ensure_config, [configured_providers[i] EXCEPT !.model = model]), {})
  /\ UNCHANGED <<popup, unchecked>>
AddKnownProvider(backend, model) ==
  /\ HasModels(backend) => model \in Elements(get_provider_models(backend))
  /\ known_provider(backend) /\ validate_provider_model(backend, model)
  /\ Store(Activate(ensure_config, [Entry(backend, model) EXCEPT !.key = backend # "codex"]), {})
  /\ UNCHANGED <<popup, unchecked>>
AddOpenAiOAuthProvider(model) ==
  /\ validate_provider_model("openai", model)
  /\ Store(Activate(ensure_config, [Entry("openai", model) EXCEPT !.auth_method = "OpenAiOAuth", !.key = FALSE]), {})
  /\ UNCHANGED <<popup, unchecked>>
AddCustomProvider(backend, model) ==
  /\ known_provider(backend) => validate_provider_model(backend, model)
  /\ \E key \in BOOLEAN : Store(Activate(ensure_config, [Entry(backend, model) EXCEPT !.key = key]), {})
  /\ UNCHANGED <<popup, unchecked>>
SetModel(model) ==
  /\ Store(SetActive([ensure_config.provider EXCEPT !.model = model]), {})
  /\ unchecked' = TRUE /\ UNCHANGED popup
SetEndpoint == Store(SetActive([ensure_config.provider EXCEPT !.endpoint = TRUE]), {}) /\ UNCHANGED <<popup, unchecked>>
SetKeyRef ==
  Store(SetActive([ensure_config.provider EXCEPT !.key = TRUE, !.auth_method = "ApiKey"]), {}) /\ UNCHANGED <<popup, unchecked>>
RemoveProvider(backend) == Store(removed(ensure_config, backend), {}) /\ UNCHANGED <<popup, unchecked>>

(* A login that succeeded: the active provider's model is taken over. *)
LoggedIn(backend, auth, more) ==
  /\ Store(Activate(ensure_config, [Entry(backend, IF ensure_config.provider.model = "" THEN "gpt" ELSE ensure_config.provider.model)
                                      EXCEPT !.auth_method = auth, !.key = FALSE]), more)
  /\ unchecked' = TRUE
ensure_openai_oauth_provider == UNCHANGED popup /\ LoggedIn("openai", "OpenAiOAuth", {Load} \cup maybe_fetch_models)
ensure_codex_provider == UNCHANGED popup /\ LoggedIn("codex", "Codex", {})

-----------------------------------------------------------------------------
(* The popup. *)
AddSelected == popup.provider = Len(configured_providers)
models_for(p) == IF HasModels(p.backend) THEN get_provider_models(p.backend) ELSE <<p.model>>
Choice == {configured_providers[i] : i \in DOMAIN configured_providers \cap {popup.provider + 1}}
WithModel(p) == [p EXCEPT !.model = IF popup.model < Len(models_for(p)) THEN models_for(p)[popup.model + 1] ELSE @]
selected_popup_provider == {p \in {WithModel(q) : q \in Choice} : validate_provider_model(p.backend, p.model)}
LastModels ==
  IF selected_popup_provider = {} THEN {0} ELSE {Len(models_for(p)) - 1 : p \in selected_popup_provider}

Up(n) == IF n > 0 THEN n - 1 ELSE 0
Down(n, last) == IF n < last THEN n + 1 ELSE last
(* Column and model of a closed popup are read by nobody: opening resets them. *)
Hidden == [popup EXCEPT !.visible = FALSE, !.model = 0, !.column = "Provider"]

ShowProviderPopup ==
  popup' = [visible |-> TRUE, provider |-> 0, model |-> 0, column |-> "Provider"]
  /\ Emit(maybe_fetch_models) /\ UNCHANGED <<current_config, dynamic_models, file, changes, unchecked>>
PopupMove(action) ==
  /\ UNCHANGED <<current_config, dynamic_models, file, changes, unchecked>>
  /\ \/ action = "Up" /\ popup.column = "Provider" /\ popup' = [popup EXCEPT !.provider = Up(@)] /\ Emit(maybe_fetch_models)
     \/ action = "Down" /\ popup.column = "Provider"
        /\ popup' = [popup EXCEPT !.provider = Down(@, Len(configured_providers)), !.model = 0] /\ Emit(maybe_fetch_models)
     \/ action = "Up" /\ popup.column = "Model" /\ popup' = [popup EXCEPT !.model = Up(@)] /\ UNCHANGED tasks
     \/ action = "Down" /\ popup.column = "Model" /\ UNCHANGED tasks
        /\ LET last == CHOOSE n \in LastModels : TRUE IN popup' = [popup EXCEPT !.model = IF @ < last THEN @ + 1 ELSE last]
     \/ action = "Left" /\ popup' = [popup EXCEPT !.column = "Provider"] /\ UNCHANGED tasks
     \/ action = "Right" /\ ~AddSelected /\ popup' = [popup EXCEPT !.column = "Model", !.model = 0] /\ UNCHANGED tasks
     \/ action = "Escape" /\ popup' = Hidden /\ UNCHANGED tasks
PopupSelect ==
  /\ ~AddSelected /\ \E p \in selected_popup_provider : Store(Activate(ensure_config, p), {})
  /\ popup' = Hidden /\ UNCHANGED unchecked
PopupDelete ==
  /\ \E p \in Choice : Store(removed(ensure_config, p.backend), {})
  /\ popup' = Hidden /\ UNCHANGED unchecked

-----------------------------------------------------------------------------
(* The tasks, and what they answer. *)
Written(t) ==
  /\ t.kind = "save" /\ file' = t.config /\ tasks' = (tasks \ {t}) \cup {Load}
  /\ UNCHANGED <<current_config, popup, dynamic_models, changes, unchecked>>
SnapshotLoaded(t) ==
  LET c == {normalize_configured_providers(d) : d \in file} IN
  /\ t.kind = "load" /\ current_config' = c /\ tasks' = (tasks \ {t}) \cup UNION {current_provider_models_command(d) : d \in c}
  /\ UNCHANGED <<popup, dynamic_models, file, changes, unchecked>>
(* fetch_models: with what it would identify itself, if it has that. *)
CanFetch(p) ==
  \/ p.backend \in {"ollama", "openrouter"} \/ p.auth_method = "Codex"
  \/ p.auth_method = "ApiKey" /\ p.key
  \/ p.auth_method = "OpenAiOAuth" /\ p.backend = "openai"
(* Defect: the list is filed under the provider that is active by now. *)
FiledUnderActive(t, ids) ==
  /\ t.kind = "fetch" /\ CanFetch(t.for) /\ tasks' = tasks \ {t}
  /\ dynamic_models' = [dynamic_models EXCEPT ![IF ensure_config.provider.backend = "" THEN t.for.backend ELSE ensure_config.provider.backend] =
                          Fetched(t.for.backend, ids)]
  /\ UNCHANGED <<current_config, popup, file, changes, unchecked>>
ModelsFetched(t, ids) ==
  /\ t.kind = "fetch" /\ CanFetch(t.for) /\ tasks' = tasks \ {t}
  /\ dynamic_models' = [dynamic_models EXCEPT ![t.for.backend] = Fetched(t.for.backend, ids)]
  /\ UNCHANGED <<current_config, popup, file, changes, unchecked>>
Failed(t) ==
  /\ t.kind # "load" /\ tasks' = tasks \ {t}
  /\ UNCHANGED <<current_config, popup, dynamic_models, file, changes, unchecked>>

Command ==
  \/ \E b \in Backends, m \in Models :
       SetProvider(b, m) \/ AddKnownProvider(b, m) \/ AddCustomProvider(b, m)
  \/ \E m \in Models : AddOpenAiOAuthProvider(m) \/ SetModel(m)
  \/ SetEndpoint \/ SetKeyRef \/ \E b \in Backends : RemoveProvider(b)
Answer ==
  \/ ensure_openai_oauth_provider \/ ensure_codex_provider
  \/ \E t \in tasks : Written(t) \/ (\E ids \in Lists : ModelsFetched(t, ids)) \/ Failed(t)

-----------------------------------------------------------------------------
(* The list and the active provider agree (app.rs:1149): the active provider is
   the entry of its backend, and no backend has two, whatever was set, added,
   picked, removed or loaded. *)
ActiveIsListed ==
  \A c \in current_config : Len(c.providers) > 0 =>
    /\ (c.provider.backend # "" /\ c.provider.model # "") => c.provider \in Elements(c.providers)
    /\ \A b \in Backends : Cardinality(Places(c, b)) <= 1

(* No provider is asked for a model of OpenRouter's catalogue (app.rs:1321):
   neither commands nor the popup, with its late catalogues, get one past the
   check.  /model and the logins, which make none, may. *)
ModelFitsProvider ==
  unchecked \/ \A c \in current_config : \A p \in Elements(c.providers) \cup {c.provider} :
                 p.backend \in Known /\ p.model \in OpenRouterIds => p.backend = "openrouter"

(* A catalogue is shown for the provider it was fetched from (app.rs:1994),
   however late it comes and whichever is active by then. *)
CatalogueIsTheBackends == \A b \in Backends : dynamic_models[b].backend \in {"", b}

(* No provider meets the catalogue or the models of another. *)
ModelsFitTheirProvider == ModelFitsProvider /\ CatalogueIsTheBackends
=============================================================================
