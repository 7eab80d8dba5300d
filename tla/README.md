# Verification of ArgOS

TLA+ specifications of ArgOS (a Rust workspace of thirteen crates: an AI agent with
a knowledge wiki, n8n workflow automation, a terminal UI and a desktop UI), model-checked
with TLC and, where it matters most, proved with TLAPS.

Every definition is a translation of the source; `PROJECT.json` maps each to its lines, lists the
hazards of the code with the properties that watch them, and gives for every property a bug that
the property finds.

## 1. The system

### 1.1 Components

| component | crate and files | state it keeps | operations | hard behaviour | what makes it correct | status |
|---|---|---|---|---|---|---|
| event loop | `argos-tui/runtime.rs` | one unbounded channel, the commands of the batch, spawned tasks | `run`, `process_event`, `dispatch_commands`, `autosave_session` | tasks answer in any order; quitting abandons them | every command is dispatched and reported; what was delivered is saved | modelled |
| terminal | `argos-tui/runtime.rs` | modes of the terminal, the key thread and its stop flag, the panic hook and its mutex | `enter`, `draw`, the drops | refused calls half-way, panics in any thread, two locks | the terminal is given back, and the UI ends | modelled |
| session | `argos-tui/app.rs`, `state.rs` | `is_submitting_prompt`, `is_running_workflow`, `esc_last_press`, transcript, tokens | keys (`handle_action`), results (`handle_async`) | late answers of cancelled prompts, the 800 ms window | the flags tell the truth about tasks they do not see | modelled |
| configuration | `argos-tui/app.rs`, `services.rs` | `current_config`, `is_loading_snapshot`, `config.toml` | slash commands, popup, logins; `load_snapshot`, `save_config` | a copy in memory, a file, and tasks that carry one to the other unordered | edits are kept, the file is readable, the flag is lowered | partly |
| focus, composer, popups, palette, catalogues | `argos-tui/app.rs`, `composer.rs`, `commands.rs`, `keymap.rs`, `state.rs` | focus, hidden panes, text and selection, selected entries, models per provider | keys, slash commands, late fetches | indices into lists that tasks replace; commands written down twice | the composer is a text field, nothing selected is missing, a model fits its provider | partly |
| drawing | `argos-tui/ui.rs` | none | `render` | none | - | not modelled |
| OAuth | `argos-tui/services.rs` | token JSON and API key in the vault | device login, refresh, Codex login | polling against a deadline, two refreshes of one token, one port | the vault holds a token the server takes, of the last login | modelled |
| desktop workspace | `argos-ui/workspace/mod.rs`, `services.rs`, `backend.rs` | active document, editor, `saved_text`, busy flags; the provider form | `update` on messages, one task each | messages of old tasks meet newer state; a save in two places | typed text is not lost, a file gets its own text, key and configuration fit | partly |
| secret vault | `argos-security/vault.rs` | keyring entries; long secrets in chunks under a marker | store, retrieve, delete | several entries are one secret; crash, concurrency | a map from keys to secrets | modelled |
| audit log | `argos-security/audit.rs` | SQLite table, hash chain | record, query, verify_chain | select and insert are two statements | the chain verifies; tampering shows | modelled |
| permission gate | `argos-security/permission.rs` | set of grants | check, grant, revoke | none | default deny | modelled |
| agent, tools | `argos-agent/generic_agent.rs`, `registry.rs` | `AgentState`, invocations | run, reset | iteration limit, errors in the middle, reuse | legal life cycle; every invocation recorded | modelled |
| providers | `argos-provider/aisdk_provider.rs` | none between calls | complete, embed, health check | a stream cut anywhere | the text is what the stream says | partly |
| n8n | `argos-n8n-connector`, `argos-mcp/n8n_adapter.rs` | run mirror | run_workflow, polling, switching, import | which execution was mine; retries; fallback | a run is started once, and its report is true | modelled |
| wiki on disk | `argos-knowledge`: `ingest`, `bundle`, `raw`; `importer.rs` | concept files, `index.md`, `log.md`, raw sources | ingest, import | several files per ingest, nothing locked | the index names every page; one page per workflow | modelled |
| wiki as text and graph | `argos-knowledge`: `parser`, `links`, `lint`, `query` | none | parse, write, lint, select | many spellings of one link | pages survive being written; lint sees what was meant | partly |
| vectors | `reindex.rs`, `argos-workflow-intelligence`, `argos-storage/vector.rs` | a vector per page | three reindexers, recommend | pages change while they are embedded | fresh after a reindex; what is reused is what was ranked | modelled |
| MCP | `argos-mcp` | session state, exposed tools, pipes | connect, call_tool, handle_message | answers are matched by order alone | no call without permission and audit | modelled |
| key-value table, blobs | `argos-storage` | SQLite, files | get, put | none: called by nothing but tests | - | not modelled |
| WASM, CLI, facade, scripts | `argos-wasm`, `argos-cli`, `argos-lib`, `argos-core`, `scripts` | none | - | none | - | not modelled |

### 1.2 How they interact

The terminal UI owns `AppState`. Keys and results of tasks reach it through one channel; its
handlers return commands, which the loop spawns as tasks that call `AppServices`. The services
read `config.toml`, take secrets or bearers from the vault, build a provider and an agent (or an n8n
connector), and send one result event - `SaveConfig` sends two. The desktop UI has the same
shape with iced's `Task::perform` in place of the channel. The two front ends share the file and
the keyring, and nothing locks either. An agent asks a provider and calls tools of its registry; the
MCP server offers such tools to others, the MCP client makes tools of another server available,
and both ask the permission gate before and write the audit log after. Ingest and import write the
wiki's files; lint, query, the reindexers and the recommendation read them.

## 2. Modules

| module | models | composes |
|---|---|---|
| `TuiLoop` | the event loop, common to the two modules below | - |
| `TuiSession` | prompts, cancellation, workflow runs, end of session | extends `TuiLoop` |
| `TuiConfig` | configuration in memory and on disk | extends `TuiLoop` |
| `TuiTerminal` | the terminal: entered, run in, left; keys' thread, panics | - |
| `TextField` | what a composer promises | - |
| `Composer` | the buffer: rows, columns, selection | - |
| `TuiCommands` | parser, palette table, suggestions | - |
| `TuiInput` | keys, panes, composer, palette, workflow list | extends the two above, instance of `TextField` (refinement) |
| `TuiProviders` | configured providers, popup, catalogues of models | - |
| `TuiShell` | who gets a key; answers between keys | extends `TuiInput`, `TuiProviders` |
| `OAuthTokens` | logins, bearers, refreshes, server and clock | - |
| `SecretVault` | what a vault promises to one caller | - |
| `KeyringVault` | the vault over the keyring | instance of `SecretVault` (refinement) |
| `DesktopWorkspace` | the desktop's documents, editor, saves, runs, assistant | - |
| `DesktopProvider` | the desktop's provider form, its save in two places, its readers | - |
| `AuditChain` | the audit log | - |
| `McpCalls` | MCP server and client, gate and pipes | extends `AuditChain`, whose steps it makes |
| `AgentLoop` | the loop of an agent | - |
| `AisdkProvider` | one completion, and the Codex stream | - |
| `N8nRun` | running, editing and switching workflows; the mirror | - |
| `Wiki` | ingest and import over the files | - |
| `WikiVectors` | reindexing and recommendation | extends `Wiki` |
| `OkfText` | a page as text | - |
| `OkfBundle` | pages as a graph: links, relations, lint, query | - |
| `TuiSession_proofs`, `TuiConfig_proofs`, `N8nRun_proofs` | theorems | extend their module |
| `TuiShell_proofs` | theorems on providers, input, composer and terminal | extends `TuiShell`, `TuiTerminal` |
| `McpCalls_proofs` | theorems on the audit log and on the calls over it | extends `McpCalls` |
| `Secrets_proofs` | theorems on the keyring vault and on tokens | extends `KeyringVault`, `OAuthTokens` |
| `Desktop_proofs` | theorems on workspace, provider form, the loop of an agent and its answers | extends `DesktopWorkspace`, `DesktopProvider`, `AgentLoop`, `AisdkProvider` |
| `Wiki_proofs` | theorems on the wiki, its imports and vectors, its text and its graph | extends `WikiVectors`, `OkfText`, `OkfBundle` |
| `MC...` | constants, bounds and compositions of the instances TLC checks | extend their modules |

A definition whose comment begins with "Defect:" (or "A defect:") is not part of a model: it is the
definition below it with a plausible bug, and `PROJECT.json` names the property that notices it.
Variables called history (in each module's list) are read by properties and by no guard.

### 2.1 TuiLoop, TuiSession, TuiConfig

A request is one `Command`. It waits in `outbox` (the `commands` vector of the batch), is a task
in `running` from `dispatch_commands` until it has sent its last event, and its event waits in
`channel`. `Dispatch` and `Leave` need an empty channel because the loop drains it with
`try_recv` first. Keys are not kept in the channel: a key carries nothing that could become
stale, so handling it when it is taken covers every place it could have had. Leaving drops the
outbox and the tasks, as the end of the runtime does.

`TuiSession` has one action per handler arm of `handle_action` and `handle_async` that touches a
conversation. Prompts and runs are model values, one per submission. A failed autosave is a choice in
`Quit`.

In `TuiConfig` a configuration is the set of things configured. Commands that set something are
`SetAndRefresh` (those that call `trigger_refresh`), `SetQuietly` (those that do not),
`RemoveProvider` and `AddOAuthProvider`. `std::fs::write` is two steps, truncation and write,
because other tasks and `load_snapshot` run between them on the multi-threaded runtime. The three
handlers of a device login between its start and its answer are one request: they change nothing
of the configuration.

`TuiTerminal` is the other half of `run`: the program counter `main_at` goes through
`TerminalSession::enter` (a refused call drops the armed guard, `GiveUp`), the loop, and the drops in
the order in which Rust makes them: `InputThread` (`StopInput`, `JoinInput`), then `TerminalSession`
(`DropSession`, `LockHook`, `SetPreviousHook`). `Panic` runs the hook in the thread that panics. The lock
of the standard library around the hook and its refusal of `set_hook` in a panicking thread are external:
`in_hook` and `PanicAgain`. The loop's own events are those of `TuiLoop`; here only `should_exit` is
left of them.

### 2.2 Composer, TextField, TuiCommands, TuiInput

`Composer` translates the buffer's methods as operators over `[lines, row, col, anchor]`. A symbol is
a model value, and so is a word: a text is a sequence of words, enough to tell commands, arguments
and prompts apart. `TuiCommands` has the command grammar twice, as the code has it: `Arms` from
`parse_slash_command`, `COMMANDS` from the table of the palette; `Extends` lists which words begin
others, which is what a prefix search sees. `TuiInput` maps keys to actions (`map_key`: one meaning
in the composer, another elsewhere) and actions to changes of focus, panes, composer, palette and
workflow selection. Its refinement mapping reads the buffer as one text: `Text`, the `offset` of the
cursor and of the anchor.

### 2.3 TuiProviders, TuiShell

One action per command, popup key and answer that changes the configured providers, the popup or
the catalogues. `current_config` and `file` are sets of at most one configuration; `tasks` are saves,
loads and fetches in flight, each with what it carries. The races of a save itself belong to
`TuiConfig`; here it is written at some moment. `TuiShell` is the first three lines of
`handle_action`: the popup takes the key, else the palette, else the rest; and a snapshot's answer moves
both halves in one step. A slash command typed and submitted is one step, `Submitted`.

### 2.4 OAuthTokens

`req` are calls of `provider_bearer_token` (or the same match in `fetch_models`), one step between
two awaits: `ReadKey`, `retrieve_openai_oauth_bearer`, `Refresh`, `StoreRefreshed`. `login` are
device logins (`PollLoop`, `Sleep`, `poll_device_authorization`, `EndSlowDown`) and Codex logins
(`StartCodex` binds the port, `Callback` is the browser, `TimeOut`). A token knows its login, its
generation and two expiries, the one the client computed and the true one. The server (`grant`) takes a
refresh token only of the live generation. `Tick` lets time pass only while nothing is due; bounded
network delay is `MaxDelay`. That the vault is one step here is what `KeyringImplementsVault` says.

### 2.5 SecretVault and KeyringVault

`SecretVault` states the promise of the trait for one caller, as calls with a beginning and an
end. `KeyringVault` is the code for one key: the entry `main` and the entries `chunks`, one step
for each call of the keyring (`Look`, `DropChunk`, `StoreChunk`, `StoreMain`, `DeleteMain`,
`RetrieveMain`, `RetrieveChunk`). `Abort` is a refused call or the end of the process: the call
is over, what it wrote stays. A refused call of the keyring is taken to have had no effect. Keys
are not modelled beyond one, because their entries have different names. A secret is a model
value with a number of pieces; pieces know their secret, so a mixture is recognised (`Meaning`).

### 2.6 DesktopWorkspace and DesktopProvider

One action per message of `WorkspaceApp::update`, and the guards the view puts on the buttons:
`SaveActiveFile`, `RunWorkflow`, `SendChat`, `TestConnection` and `SaveProvider` check little or nothing
themselves, `view.rs` disables their buttons. The models take the view to be redrawn between two
presses, as iced does unless two clicks arrive in one batch. A task's answer is kept until `update`
handles it, in any order. In the first, a text is a set of edits, each labelled with the file it was
made in. In the second, a form is a preset and a version that stands for endpoint, model and key typed
together; `save_provider` is `StoreKey`, `OpenConfig` (read, then truncate), `WriteConfig`;
`run_assistant` reads the configuration and then the key; `Restart` ends the process anywhere.

### 2.7 AuditChain and McpCalls

`MakeEntry` is the caller that stamps an entry, `SelectLast` and `Insert` the two statements of
`record`; the mutex of a connection is the guard `Unlocked`. `Tamper` changes a stored row behind
the log's back, as the tests do. The hash is the sequence of all that was hashed, hence free of
collisions. `verify_chain` and `query` are operators over the table.

`McpCalls` has one record per task: which side it calls, where it is, what it learnt. `Check` is
the gate (a denial is recorded and answered), `Invoke` the registry, `Send` and `Read` the client's
call over the pipe, whose answers it takes in order without looking at their id; `Connect`,
`ReadInitialize` and `ReadTools` are `connect`. `Leave` is a caller that gives up and lets its answer
stay in the pipe. `Answer` is the other server (external), which may answer with errors.

### 2.8 AgentLoop and AisdkProvider

`run` borrows the agent exclusively, so its steps are those between two awaits: `Think` (the model
is asked), `Answer` / `CallTool` / `ProviderFails` (it answers), `ToolReturns`. What the model says
is reduced to what `parse_response` makes of it. A tool the registry does not know returns an
error and is not recorded. `Resets` says whether callers reset an agent they run again; today's
callers build a new one for each prompt.

In `AisdkProvider` a completion picks its interface and address (`api_style`, `responses_url`), and
either gets a body or reads a stream. A stream is a sequence of marks - a line end, `data:`,
`[DONE]`, a text - and arrives in pieces of any size; `read` is the loop over the buffer and `read_event`
that over the lines of an event, both recursive functions along the marks.
`MCAgentLoop` puts the completion between the agent's question and its answer.

### 2.9 N8nRun

A run is several requests: `GetWorkflow` reads the definition for its webhook
(`extract_webhook_path`), `PostWebhook` starts it, then `WebhookAnswers` and `QueryOnce`, or `Poll`,
learn which execution it was (`parse_latest_execution`). `Probe` is the connector's health gate,
`CallTool` the adapter's MCP call with its fallback. n8n and its other users are the environment:
they start, edit and switch workflows between any two requests, and any answer may be lost.

### 2.10 Wiki and WikiVectors

A page is a file, by path. `WriteConcept` and `WriteIndex` are two steps each, truncation and write;
`ReadIndex` is a step of its own. `Stop` ends an operation anywhere and leaves what was half written.
`unique_path` is the code's: it looks at the first path and not at the second. A vector is the page it
was made of, and similarity may rank any workflow's page first.

### 2.11 OkfText and OkfBundle

A line is one of the kinds the parser tells apart, with or without `\r`; YAML (external) is its
round trip. A link is the sequence of its components, with `.` and `..`, as authors write it;
`meant` is the history of what they meant. `Within` says which paths occur in others as strings,
which is how lint looks for a page in `index.md`. That a query sorts by score, keeps the order of equals
and takes the first few is said by counting: the i-th page is the one with i - 1 pages before it
(`Ahead`). `ListingAssumption` says what a listing of directories yields: no name is `.` or `..`, and no
path comes twice.

## 3. Runs

| run | instance | shows |
|---|---|---|
| `session` | 2 prompts, 2 workflow runs | flags tell the truth, nothing delivered is lost, every request is reported and the session ends |
| `config` | two of an edit, a refresh, a Codex login, a device login (edit and device login only at once), and the start-up load; saves may fail | "loading" ends, a patient user keeps the edits, the file is whole |
| `config_overtaken` | two edits; saves succeed | violation: a setting reported as written is gone |
| `shell` | 2 symbols, texts of 2, 2 workflows, 4 providers, 2 models, 2 tasks, 1 change; beside it the terminal with 2 tasks that may panic | the composer is a text field; nothing selected is stale; the palette parses; the active provider is listed with a model of its own; the terminal is given back |
| `oauth` | 2 requests, 2 logins of either kind, 4 seconds, a rotating server; below, 1 caller, 4 secrets, failures | no token is lost, no expired bearer is used, no approval missed; the keyring implements the vault |
| `vault_crash` | the vault alone | violation: part of a secret is answered as a secret |
| `desktop` | 2 files, a workflow, 2 tasks at once, 1 edit; 2 presets, 2 forms, 1 crash | texts do not mix, saved text is kept; key, configuration and display fit |
| `agent` | limits 0 to 3, 2 tools, 1 unknown, 2 runs with resets; streams of 8 marks in pieces of 3 | trail, limit, termination; a stream is read whole |
| `n8n` | 2 workflows, 3 definitions, 1 call, 2 acts of others, 2 polls | one start per transport, true reports, every call ends |
| `mcp` | 3 tasks, one process, 1 known and 1 unknown tool, 1 modification | gate, audit, verdict, whose answer it is |
| `knowledge` | 2 writers, 1 reader, 2 sources, 2 workflows of one name, 1 page by hand; texts of 5 lines; 3 pages, 3 changes | index, pages, vectors and recommendations agree; pages survive being written; lint, relations and queries |
| `wiki_overwrites` | one import of 3 workflows | violation: one page is written over another |

What the properties say is in the comment before each. Some are conjunctions of named parts that
answer one question (`BusyFlagsAreTrue`, `TranscriptIsKept`, `NothingIsStale`, `AccountsKeepApart`,
`PagesAreListed`); `PROJECT.json` has a bug for each property. Several say "unless" and then name a
history variable: these are the ways in which the code does break the plain statement, listed as
hazards, and the property says that there is no other way.

Composition at rest. `shell`, `oauth`, `desktop` and `knowledge` put modules side by side that share no
variable: a behaviour moves one of them while the others rest in their initial states. That loses
nothing, for no action of one is enabled or disabled by another, and none of the properties mentions
two of them. (`agent` and `mcp` are different: there the modules interact and move together.)

Why the bounds are enough. Session: a late answer of a cancelled prompt needs that prompt and a
newer one; "one workflow at a time" needs two. Configuration: every property about order relates
at most two saves, or a save and a load, and the start-up load is always there besides; `MaxStarted`
holds back keys only, to which no fairness applies. Shell: a selection across a line end needs two
symbols and a line end, a stale index needs a list that shrinks from two to one; `Apart` does not follow
an edited text, a walk through the panes and a configuration that changes when they come together,
which touch different variables but for the snapshot. Terminal: one task that panics meets
every step of the main thread, a second one meets the first in the hook. OAuth: two refreshes of one token, or a refresh
and a login; four seconds hold a deadline, an interval and a slow-down. Vault: two secrets of equal
length, one shorter and one longer than them are all the ways in which new pieces can lie over old
ones. Desktop: the properties relate two tasks and one edit made between them, or one save and one
reader of what it writes; tasks may follow one another without end. Agent: the limits 0 and 1 are the
edges of the loop; eight marks hold two events of which one is cut in its end. n8n: a wrong execution
needs one other start; a changed definition one edit. MCP: two calls on one pipe, and a third that
connects. Wiki: a lost line needs two ingests, a second page two imports. Texts: five lines hold two
delimiters, a mapping and a body with dashes. Graph: three pages hold a link up, a link down and a
page whose path ends in that of another.

Symmetry is used over tasks, requests and logins, which the specifications treat alike, and in no run
that checks liveness.

Deadlock checking is off, but in `vault_crash`, because the systems may stop: a session ends, tasks record
once, calls and changes are bounded, a desktop whose workspace did not load has nothing to do.

Fairness. Session and configuration: the loop is polled again, spawned tasks are polled to their
end, and calls to providers and n8n return. The HTTP clients have no timeout of their own, so this
is an assumption about the network, not a consequence of the code. Logins may wait for ever; no
fairness is assumed of keys. Terminal: threads run, a poll ends after its 100 ms, and a lock that stays free is
taken; a lock that is held is not assumed to be released. Agent: the provider, its stream and the tools answer in the end, well or
badly, for the same reason. n8n: a call takes its next step, and n8n runs what it has started to an
end; that a trigger is ever registered is not assumed, which is why the polls must run out. All
other runs state safety only.

What the violations show is in `findings`. Met on the way and not turned into runs: a panic of the
main thread restores the terminal but then hangs the process, because dropping `TerminalSession` calls
`set_hook` in a panicking thread while it holds the mutex the hook asks for (`runtime.rs:411`); a task that
panics at that moment hangs it too; a task's panic at any other time takes the terminal away from the running
UI (`runtime.rs:382`); with two callers
a retrieve may read pieces of two secrets; pieces of a failed store survive a later delete; a command
given before the first snapshot saves a blank configuration (`ensure_config`); a failed save reloads
nothing, so the loading flag stays up until a restart or another save; a call of an unknown tool leaves no
record in the agent's output, though `generic_agent.rs:12` speaks of every invocation; an execution
polled for may be an earlier one of the same workflow (`client.rs:451`); Enter in a popup opened from
another pane than the composer is not mapped to anything (`keymap.rs:73`), although the popup's
footer says so (`ui.rs:750`).

## 4. Proofs

Every theorem is about the specification of its component with any values of its constants: any sets
of tasks, files, workflows, tools, requests or logins, any limits. The bounds of the runs (`MaxTasks`,
`MaxPolls`, `MaxEdits` ...) are constants like the others. What is assumed are the ASSUMEs of the
modules, and the hypotheses named below; TLC evaluates the first on every run. Besides the invariants
below each component's type invariant is proved. Hardly a safety
invariant is inductive as it stands; what each needed besides is said below.

`TuiSession_proofs`: `BusyFlagsAreTrue` (one workflow in flight, the pending prompt is the latest, Escape
aims at it) and `TranscriptIsKept`. `Inv` adds `OnePlace`: a request in flight was issued, is in exactly
one of outbox, running and channel, and has at most one event in the channel. It is needed because
`WorkflowCompleted` lowers the flag: that is right only if the handled event was the last trace of the
run. `PendingPromptIsLatest` is in turn what makes `TypeOK` inductive, since a cancellation notes
`latest`. For the transcript, `KeptInv` says that without cancellations the pending prompt is the only
one in flight and its question the last entry, and that an answer delivered is still in the channel or
was charged and told; the counter of tokens is the cardinality of the second kind. The assumptions
are those of `SessionAssumption`: prompts and runs are different, and `None` is no prompt.

`TuiConfig_proofs`: `FileIsWhole` and `PatientEditsAreKept`. `FlightInv` follows a save or a load to its
end: where it is, what its phase says, that it sends one final event. `ApartInv` says that while loads
and saves have never met there is one of them at most, and a file opened by it is still truncated;
`KeptInv` what this one carries: a load finds the edits, a save has them in `text` and, once written,
in the file. That a save over is not the same as a save reported (`Refused`) is what
makes the quiet state right: the failure may still wait in the channel. `RequestAssumption`: no
request is of two kinds.

`Secrets_proofs`, vault: the refinement `KeyringImplementsVault` for one client and any set of
secrets of any lengths. While a write is under way the abstract vault holds `Damaged`, so only
the ends of calls matter. What makes them right is `Written` (a store that has reached its
marker has written every piece of its secret), `Gathered` (a retrieve under way has collected
what the entries hold, so that its answer is what `Readable` says) and `Replacing` (what a write
that fails can leave is the old secret, the new one or damage). That a row of pieces stands for at
most one secret is a lemma.

`Secrets_proofs`, tokens: `StoredTokenIsLive`, `AccountsKeepApart`, `BearerIsGood`, `ApprovalIsSeen`.
`TokensInv` says that only a login that has stored its token has one in the vault or in a request
(`HeldInv`), that what was answered is the live generation, newer than every other token of its
login if the server rotates (`NewestInv`), that a stored expiry is at most `MaxDelay` too late
(`GoodInv`), and that one Codex login holds the port (`PortInv`). `SeenInv` adds that no sleeper
oversleeps, so an approval that a poll missed is at most one interval old. The assumption that does the
work is `MaxDelay <= SKEW`: no answer travels longer than the refresh skew.

`McpCalls_proofs`: `Verdict`, over one connection `verify_chain` is true exactly when the
table holds what was recorded, for any number of tasks, failures and modifications. The
invariant: the hashes of the table are those of what was recorded (`Chained`), a task that has read
the last hash still holds the last one (`ReadIsLast`), and only one task has (`OneReader`), which is
where the single connection is used. `ImplementsTheLog`: every step of server and client is a step of
`AuditChain` or leaves the log alone; with `Verdict` it gives `VerdictUnderCalls`. `GatedAndAudited`
rests on `CallInv`, what a call's place tells of the gate, of the tool and of its record. `AnswerIsOwn`
rests on `PipeInv`: while nobody has given up, the pipes hold at most one message for everyone
who waits (`NothingLeft`), so who sends alone sends into empty pipes and all that is in
them is its own (`Own`).

`Desktop_proofs`, agent: `StopsAtTheLimit` from `Counted`, which ties `iteration`, `completions` and the tools
called to each point of the loop, and `TrailIsOfThisRun` from `TrailInv`: the trail is at each
point the registered part of what was called, in order. Its hypothesis is `Resets`: `run` clears nothing, so
an agent that is run again without `reset` reports the earlier run's tools too. Today's callers build an
agent for each prompt.

`N8nRun_proofs`: `RunsOncePerTransport` and `ReportIsTrue`. `CountInv` bounds the executions and registered
triggers that carry a call's number by what the call may have started where it is (`Budget`);
`NumberInv` keeps the numbers of two calls apart. `ReportInv` says of the call and of the mirror what the
property says at the end, so that it survives n8n's own steps, which only append executions and
end them.

`Desktop_proofs`, workspace: `TextsKeepApart` and `SavedTextIsKept`. `TextInv`: a text is of one file wherever
it goes, in the editor, in a task, on the disk. `FlagInv` ties tasks to the flags that disable the
buttons, and `Kept` says where an acknowledged text is while one file task is under way. Provider:
`KeysFitTheConfig`, `ShownProviderIsSaved`, `RequestsUseOneSave`. `SaveInv` says what each step
of a save has left in keyring and file, `FitInv` that both the file and the configuration about to be
written fit the keyring, `ChatInv` that a chat no save has crossed has entry and key of one save.

`Wiki_proofs`: `PagesAreListed`, `OnePagePerWorkflow`, `FreshAfterReindex`, `ReuseIsWhatWasRanked`. `OpInv` says
what the place of an operation tells of its page; `ListedInv` that an update of the index holds all of the
lines read, `OneInv` that an import knows every page of those it has still to import, `FreshInv` that
readers that embed have the pages as they are, `OnePerPath` that a path stands for one workflow wherever
it is held, in a page, a vector or a reader. The last needs `OwnIdPaths`, which is part of the property:
TLC showed that a workflow whose path with the short id is another's slug path takes over its page,
and a vector made before then recommends the wrong one.

`Wiki_proofs`, text: `PagesSurviveWriting`, for lines without bound. What is written for a frontmatter has no line
that is a delimiter or blank (`Plain`), so the first delimiter behind it closes it and what is
between is read back; a trimmed body begins with a line that is written, so trimming takes from the
body that is read no more than the blank line put before it (`Laid`, `RoundTrip`).

`Wiki_proofs`, graph: `RelationsAreInForceOnce`, `LintSeesWhatWasMeant`, `BestPagesAreCited`. `BundleInv`: a path has one
page at most, the relations of its block are each there once and are exactly those in force, and its
links are those its author meant, written in one of the two forms. That a link resolves to what it was
written for (`LinksResolve`) follows the components one by one: down the directory of its page, over
the dot, up to what the two paths share, and down again. The hypothesis of `LintIsRight` is that
authors write no `[[#heading]]`, which resolves to a page without a name. For the query, a finite set
in a strict total order has as many members before the k-th as there are places before it
(`EveryPlaceTaken`), and score with position is such an order.

`TuiShell_proofs`, providers: `ActiveIsListed` and `ModelsFitTheirProvider`. `ProviderInv` says of every configuration,
wherever it is held - in memory, in the file, in a save or a load under way - that it is well
formed: its list names no backend twice, its active provider is the entry of that backend, and models fit
unless they were set unchecked; and of every catalogue, held or on its way, that it is filed under
the backend it was fetched for.

`TuiShell_proofs`, input: `NothingIsStale`. `InputInv` says that each handler either leaves the text alone or
computes the suggestions anew, that an entry of a list is looked up in the list it was chosen
from, and that among the panes there is always a visible one to go to.

`TuiShell_proofs`, composer: the refinement `ComposerIsATextField`, for any symbols. A place in the buffer - a
row and a column - cuts its text in what is before and what is behind it (`offset`); the order of places is the
order of their offsets; and each edit replaces what is between two places. The lengths of rows
add up by induction over rows.

`TuiShell_proofs`, terminal: `TerminalComesBack` is the part of `TerminalIsGivenBack` that is about states. `TerminalInv`
tells from each place of the main thread which modes are on, what is marked to be undone, which hook is
set and where the key thread is.

`Desktop_proofs`, stream: `StreamIsReadWhole` for streams and pieces of any length. `StreamInv`: what is kept
between two pieces is the stream behind a place where an event ended, no event ends in it, and the text
is what there was to be read up to that place (`Cut`). One line adds what counts in it (`LineTold`), the
lines of an event add up (`EventTold`), and so do the events of a buffer (`ReadTold`); what comes later
changes nothing before the end of a line (`SameReading`), and what counts in the whole stream is what
counts up to that place (`CountingIs`). The theorem is about `CompletionSpec`, whose steps are all those the run
`agent` lets the provider make.

Induction over data. The library's induction theorems cannot be instantiated by the installed
provers, so the proofs over rows, lines, components and lists argue from a least counterexample, which
the well-foundedness of `<` on the naturals gives: `Smallest`, and from it `UpTo` (what holds at m and is
handed on holds from m to n) and `Recursion` (a recursive function exists, and obeys its equation).

Model-checked only: all liveness (`SessionSettles`, `LoadingEnds`, `RunEnds`, `CallsEnd`, and that the UI ends
in `TerminalIsGivenBack`), which is out of the prover's reach; and `PaletteCommandsParse`, which is about
two tables without constants, all of whose entries TLC visits.

## 5. What is left

### 5.1 To be proved

That a vault with two callers answers nothing but what one of them stored, or damage, which holds only
once the code locks it.

### 5.2 Not modelled

- Drawing (`ui.rs`, and `view.rs` beyond its guards), themes and the wording of every message: they
  read state and change none.
- The transcript's scroll position and the selection in the activity list, which only drawing reads;
  the spinner; the clipboard.
- Providers: what is asked and how (prompt, headers, account id, counts of tokens), embeddings, health
  checks and capabilities: one call each, no state.
- Validation of what the user types into the configuration beyond the model's fit to its provider.
- n8n over the desktop's backend, which is the connector of `N8nRun` built anew for each call; the
  in-memory stub client, which is for tests.
- The age of raw sources, counts of inbound links, the prompt and the answer of a query, the text
  of `schema.md`; `delete_concept`, which nothing but tests calls.
- The key-value table and the blob store, which nothing but tests calls; the WASM runtime, a stub
  whose calls return errors; the command line, sequential glue; re-exports and data types; the
  browser scripts of the end-to-end tests.
