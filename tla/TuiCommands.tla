---------------------------- MODULE TuiCommands ----------------------------
(* The slash commands (argos-tui/src/commands.rs), written down twice: in the
   parser, and in the table the palette and the suggestions are made of.  A text is a sequence of words, each ended by a blank; the
   word a user is still typing may be the beginning of others. *)
EXTENDS Integers, Sequences

NewLine == "\n"
Optional == {"[token-ref]", "[key-ref]", "[endpoint]"}

(* The parser: the word after the slash, the word it looks for next, and how
   many words may follow. *)
Any == 99
Arm(heads, sub, least, most, cmd) == [heads |-> heads, sub |-> sub, least |-> least, most |-> most, cmd |-> cmd]
parse_vault_command == {
  Arm({"/vault"}, <<"set">>, 2, Any, "StoreSecret"),
  Arm({"/vault"}, <<"remove">>, 1, Any, "DeleteSecret"), Arm({"/vault"}, <<"rm">>, 1, Any, "DeleteSecret")}
parse_login == {
  Arm({"/openai-login"}, <<>>, 0, 1, "OpenAiLogin"), Arm({"/provider-login"}, <<"openai">>, 0, 1, "OpenAiLogin"),
  Arm({"/codex-login"}, <<>>, 0, Any, "CodexLogin")}
(* Defect: the endpoint of a known provider is not read. *)
parse_three_words == {Arm({"/provider-add"}, <<>>, 2, 3, "AddKnownProvider")}
parse_add_known_provider == {Arm({"/provider-add"}, <<>>, 2, 4, "AddKnownProvider")}
parse_add_provider == {
  Arm({"/provider-add-openai-oauth"}, <<>>, 1, 2, "AddOpenAiOAuthProvider"),
  Arm({"/provider-add-custom"}, <<>>, 3, 4, "AddCustomProvider")}
Arms == {
  Arm({"/help", "/h"}, <<>>, 0, Any, "Help"), Arm({"/clear", "/cls"}, <<>>, 0, Any, "ClearTranscript"),
  Arm({"/quit", "/exit", "/q"}, <<>>, 0, Any, "Quit"), Arm({"/refresh", "/r"}, <<>>, 0, Any, "Refresh"),
  Arm({"/config"}, <<>>, 0, Any, "ShowConfig"), Arm({"/providers"}, <<>>, 0, Any, "ListProviders"),
  Arm({"/provider"}, <<>>, 2, Any, "SetProvider"), Arm({"/provider-remove"}, <<>>, 1, Any, "RemoveProvider"),
  Arm({"/model"}, <<>>, 1, Any, "SetModel"), Arm({"/endpoint"}, <<>>, 1, Any, "SetEndpoint"),
  Arm({"/key-ref"}, <<>>, 1, Any, "SetKeyRef"), Arm({"/n8n"}, <<>>, 1, Any, "SetN8n"),
  Arm({"/n8n-mode"}, <<>>, 1, Any, "SetN8nMode"), Arm({"/n8n-key-ref"}, <<>>, 1, Any, "SetN8nKeyRef"),
  Arm({"/cd"}, <<>>, 0, Any, "ChangeDir"), Arm({"/clearsessions"}, <<>>, 0, Any, "ClearSessions")}
  \cup parse_vault_command \cup parse_login \cup parse_add_known_provider \cup parse_add_provider

Words(text) == SelectSeq(text, LAMBDA w : w # NewLine)
Fits(arm, words) ==
  LET n == 1 + Len(arm.sub) IN
  /\ Len(words) \in n + arm.least .. n + arm.most
  /\ words[1] \in arm.heads /\ SubSeq(words, 2, n) = arm.sub
(* A text that is no command is a prompt, also when it begins with a slash. *)
parse_slash_command(text) == {arm.cmd : arm \in {a \in Arms : Words(text) # <<>> /\ Fits(a, Words(text))}}

-----------------------------------------------------------------------------
(* The table: what is put into the composer, what the signature says may
   follow, and the command that is meant. *)
Def(insert_text, args, cmd) == [insert_text |-> insert_text, signature |-> insert_text \o args, args |-> args, cmd |-> cmd]
COMMANDS == <<
  Def(<<"/help">>, <<>>, "Help"), Def(<<"/clear">>, <<>>, "ClearTranscript"), Def(<<"/quit">>, <<>>, "Quit"),
  Def(<<"/config">>, <<>>, "ShowConfig"), Def(<<"/providers">>, <<>>, "ListProviders"), Def(<<"/refresh">>, <<>>, "Refresh"),
  Def(<<"/provider">>, <<"<backend>", "<model>">>, "SetProvider"), Def(<<"/codex-login">>, <<>>, "CodexLogin"),
  Def(<<"/openai-login">>, <<"[token-ref]">>, "OpenAiLogin"), Def(<<"/provider-login", "openai">>, <<"[token-ref]">>, "OpenAiLogin"),
  Def(<<"/provider-add">>, <<"<backend>", "<model>", "[key-ref]", "[endpoint]">>, "AddKnownProvider"),
  [insert_text |-> <<"/provider-add-openai-oauth", "gpt-4.1">>, signature |-> <<"/provider-add-openai-oauth", "<model>", "[token-ref]">>,
   args |-> <<"[token-ref]">>, cmd |-> "AddOpenAiOAuthProvider"],
  Def(<<"/provider-add-custom">>, <<"<backend>", "<endpoint>", "<model>", "[key-ref]">>, "AddCustomProvider"),
  Def(<<"/model">>, <<"<name>">>, "SetModel"), Def(<<"/endpoint">>, <<"<url>">>, "SetEndpoint"),
  Def(<<"/key-ref">>, <<"<ref>">>, "SetKeyRef"), Def(<<"/n8n">>, <<"<url>">>, "SetN8n"),
  Def(<<"/n8n-mode">>, <<"<rest|mcp>">>, "SetN8nMode"), Def(<<"/n8n-key-ref">>, <<"<ref>">>, "SetN8nKeyRef"),
  Def(<<"/vault", "set">>, <<"<ref>", "<secret>">>, "StoreSecret"), Def(<<"/vault", "remove">>, <<"<ref>">>, "DeleteSecret"),
  Def(<<"/cd">>, <<"<path>">>, "ChangeDir"), Def(<<"/clearsessions">>, <<>>, "ClearSessions")>>
Entries == DOMAIN COMMANDS

(* A word is the beginning of itself; a bare slash of every command.  What
   surrounds a text does not count. *)
Heads == UNION {a.heads : a \in Arms}
Slash(word) == word = "/" \/ word \in Heads
Extends == {<<"/h", "/help">>, <<"/q", "/quit">>, <<"/r", "/refresh">>, <<"/clear", "/clearsessions">>, <<"/n8n", "/n8n-mode">>, <<"/n8n", "/n8n-key-ref">>,
            <<"/provider", "/providers">>, <<"/provider-add", "/provider-add-openai-oauth">>, <<"/provider-add", "/provider-add-custom">>}
           \cup ({"/provider"} \X {"/provider-login", "/provider-add", "/provider-add-openai-oauth", "/provider-add-custom"})
Begins(word, other) == word = other \/ (word = "/" /\ other \in Heads) \/ <<word, other>> \in Extends

Trimmed(text) == LET ends == {n \in 1..Len(text) : text[n] # NewLine} IN
                 SubSeq(text, 1, IF ends = {} THEN 0 ELSE CHOOSE n \in ends : \A k \in ends : k <= n)
suggest_commands(typed) ==
  LET text == Trimmed(typed)  n == Len(text) IN
  {i \in Entries : LET s == COMMANDS[i].signature IN
     n \in 1..Len(s) /\ SubSeq(text, 1, n - 1) = SubSeq(s, 1, n - 1) /\ Begins(text[n], s[n])}
best_completion(text) ==
  LET found == suggest_commands(text) IN
  {COMMANDS[i].signature : i \in {j \in found : \A k \in found : j <= k}}
=============================================================================
