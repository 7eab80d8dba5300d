--------------------------- MODULE AisdkProvider ---------------------------
(* One completion of a provider, from the request to the text the agent gets
   (argos-provider/src/aisdk_provider.rs): which of the two interfaces is asked
   where, and the Codex answer, which comes as a stream of events in pieces cut
   anywhere.  A stream is a sequence of marks: a new line, the "data: " a line
   may begin with, "[DONE]", and texts, each for the fields of an event that
   hold it; an event that is none of these has no texts. *)
EXTENDS Integers, Sequences, FiniteSets

CONSTANTS
  Texts,
  MaxStream,   \* bound on the marks of a stream
  MaxChunk     \* bound on those that arrive at once

ASSUME MarkAssumption == Texts \cap {"nl", "data", "done"} = {}
ASSUME StreamAssumption == MaxStream \in Nat /\ MaxChunk \in Nat

VARIABLES
  provider,  \* fixed when it is built
  step,      \* of complete: "idle", "asked", "stream", "ok", "failed"
  url,       \* where the request goes
  sent,      \* the marks of the stream that have arrived
  buffer,    \* those of them that are not an event yet
  text     \* the texts

completion == <<step, url, sent, buffer, text>>
completion_vars == <<provider, completion>>

Marks == Texts \cup {"nl", "data", "done"}
Endpoints == {"v1", "v1/responses", "v1/chat/completions", "zen/v1", "zen/go/v1"}
CODEX_API_ENDPOINT == "codex/responses"

(* The constructors; gpt stands for the model names of the Responses interface. *)
new_openai == {[endpoint |-> e, gpt |-> g, is_codex_oauth |-> FALSE] : e \in Endpoints, g \in BOOLEAN}
new_ollama == {[endpoint |-> "v1", gpt |-> FALSE, is_codex_oauth |-> FALSE]}
new_openai_codex == {[endpoint |-> "v1", gpt |-> TRUE, is_codex_oauth |-> TRUE]}

CompletionInit ==
  /\ provider \in new_openai \cup new_ollama \cup new_openai_codex
  /\ step = "idle" /\ url = "" /\ sent = <<>> /\ buffer = <<>> /\ text = <<>>

api_style ==
  IF \/ provider.is_codex_oauth
     \/ provider.endpoint = "v1/responses"
     \/ provider.endpoint = "zen/v1" /\ provider.gpt
  THEN "Responses" ELSE "ChatCompletions"

responses_url == IF provider.endpoint \in {"v1", "v1/responses", "v1/chat/completions"}
                 THEN "v1/responses" ELSE provider.endpoint \o "/responses"

complete ==
  /\ step = "idle" /\ step' = "asked"
  /\ url' = IF api_style = "ChatCompletions" THEN provider.endpoint
            ELSE IF provider.is_codex_oauth THEN CODEX_API_ENDPOINT ELSE responses_url
  /\ UNCHANGED <<provider, sent, buffer, text>>

(* No connection, a status that is no success, a body that does not parse, a
   stream that breaks. *)
Fails ==
  /\ step \in {"asked", "stream"} /\ step' = "failed"
  /\ UNCHANGED <<provider, url, sent, buffer, text>>

(* complete_chat_completions, and the single body of complete_responses: the
   answer's text, which may be empty. *)
Body ==
  /\ step = "asked" /\ ~provider.is_codex_oauth /\ step' = "ok"
  /\ \E t \in {<<>>} \cup {<<x>> : x \in Texts} : text' = t
  /\ UNCHANGED <<provider, url, sent, buffer>>

-----------------------------------------------------------------------------
(* read_codex_stream. *)
Streams == step = "asked" /\ provider.is_codex_oauth /\ step' = "stream" /\ UNCHANGED <<provider, url, sent, buffer, text>>

Blanks(b) == {i \in 1 .. Len(b) - 1 : b[i] = "nl" /\ b[i + 1] = "nl"}
Holds(payload) == IF \A i \in DOMAIN payload : payload[i] \in Texts THEN payload ELSE <<>>

(* What a line adds to what has been read: its texts, or the end. *)
Line(l, got, next) ==
  LET data == ~got.done /\ l # <<>> /\ Head(l) = "data" IN
  [texts |-> IF data THEN got.texts \o Holds(Tail(l)) ELSE got.texts,
   done |-> got.done \/ (data /\ Tail(l) = <<"done">>), from |-> next]
(* An event, mark by mark: a line ends where the next one or nothing begins. *)
read_event(event, got) ==
  LET at[n \in 0 .. Len(event) + 1] ==
        IF n = 0 THEN [texts |-> got.texts, done |-> got.done, from |-> 1]
        ELSE LET last == at[n - 1] IN
             IF n <= Len(event) /\ event[n] # "nl" THEN last ELSE Line(SubSeq(event, last.from, n - 1), last, n + 1)
  IN at[Len(event) + 1]

(* The complete events of a buffer: each ends where the first two new lines
   behind the one before begin. *)
read(b) ==
  LET at[n \in 0 .. Len(b)] ==
        IF n = 0 THEN [texts |-> text, done |-> FALSE, from |-> 1]
        ELSE LET last == at[n - 1] IN
             IF last.done \/ n - 1 < last.from \/ n - 1 \notin Blanks(b) THEN last
             ELSE LET got == read_event(SubSeq(b, last.from, n - 2), last) IN
                  [texts |-> got.texts, done |-> got.done, from |-> n + 1]
  IN at[Len(b)]

Received(chunk, b) ==
  LET got == read(b) IN
  /\ step = "stream"
  /\ sent' = sent \o chunk /\ text' = got.texts /\ buffer' = SubSeq(b, got.from, Len(b))
  /\ step' = IF got.done THEN "ok" ELSE "stream"
  /\ UNCHANGED <<provider, url>>
(* Defect: What is left of a piece is not kept for the next one. *)
ChunkAlone(chunk) == Received(chunk, chunk)
Chunk(chunk) == Received(chunk, buffer \o chunk)

(* The stream is closed without [DONE]: what has been read counts. *)
Closed == step = "stream" /\ step' = "ok" /\ UNCHANGED <<provider, url, sent, buffer, text>>

(* The agent takes what complete returned. *)
Taken ==
  /\ step \in {"ok", "failed"} /\ step' = "idle" /\ url' = "" /\ sent' = <<>> /\ buffer' = <<>> /\ text' = <<>>
  /\ UNCHANGED provider

Chunks == UNION {[1 .. n -> Marks] : n \in 1 .. MaxChunk}
read_codex_stream ==
  \/ Streams \/ Closed
  \/ \E chunk \in Chunks : Len(sent) + Len(chunk) <= MaxStream /\ Chunk(chunk)
CompletionNext == complete \/ Fails \/ Body \/ read_codex_stream
CompletionSpec == CompletionInit /\ [][CompletionNext \/ Taken]_completion_vars

-----------------------------------------------------------------------------
(* What the whole stream says, however it was cut: the texts that stand alone
   on a data line, in an event that was ended by a blank line, with no [DONE]
   before them (aisdk_provider.rs:465). *)
IsLine(s, a, b) ==
  /\ a = 1 \/ s[a - 1] = "nl"
  /\ b = Len(s) \/ s[b + 1] = "nl"
  /\ \A i \in a .. b : s[i] # "nl"
IsDone(s, i) == i > 1 /\ s[i - 1] = "data" /\ s[i] = "done" /\ IsLine(s, i - 1, i)
OnDataLine(s, i) == \E a \in 1 .. i - 1, b \in i .. Len(s) :
  IsLine(s, a, b) /\ s[a] = "data" /\ \A j \in a + 1 .. b : s[j] \in Texts
Ended(s, i) == \E j \in Blanks(s) : i < j
Counting(s) == {i \in DOMAIN s : OnDataLine(s, i) /\ Ended(s, i) /\ \A j \in 1 .. i - 1 : ~IsDone(s, j)}
StreamIsReadWhole ==
  step \in {"stream", "ok"} /\ provider.is_codex_oauth =>
    LET counting == Counting(sent) IN
    /\ Len(text) = Cardinality(counting)
    /\ \A i \in counting : text[Cardinality({j \in counting : j <= i})] = sent[i]
=============================================================================
