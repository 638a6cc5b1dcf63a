-------------------------- MODULE ProviderAdapters --------------------------
(* The provider adapters of the backend as functions: what `complete` and     *)
(* `stream` send for a unified request, what they make of the answer and of   *)
(* each event of a stream, and the price list and catalogue they carry.       *)
(* A message is [role, text, chars, said, plain]: its content is a string or   *)
(* (plain = FALSE) a list of blocks; written out it has chars characters, of   *)
(* which its text is said. The id of a model is the sequence of its parts      *)
(* between slashes. Prices are cents per million tokens.                       *)
EXTENDS Integers, Sequences, FiniteSets

CONSTANT Absent

Or(x, default) == IF x = Absent THEN default ELSE x

\* The elements of s at the positions in I, in their order.
Nth(I, i) == Cardinality({j \in I : j <= i})
Selected(s, I) == [n \in 1 .. Cardinality(I) |-> s[CHOOSE i \in I : Nth(I, i) = n]]

\* ---------------------------------------------------------------- requests
Adapters == {"openai", "anthropic", "gemma", "qwen"}

Api(a) == IF a = "anthropic" THEN "anthropic" ELSE "openai"

\* What is left after the first slash, if there is one.
StripPrefix(model) == IF Len(model) > 1 THEN Tail(model) ELSE model

\* Slip: the first message is taken for the system prompt whatever its role is.
SplitSystemFirst(messages) ==
    [system |-> <<messages[1].text>>, rest |-> Tail(messages)]

Prompts(messages) == {i \in DOMAIN messages : messages[i].role = "system"}
Others(messages) == Selected(messages, DOMAIN messages \ Prompts(messages))

SplitSystem(messages) ==
    LET parts == Selected(messages, Prompts(messages))
    IN  [system |-> IF parts = <<>> \/ (Len(parts) = 1 /\ parts[1].chars = 0)
                    THEN Absent ELSE [i \in DOMAIN parts |-> parts[i].text],
         rest   |-> Others(messages)]

\* The arguments a call leaves out are Absent; an empty list of tools is left out.
OpenAIArgs(req, stream) ==
    LET Kept(x) == IF stream THEN Absent ELSE x
    IN  [model |-> req.model, messages |-> req.messages, stream |-> stream, system |-> Absent,
         max_tokens |-> req.max_tokens, temperature |-> Kept(req.temperature),
         tools |-> Kept(IF req.tools = <<>> THEN Absent ELSE req.tools),
         response_format |-> Kept(req.response_format),
         reasoning_effort |-> Kept(req.reasoning_effort)]

AnthropicArgs(req, stream) ==
    LET split == SplitSystem(req.messages)
        Kept(x) == IF stream THEN Absent ELSE x
    IN  [model |-> StripPrefix(req.model), messages |-> split.rest, stream |-> stream,
         system |-> split.system,
         max_tokens |-> IF req.max_tokens \in {Absent, 0} THEN 4096 ELSE req.max_tokens,
         temperature |-> Kept(req.temperature),
         tools |-> Kept(IF req.tools = <<>> THEN Absent ELSE req.tools),
         response_format |-> Absent, reasoning_effort |-> Absent]

Args(a, req, stream) ==
    IF Api(a) = "anthropic" THEN AnthropicArgs(req, stream) ELSE OpenAIArgs(req, stream)

\* One-token completion the Anthropic adapter asks for to see whether the API is up.
ProbeArgs ==
    [model |-> <<"claude-haiku-4-20250514">>,
     messages |-> <<[role |-> "user", text |-> "ok", chars |-> 2, said |-> 2, plain |-> TRUE]>>,
     stream |-> FALSE, system |-> Absent, max_tokens |-> 1, temperature |-> Absent,
     tools |-> Absent, response_format |-> Absent, reasoning_effort |-> Absent]

\* ---------------------------------------------------------------- answers
\* The finish reasons of a unified response.
Documented == {"stop", "length", "tool_calls", "content_filter", "error"}

MapStopReason(s) ==
    CASE s = "max_tokens" -> "length"
      [] s = "tool_use" -> "tool_calls"
      [] OTHER -> "stop"

Unified(content, finish, tools, input, output, cached) ==
    [content |-> content, finish |-> finish, tools |-> IF tools = <<>> THEN Absent ELSE tools,
     usage |-> [input |-> input, output |-> output, cached |-> Or(cached, 0)]]

\* content is a sequence of texts, the empty string the empty sequence.
OpenAIUnified(resp) ==
    Unified(Or(resp.content, <<>>), Or(resp.finish, "stop"), Or(resp.tools, <<>>),
            resp.input, resp.output, resp.cached)

\* Text blocks are joined; tool blocks become calls whose arguments stay an object.
BlocksOf(resp, type) == {i \in DOMAIN resp.blocks : resp.blocks[i].type = type}

AnthropicUnified(resp) ==
    LET texts == Selected(resp.blocks, BlocksOf(resp, "text"))
        calls == Selected(resp.blocks, BlocksOf(resp, "tool_use"))
    IN  Unified([i \in DOMAIN texts |-> texts[i].text], MapStopReason(Or(resp.stop, "end_turn")),
                [i \in DOMAIN calls |-> [name |-> calls[i].name, arguments |-> "object"]],
                resp.input, resp.output, resp.cached)

Understand(a, resp) ==
    IF Api(a) = "anthropic" THEN AnthropicUnified(resp) ELSE OpenAIUnified(resp)

\* ---------------------------------------------------------------- streams
\* An event of a stream is [type, text, tools, finish]; the fields an event does
\* not have are Absent.
OpenAIChunks(e) == <<[text |-> e.text, tools |-> e.tools, finish |-> e.finish]>>

\* Slip: the stop reason of message_delta is passed on as well.
AnthropicChunksTwice(e) ==
    CASE e.type = "content_block_delta" /\ e.text # Absent ->
            <<[text |-> e.text, tools |-> Absent, finish |-> Absent]>>
      [] e.type \in {"message_delta", "message_stop"} ->
            <<[text |-> Absent, tools |-> Absent, finish |-> "stop"]>>
      [] OTHER -> <<>>

AnthropicChunks(e) ==
    CASE e.type = "content_block_delta" /\ e.text # Absent ->
            <<[text |-> e.text, tools |-> Absent, finish |-> Absent]>>
      [] e.type = "message_stop" ->
            <<[text |-> Absent, tools |-> Absent, finish |-> "stop"]>>
      [] OTHER -> <<>>

Chunks(a, e) == IF Api(a) = "anthropic" THEN AnthropicChunks(e) ELSE OpenAIChunks(e)

\* ---------------------------------------------------------------- prices
Tier(input, output, cached) == [input |-> input, output |-> output, cached |-> cached]

\* A price list, from its rows.
PriceList(rows) == [id \in {row.id : row \in rows} |-> (CHOOSE row \in rows : row.id = id).tier]
Row(id, tier) == [id |-> id, tier |-> tier]

OpenAIPricing ==
    {Row(<<"gpt-4o">>, Tier(250, 1000, 125)), Row(<<"gpt-4o-mini">>, Tier(15, 60, Absent))}

AnthropicPricing ==
    {Row(<<"claude-sonnet-4-20250514">>, Tier(300, 1500, 30)),
     Row(<<"claude-opus-4-20250514">>, Tier(1500, 7500, Absent)),
     Row(<<"claude-haiku-4-20250514">>, Tier(80, 400, Absent))}

GemmaPricing ==
    {Row(<<"google", "gemma-4-31b">>, Tier(30, 50, Absent)),
     Row(<<"google", "gemma-4-26b-moe">>, Tier(20, 40, Absent)),
     Row(<<"google", "gemma-4-e4b">>, Tier(5, 10, Absent)),
     Row(<<"google", "gemma-4-e2b">>, Tier(2, 5, Absent))}

QwenPricing ==
    {Row(<<"qwen", "qwen3.6-27b">>, Tier(20, 60, Absent)),
     Row(<<"qwen", "qwen3.6-35b-a3b">>, Tier(27, 85, Absent)),
     Row(<<"qwen", "qwen3.5-35b-a3b">>, Tier(27, 85, Absent)),
     Row(<<"qwen", "qwen3.5-122b-a10b">>, Tier(60, 180, Absent))}

PricingMap ==
    [openai |-> PriceList(OpenAIPricing), anthropic |-> PriceList(AnthropicPricing),
     gemma |-> PriceList(GemmaPricing), qwen |-> PriceList(QwenPricing)]

\* Slip: the subclasses keep the price list of the class they inherit from.
PricingInherited(a, model) ==
    LET key  == IF a = "anthropic" THEN StripPrefix(model) ELSE model
        list == PricingMap[Api(a)]
    IN  IF key \in DOMAIN list THEN list[key] ELSE Absent

\* A KeyError is Absent.
Pricing(a, model) ==
    LET key == IF a = "anthropic" THEN StripPrefix(model) ELSE model
    IN  IF key \in DOMAIN PricingMap[a] THEN PricingMap[a][key] ELSE Absent

Modalities ==
    [openai |-> {"text", "image", "audio", "embeddings"}, anthropic |-> {"text", "image"},
     gemma |-> {"text", "image", "audio", "video"}, qwen |-> {"text"}]

\* The catalogue of a registry that holds these adapters: the key of the price list
\* is listed under the name of the provider.
ListModels(registered) ==
    UNION {{[id |-> <<a>> \o key, provider |-> a, modalities |-> Modalities[a],
             pricing |-> PricingMap[a][key]] :
              key \in DOMAIN PricingMap[a]} : a \in registered}
=============================================================================
