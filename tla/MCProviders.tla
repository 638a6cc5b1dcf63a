----------------------------- MODULE MCProviders -----------------------------
(* Two calls at a time: c1 makes every kind, c2 the one that meets them on the *)
(* chat route; the control plane changes two pairs of the five.                *)
EXTENDS ProviderCalls, TLC

CONSTANTS c1, c2, persona, first, second

Chat == <<"openai", "chat">>
Embeddings == <<"openai", "embeddings">>
Images == <<"openai", "images">>
Messages == <<"anthropic", "messages">>
Generate == <<"google", "generateContent">>

MCPairs == {Chat, Embeddings, Images, Messages, Generate}
MCBreakable == {Messages}

Message(role, text, chars, plain) ==
    [role |-> role, text |-> text, chars |-> chars, said |-> IF plain THEN chars ELSE chars - 30,
     plain |-> plain]

Prompt == Message("system", persona, 8, TRUE)
Ask == Message("user", first, 120, TRUE)
Again == Message("user", second, 40, TRUE)
Answer == Message("assistant", first, 3, TRUE)
Tool == [name |-> "search", nested |-> TRUE]

Request(messages, tools, format, most) ==
    [model |-> <<"anthropic", "claude-haiku-4-20250514">>, messages |-> messages, max_tokens |-> most,
     temperature |-> 1, tools |-> tools, response_format |-> format, reasoning_effort |-> Absent]

Raw(pair, body) == [kind |-> "raw", adapter |-> Absent, to |-> "mock", pair |-> pair, body |-> body]
By(adapter, kind, to, req) == [kind |-> kind, adapter |-> adapter, to |-> to, req |-> req]

Plain == Request(<<Prompt, Ask, Answer, Again>>, Absent, Absent, 0)
Tooled == Request(<<Ask>>, <<Tool>>, Absent, 16)
Json == Request(<<Again, Prompt>>, <<>>, "json_schema", Absent)
Blocks == Message("user", second, 90, FALSE)

AllJobs ==
    {Raw(Chat, [OpenAIArgs(Plain, FALSE) EXCEPT !.stream = TRUE]),
     Raw(Messages, AnthropicArgs(Request(<<Blocks>>, Absent, Absent, 9), TRUE)),
     Raw(Generate, [stream |-> FALSE, contents |-> <<<<Ask, [Blocks EXCEPT !.text = Absent, !.chars = 0]>>, <<Again>>>>]),
     Raw(Embeddings, [stream |-> FALSE, inputs |-> <<Ask, Again>>, n |-> 8]),
     Raw(Embeddings, [stream |-> FALSE, inputs |-> <<Ask>>, n |-> Absent]),
     Raw(Images, [stream |-> FALSE, n |-> 2, format |-> "b64_json"])} \union
    {By(a, "complete", "mock", r) : a \in {"openai", "anthropic"}, r \in {Plain, Tooled}} \union
    {By("openai", "complete", "mock", Json)} \union
    {By(a, "health", "mock", Plain) : a \in {"openai", "anthropic"}} \union
    {By(a, k, "provider", Plain) : a \in {"gemma", "anthropic"}, k \in {"complete", "stream"}}

Order(pair, fields) == [pair |-> pair, fields |-> fields]

MCJobs == c1 :> AllJobs @@ c2 :> {j \in AllJobs : j.kind = "raw" /\ j.pair = Chat}

MCOrders ==
    {Order(Chat, [force |-> 429, limit |-> "maybe", error |-> "always"]),
     Order(Messages, [force |-> 404, latency |-> "none", error |-> "maybe"])}
=============================================================================
