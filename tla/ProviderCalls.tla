---------------------------- MODULE ProviderCalls ----------------------------
(* Calls of providers: the backend's adapters, through their SDKs, against    *)
(* the mock server or the API of a real provider, and clients that use the    *)
(* mock's routes directly, while the control plane of the mock changes what   *)
(* it does. The SDKs and the real providers are external: an SDK raises on a  *)
(* refusal or sends again, a provider answers anything its API allows.        *)
EXTENDS MockProviders, SequencesExt

CONSTANTS
    Jobs,           \* slot -> the calls it may make
    MaxRetries,     \* bound: how often an SDK sends again
    MaxDeltas       \* bound: deltas in the stream of a provider

VARIABLES
    client,         \* slot -> [pc, job, tries, heard, got]
    registry        \* names of the adapters that are registered

vars == <<mockVars, client, registry>>

Free == [pc |-> "free"]

\* A job is raw (a pair of the mock and a body, no adapter), or a method of an
\* adapter with a request for one of the two sides.
IsRaw(job) == job.kind = "raw"
AtMock(job) == job.to = "mock"
NoRoute(job) == job.kind = "health" /\ job.adapter # "anthropic"
Reaches(job) == AtMock(job) /\ ~NoRoute(job)

Pair(job) ==
    IF IsRaw(job) THEN job.pair
    ELSE IF Api(job.adapter) = "anthropic" THEN <<"anthropic", "messages">> ELSE <<"openai", "chat">>

Body(job) ==
    CASE IsRaw(job) -> job.body
      [] job.kind = "health" -> ProbeArgs
      [] OTHER -> Args(job.adapter, job.req, job.kind = "stream")

\* What a slot may be asked to do: the mock has the routes of the adapters, a raw
\* call names one, an adapter streams from a provider; a request of `complete` has a
\* list of messages and tools with a name, none of which is the value for "left out".
IsRequest(req) ==
    /\ req.messages \in Seq(Range(req.messages))
    /\ \A i \in DOMAIN req.messages : <<req.messages[i].text>> # Absent
    /\ req.tools \in {Absent, <<>>} \/
         /\ req.tools[1].nested \in BOOLEAN
         /\ \A arguments \in {"string", "object"} :
              <<[name |-> req.tools[1].name, arguments |-> arguments]>> # Absent

IsJob(job) ==
    /\ job.kind \in {"raw", "complete", "stream", "health"}
    /\ IsRaw(job) => AtMock(job) /\ job.pair \in Pairs
    /\ ~IsRaw(job) => job.adapter \in Adapters
    /\ job.kind = "stream" => ~AtMock(job)
    /\ job.kind = "complete" => IsRequest(job.req)

\* The reasons the Messages API gives for stopping.
StopReasons == {"end_turn", "max_tokens", "stop_sequence", "tool_use", "pause_turn", "refusal",
                "model_context_window_exceeded"}

\* The calls of tools that occur in answers.
ToolCalls == [name : {"f", "g", "do_something"}, arguments : {"string", "object"}]

ASSUME ProvidersAssumption ==
    /\ IsFiniteSet(Slots)
    /\ {MaxForced, MaxRequests, MaxRetries, MaxDeltas} \subseteq Nat
    /\ {<<"openai", "chat">>, <<"anthropic", "messages">>} \subseteq Pairs
    /\ Breakable \subseteq Pairs
    /\ \A o \in Orders : o.pair \in Pairs
    /\ \A c \in Slots : \A job \in Jobs[c] : IsJob(job)
    /\ Absent \notin Int \union Documented \union StopReasons \union {"json_schema"}
    /\ Absent \notin Seq(ToolCalls)

Waiting(c) == client[c].pc = "waiting"
At(c, job) == client' = [client EXCEPT ![c] =
                            [pc |-> "waiting", job |-> job, tries |-> 0, heard |-> <<>>, got |-> <<>>]]
Becomes(c, pc, heard, got) ==
    client' = [client EXCEPT ![c] =
                 [pc |-> pc, job |-> @.job, tries |-> @.tries, heard |-> heard, got |-> got]]

Init == MockInit /\ client = [c \in Slots |-> Free] /\ registry = {}

\* Called once; an adapter is looked up by its name, which fails before that.
RegisterProviders ==
    /\ registry = {}
    /\ registry' = Adapters
    /\ UNCHANGED <<mockVars, client>>

Registered(job) == IsRaw(job) \/ job.adapter \in registry

\* The OpenAI adapter asks for the list of models, a route the mock does not have.
Call(c, job) ==
    /\ client[c] = Free /\ Registered(job)
    /\ At(c, job)
    /\ IF Reaches(job)
       THEN Arrive(c, Pair(job), Body(job))
       ELSE UNCHANGED mockVars
    /\ UNCHANGED registry

\* ---------------------------------------------------------------- the mock
\* Nothing on the wire: there was no route for the call.
Status(c) == IF wire[c] = <<>> THEN 404 ELSE wire[c][1]
HeardMock(c) == Waiting(c) /\ AtMock(client[c].job) /\ server[c] = Idle

Receive(c) ==
    LET job == client[c].job IN
    /\ HeardMock(c)
    /\ Status(c) = 200
    /\ Becomes(c, "done", <<>>,
             CASE IsRaw(job) -> <<>>
               [] job.kind = "health" -> TRUE
               [] OTHER -> Understand(job.adapter, wire[c][2].body))
    /\ UNCHANGED <<mockVars, registry>>

\* health_check turns any exception into an unhealthy status.
Raise(c) ==
    /\ HeardMock(c)
    /\ Status(c) # 200
    /\ IF client[c].job.kind = "health" THEN Becomes(c, "done", <<>>, FALSE)
       ELSE Becomes(c, "raised", <<>>, <<>>)
    /\ UNCHANGED <<mockVars, registry>>

SdkRetries(c) ==
    LET job == client[c].job IN
    /\ HeardMock(c) /\ ~IsRaw(job)
    /\ Refuses(Status(c))
    /\ client[c].tries < MaxRetries
    /\ client' = [client EXCEPT ![c].tries = @ + 1]
    /\ Arrive(c, Pair(job), Body(job))
    /\ UNCHANGED registry

\* A client that goes away does not end the handler; a stream is cancelled later.
HangUp(c) ==
    /\ Waiting(c) /\ IsRaw(client[c].job) /\ server[c] # Idle
    /\ client' = [client EXCEPT ![c].pc = "gone"]
    /\ UNCHANGED <<mockVars, registry>>

Server(c) ==
    /\ Handle(c) \/ (client[c].pc = "gone" /\ Cancel(c))
    /\ UNCHANGED <<client, registry>>

\* ---------------------------------------------------------------- a provider
AtProvider(c) == Waiting(c) /\ ~AtMock(client[c].job)

OpenAIAnswers ==
    LET Uses(name) == [name |-> name, arguments |-> "string"]
    IN  [content : {Absent, <<"text">>}, tools : {Absent, <<Uses("f"), Uses("g")>>},
         finish : {Absent, "stop", "length", "tool_calls", "content_filter"},
         input : {3}, output : {2}, cached : {1}]

AnthropicAnswers ==
    LET Says(text) == [type |-> "text", text |-> text]
        Uses(name) == [type |-> "tool_use", name |-> name]
        thought == [type |-> "thinking"]
    IN  [blocks : {<<>>, <<Says("one")>>, <<Uses("f")>>,
                   <<thought, Uses("g"), Says("two"), Uses("f"), Says("one")>>},
         stop : StopReasons, input : {3}, output : {2}, cached : {1}]

\* An answer that ends to have tools called calls some; calls may also come with
\* another reason, when the limit on tokens cuts the answer at a call.
OpenAIAllows(resp) == resp.finish = "tool_calls" => resp.tools # Absent
AnthropicAllows(resp) == resp.stop = "tool_use" => BlocksOf(resp, "tool_use") # {}

Allowed(a) ==
    IF Api(a) = "anthropic" THEN {r \in AnthropicAnswers : AnthropicAllows(r)}
    ELSE {r \in OpenAIAnswers : OpenAIAllows(r)}

ProviderAnswers(c) ==
    LET job == client[c].job IN
    /\ AtProvider(c)
    /\ job.kind # "stream"
    /\ IF job.kind = "health" THEN Becomes(c, "done", <<>>, TRUE)
       ELSE \E resp \in Allowed(job.adapter) :
              Becomes(c, "done", resp, Understand(job.adapter, resp))
    /\ UNCHANGED <<mockVars, registry>>

ProviderFails(c) ==
    /\ AtProvider(c)
    /\ IF client[c].job.kind = "health" THEN Becomes(c, "done", <<>>, FALSE)
       ELSE Becomes(c, "raised", client[c].heard, client[c].got)
    /\ UNCHANGED <<mockVars, registry>>

Event(type, text, tools, finish) == [type |-> type, text |-> text, tools |-> tools, finish |-> finish]

\* What may follow in a stream of either API, by the type of its last event.
Follows(a) ==
    IF Api(a) = "anthropic"
    THEN [start |-> {"message_start"}, message_start |-> {"content_block_start"},
          content_block_start |-> {"content_block_delta", "content_block_stop"},
          content_block_delta |-> {"content_block_delta", "content_block_stop"},
          content_block_stop |-> {"content_block_start", "message_delta"},
          message_delta |-> {"message_stop"}, message_stop |-> {}]
    ELSE [start |-> {"role"}, role |-> {"delta", "finish"}, delta |-> {"delta", "finish"},
          finish |-> {}]

Many(heard, types) == Cardinality({i \in DOMAIN heard : heard[i].type \in types})

Eventful(a, type) ==
    CASE type \in {"delta", "content_block_delta"} ->
            {Event(type, "one", Absent, Absent), Event(type, "two", Absent, Absent)} \union
            {Event(type, Absent, IF Api(a) = "anthropic" THEN Absent ELSE <<"f">>, Absent)}
      [] type = "finish" -> {Event(type, Absent, Absent, f) : f \in {"stop", "length", "tool_calls"}}
      [] OTHER -> {Event(type, Absent, Absent, Absent)}

LastType(heard) == IF heard = <<>> THEN "start" ELSE heard[Len(heard)].type

\* An event arrives and the adapter yields what it makes of it.
ProviderSays(c) ==
    LET job == client[c].job  heard == client[c].heard IN
    /\ AtProvider(c)
    /\ job.kind = "stream"
    /\ \E type \in Follows(job.adapter)[LastType(heard)] : \E e \in Eventful(job.adapter, type) :
         /\ Many(Append(heard, e), {"delta", "content_block_delta"}) <= MaxDeltas
         /\ Many(heard, {"content_block_start"}) <= MaxDeltas
         /\ Becomes(c, "waiting", Append(heard, e), client[c].got \o Chunks(job.adapter, e))
    /\ UNCHANGED <<mockVars, registry>>

ProviderEnds(c) ==
    /\ AtProvider(c)
    /\ client[c].job.kind = "stream"
    /\ Follows(client[c].job.adapter)[LastType(client[c].heard)] = {}
    /\ client' = [client EXCEPT ![c].pc = "done"]
    /\ UNCHANGED <<mockVars, registry>>

\* The result is used, and the slot is free again.
Return(c) ==
    /\ client[c].pc \in {"done", "raised", "gone"}
    /\ server[c] = Idle
    /\ client' = [client EXCEPT ![c] = Free]
    /\ wire' = [wire EXCEPT ![c] = <<>>]
    /\ UNCHANGED <<engine, server, registry>>

Next ==
    \/ RegisterProviders
    \/ Control /\ UNCHANGED <<client, registry>>
    \/ \E c \in Slots :
         \/ \E job \in Jobs[c] : Call(c, job)
         \/ Receive(c) \/ Raise(c) \/ SdkRetries(c) \/ HangUp(c) \/ Server(c)
         \/ ProviderAnswers(c) \/ ProviderFails(c) \/ ProviderSays(c) \/ ProviderEnds(c)
         \/ Return(c)

Spec == Init /\ [][Next]_vars

\* ---------------------------------------------------------------- properties
\* The overrides, the calls in hand and their clients have the shape the handlers rely on.
IsCall(c, call) ==
    /\ call = [pc |-> call.pc, job |-> call.job, tries |-> call.tries, heard |-> call.heard, got |-> call.got]
    /\ call.pc \in {"waiting", "done", "raised", "gone"}
    /\ call.job \in Jobs[c] /\ call.tries \in 0 .. MaxRetries

IsHandler(handler) ==
    /\ handler = [pc |-> handler.pc, pair |-> handler.pair, body |-> handler.body]
    /\ handler.pc \in {"arrived", "asleep", "streaming"}

TypeOK ==
    /\ overrides = [p \in DOMAIN overrides |-> overrides[p]]
    /\ \A p \in DOMAIN overrides : p \in Pairs /\ DOMAIN overrides[p] = DOMAIN Unset
    /\ stats \in [requests : 0 .. MaxRequests, errors : 0 .. MaxRequests, limits : 0 .. MaxRequests]
    /\ due \in 0 .. MaxRequests
    /\ ordered \in [Pairs -> 0 .. MaxForced]
    /\ registry \in {{}, Adapters}
    /\ server = [s \in Slots |-> server[s]] /\ wire = [s \in Slots |-> wire[s]]
    /\ client = [s \in Slots |-> client[s]]
    /\ \A s \in Slots :
         /\ server[s] = Idle \/ IsHandler(server[s])
         /\ client[s] = Free \/ IsCall(s, client[s])

\* The counters of the mock (record, called from four places of every route) count
\* every request once, whether it is refused, answered or streamed, whatever resets
\* and broken connections come in between; no request is an error and a limit, and
\* a request its route raises on, a 500 of the server, is not counted.
CountersAddUp ==
    /\ stats.requests + Cardinality(InHand) = due
    /\ stats.errors + stats.limits <= stats.requests

\* take_force_status: a status ordered for a pair answers at most one call, so what
\* is still pending is an order that no call has been answered with.
OneShotAnswersOnce ==
    \A p \in Pairs : ordered[p] >= IF Refuses(Get(p).force) THEN 1 ELSE 0

Whole(p) == Append(Events(p), "[DONE]")
Streamed(p, n) == [i \in 1 .. n |-> IF i = 1 THEN 200 ELSE [event |-> Whole(p)[i - 1]]]
Refused(sent) == sent = <<sent[1]>> /\ Refuses(sent[1])

\* The server works at what the client in its slot asked for, and has sent it nothing
\* but the answer to that: a refusal, the response, or a beginning of the stream; all
\* of it when the handler ended and the client is still there.
WireIsAnswer ==
    \A c \in Slots :
      LET job == client[c].job  p == Pair(job)  body == Body(job) IN
      /\ (client[c] = Free \/ c \in InHand \/ ~Reaches(job)) => wire[c] = <<>>
      /\ server[c] # Idle =>
           /\ client[c] # Free /\ client[c].pc \in {"waiting", "gone"} /\ Reaches(job)
           /\ server[c].pair = p /\ server[c].body = body
      /\ server[c].pc = "streaming" =>
           IsStream(p, body) /\ \E n \in 1 .. Len(Whole(p)) : wire[c] = Streamed(p, n)
      /\ (client[c] # Free /\ Reaches(job) /\ server[c] = Idle) =>
           \/ Refused(wire[c])
           \/ /\ ~IsStream(p, body) /\ ~Raises(p, body)
              /\ wire[c] = <<200, [body |-> Response(p, body)]>>
           \/ /\ IsStream(p, body)
              /\ \E n \in 1 .. Len(Whole(p)) + 1 :
                   /\ wire[c] = Streamed(p, n)
                   /\ client[c].pc # "gone" => n = Len(Whole(p)) + 1

\* A call is over with the answer that was on the wire or that the provider gave.
ClientHasAnswer ==
    \A c \in Slots :
      LET job == client[c].job IN
      client[c] # Free =>
        /\ client[c].pc = "gone" => IsRaw(job)
        /\ (client[c].pc = "done" /\ job.kind \in {"raw", "complete"} /\ AtMock(job)) => wire[c][1] = 200
        /\ (client[c].pc = "done" /\ job.kind = "complete") =>
             IF AtMock(job) THEN client[c].got = Understand(job.adapter, Response(Pair(job), Body(job)))
             ELSE /\ client[c].heard \in Allowed(job.adapter)
                  /\ client[c].got = Understand(job.adapter, client[c].heard)

\* With the shapes the handlers rely on, and the answers where they belong.
ProvidersInv == TypeOK /\ CountersAddUp /\ WireIsAnswer /\ ClientHasAnswer

Sent(s) == [i \in 1 .. Len(wire[s]) - 1 |-> wire[s][i + 1].event]

\* stream_chunks: a client of a streaming route sees the events in order and none
\* missing before the end, and the end exactly when all of them were sent.
StreamIsWhole ==
    \A s \in Slots :
      LET job == client[s].job IN
      (client[s] # Free /\ IsRaw(job) /\ IsStream(job.pair, job.body) /\ Len(wire[s]) > 1) =>
        /\ IsPrefix(Sent(s), Whole(job.pair))
        /\ client[s].pc = "done" => Sent(s) = Whole(job.pair)

Finishes(got) == {i \in DOMAIN got : got[i].finish # Absent}
Spoken(chunks) == {i \in DOMAIN chunks : chunks[i].text # Absent}
Texts(chunks) == [n \in DOMAIN Selected(chunks, Spoken(chunks)) |-> Selected(chunks, Spoken(chunks))[n].text]

\* `stream` of the adapters: at any point of the stream of a provider the chunks
\* yielded carry all its text in order, at most one says that the answer is
\* finished and nothing follows it, and one has said so exactly when the provider
\* has nothing more to say, as at the end of a stream that ends in order.
AdapterStreamIsWhole ==
    \A c \in Slots :
      (client[c] # Free /\ client[c].job.kind = "stream") =>
        LET got == client[c].got  heard == client[c].heard  after == Follows(client[c].job.adapter) IN
        /\ heard \in Seq(Range(heard)) /\ got \in Seq(Range(got)) /\ LastType(heard) \in DOMAIN after
        /\ Texts(got) = Texts(heard)
        /\ Finishes(got) \subseteq {Len(got)}
        /\ Finishes(got) # {} <=> after[LastType(heard)] = {}
        /\ client[c].pc = "done" => Finishes(got) # {}

\* A stream is whole on both sides of an adapter.
StreamsAreWhole == StreamIsWhole /\ AdapterStreamIsWhole

Completed(c) == client[c].pc = "done" /\ client[c].job.kind = "complete"

\* `complete` against the mock: whatever the adapter did to the request, the answer
\* that comes back is to the last message of the user, or calls a tool exactly when
\* tools were offered; its finish reason is one of those UnifiedResponse lists and
\* agrees with the tool calls; and every message but the system prompts that the
\* Anthropic API takes separately was paid for.
AnswersWhatWasAsked ==
    \A c \in Slots : (Completed(c) /\ AtMock(client[c].job)) =>
      LET req == client[c].job.req  got == client[c].got
          paid == IF Api(client[c].job.adapter) = "anthropic"
                  THEN Others(req.messages) ELSE req.messages
      IN  /\ got.finish \in Documented
          /\ (got.finish = "tool_calls") = (got.tools # Absent)
          /\ (got.tools # Absent) = (req.tools \notin {Absent, <<>>})
          /\ (got.tools = Absent /\ req.response_format = Absent /\ LastUser(req.messages).plain) =>
                got.content = <<LastUser(req.messages).text>>
          /\ got.usage.input = Tokens(paid)

\* Why the answer of a provider ended: its limit on tokens, or tools to be called.
CutShort(a, resp) ==
    IF Api(a) = "anthropic" THEN resp.stop = "max_tokens" ELSE resp.finish = "length"
CallsTools(a, resp) ==
    IF Api(a) = "anthropic" THEN resp.stop = "tool_use" ELSE resp.finish = "tool_calls"

\* `complete` against a provider: the finish reason is one of those listed; it says
\* "length" exactly when max_tokens cut the answer, whether in its text or at a call
\* of a tool, and "tool_calls" exactly when the answer waits for tools, which are
\* then there; and every text and every call of the answer is there, each in its
\* place, whatever else comes between them.
AnswersAreTranslated ==
    \A c \in Slots : (Completed(c) /\ ~AtMock(client[c].job)) =>
      LET a == client[c].job.adapter  got == client[c].got  heard == client[c].heard IN
      /\ got.finish \in Documented
      /\ got.finish = "length" <=> CutShort(a, heard)
      /\ got.finish = "tool_calls" <=> CallsTools(a, heard)
      /\ got.finish = "tool_calls" => got.tools # Absent
      /\ IF Api(a) = "anthropic"
         THEN LET texts == BlocksOf(heard, "text")  calls == BlocksOf(heard, "tool_use") IN
              /\ Len(got.content) = Cardinality(texts)
              /\ \A i \in texts : got.content[Nth(texts, i)] = heard.blocks[i].text
              /\ Len(Or(got.tools, <<>>)) = Cardinality(calls)
              /\ \A i \in calls : got.tools[Nth(calls, i)].name = heard.blocks[i].name
         ELSE /\ got.content = Or(heard.content, <<>>)
              /\ Or(got.tools, <<>>) = Or(heard.tools, <<>>)

\* Whoever answers, the caller of an adapter is told what the answer was.
AnswersAreUnderstood == AnswersWhatWasAsked /\ AnswersAreTranslated

\* GET /models lists every model as provider/key of its price list. Taking the
\* provider off leads to the adapter and the tier that are listed, also for keys that
\* have a maker before a slash; the whole id is a key for the Anthropic adapter
\* only, which takes the prefix off itself, and a KeyError for the others. No tier
\* charges more for cached input than for input.
CatalogueIsPriced ==
    \A entry \in ListModels(registry) :
      LET a == entry.id[1] IN
      /\ a = entry.provider
      /\ Pricing(a, Tail(entry.id)) = entry.pricing
      /\ Pricing(a, entry.id) = IF a = "anthropic" THEN entry.pricing ELSE Absent
      /\ Or(entry.pricing.cached, 0) <= entry.pricing.input
=============================================================================
