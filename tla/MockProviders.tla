---------------------------- MODULE MockProviders ----------------------------
(* The mock provider server: the scenario engine with its overrides, one-shot *)
(* statuses and counters, the control plane that changes them at any moment,  *)
(* and the provider routes. A handler runs on one event loop and gives it up  *)
(* while it sleeps and between the chunks of a stream. Rates are never, maybe *)
(* or always; a latency is "none" (no sleep) or "some".                       *)
EXTENDS ProviderAdapters, FiniteSetsExt, Functions

CONSTANTS
    Slots,          \* calls the server can have in hand
    Pairs,          \* (provider, route) pairs, as sequences of two
    Breakable,      \* the pairs the Python helpers are used on
    Orders,         \* what the control plane may set: [pair, fields]
    MaxForced,      \* bound: statuses ordered for a pair
    MaxRequests     \* bound: requests since the last reset

Unset == [force |-> Absent, limit |-> Absent, error |-> Absent, latency |-> Absent]
Defaults == [limit |-> "never", error |-> "never", latency |-> "some"]
NoStats == [requests |-> 0, errors |-> 0, limits |-> 0]
Refuses(status) == status # Absent /\ (status = 429 \/ status >= 500)

VARIABLES
    overrides,      \* pair -> scenario state, for the pairs that were set
    stats,
    server,         \* slot -> [pc, pair, body]
    wire,           \* slot -> what the server has sent for the call in hand
    due,            \* history: requests the counters have to end up with
    ordered         \* history: pair -> one-shot statuses set and not yet answered with

engine == <<overrides, stats, due, ordered>>
mockVars == <<engine, server, wire>>

Idle == [pc |-> "idle"]
Asleep(s) == server[s].pc = "asleep"
InHand == {s \in Slots : server[s].pc \in {"arrived", "asleep"}}

MockInit ==
    /\ overrides = <<>>
    /\ stats = NoStats
    /\ server = [s \in Slots |-> Idle]
    /\ wire = [s \in Slots |-> <<>>]
    /\ due = 0
    /\ ordered = [p \in Pairs |-> 0]

\* ---------------------------------------------------------------- engine
Get(p) == IF p \in DOMAIN overrides THEN overrides[p] ELSE Unset

Setting(p, field) == Or(Get(p)[field], Defaults[field])

\* Slip: the status is only read.
TakenNever(p) == overrides

Taken(p) ==
    IF p \in DOMAIN overrides THEN [overrides EXCEPT ![p].force = Absent] ELSE overrides

Recorded(error, limit) ==
    [requests |-> stats.requests + 1, errors |-> stats.errors + error, limits |-> stats.limits + limit]

\* setattr for every field that the scenario state has.
Over(fields, state) == [k \in DOMAIN state |-> IF k \in DOMAIN fields THEN fields[k] ELSE state[k]]

\* A field of an order may be Absent only through heal_provider: the route of the
\* control plane leaves the fields that are null out of the payload.
Set(o) ==
    LET forces == "force" \in DOMAIN o.fields /\ Refuses(o.fields.force) IN
    /\ forces => ordered[o.pair] < MaxForced
    /\ overrides' = [p \in DOMAIN overrides \union {o.pair} |->
                        IF p = o.pair THEN Over(o.fields, Get(p)) ELSE overrides[p]]
    /\ ordered' = [ordered EXCEPT ![o.pair] = IF forces THEN @ + 1 ELSE @]
    /\ UNCHANGED <<stats, server, wire, due>>

BreakProvider(p, status) == Set([pair |-> p, fields |-> [force |-> status]])
HealProvider(p) == Set([pair |-> p, fields |-> [force |-> Absent]])

\* Calls in hand are counted in the new counters when they are answered.
Reset ==
    /\ overrides' = <<>>
    /\ stats' = NoStats
    /\ due' = Cardinality(InHand)
    /\ ordered' = [p \in Pairs |-> 0]
    /\ UNCHANGED <<server, wire>>

Control ==
    \/ \E o \in Orders : Set(o)
    \/ \E p \in Breakable : BreakProvider(p, 503) \/ HealProvider(p)
    \/ Reset

\* ---------------------------------------------------------------- answers
Approx(chars) == IF chars < 4 THEN 1 ELSE chars \div 4

Tokens(messages) == FoldFunction(LAMBDA m, sum : sum + Approx(m.chars), 0, messages)

LastUser(messages) ==
    LET users == {i \in DOMAIN messages : messages[i].role = "user"}
    IN  IF users = {} THEN [text |-> Absent, said |-> 0, plain |-> FALSE] ELSE messages[Max(users)]

Echo(m) == [text |-> m.text, chars |-> 17 + Min({80, m.said})]

\* OpenAI shape; a tool is [name, nested]: nested tools carry their name in "function".
ChatResponse(body) ==
    LET last  == LastUser(body.messages)
        reply == IF last.plain THEN Echo(last) ELSE [text |-> Absent, chars |-> 17]
        json  == body.response_format = "json_schema"
        Answer(content, chars, tools, finish) ==
            [content |-> content, tools |-> tools, finish |-> finish, cached |-> Absent,
             input |-> Tokens(body.messages), output |-> Approx(chars)]
    IN  IF body.tools # Absent
        THEN Answer(Absent, 9, <<[name |-> IF body.tools[1].nested THEN body.tools[1].name
                                           ELSE "do_something", arguments |-> "string"]>>,
                    "tool_calls")
        ELSE IF json THEN Answer(<<"mocked">>, 40, Absent, "stop")
        ELSE Answer(<<reply.text>>, reply.chars, Absent, "stop")

\* Anthropic shape: names are at the top level, and the system prompt is not counted.
MessagesResponse(body) ==
    LET last  == LastUser(body.messages)
        tool  == body.tools[1]
        block == IF body.tools # Absent
                 THEN [type |-> "tool_use", name |-> IF tool.nested THEN "do_something" ELSE tool.name,
                       chars |-> IF tool.nested THEN 12 ELSE tool.chars]
                 ELSE [type |-> "text", text |-> Echo(last).text, chars |-> Echo(last).chars]
    IN  [blocks |-> <<block>>, stop |-> IF body.tools # Absent THEN "tool_use" ELSE "end_turn",
         cached |-> Absent, input |-> Tokens(body.messages), output |-> Approx(block.chars)]

\* Google shape: the parts of all contents, an inline part without text counting one.
GenerateContentResponse(body) ==
    LET Texts(c) == SelectSeq(body.contents[c], LAMBDA part : part.text # Absent)
        spoken == {c \in DOMAIN body.contents : Texts(c) # <<>>}
        reply == Echo(IF spoken = {} THEN [text |-> Absent, said |-> 0] ELSE Texts(Max(spoken))[1])
        input == FoldFunction(LAMBDA c, sum : sum + Tokens(c), 0, body.contents)
    IN  [content |-> <<reply.text>>, finish |-> "STOP", input |-> input, output |-> Approx(reply.chars)]

\* body.n is what int() makes of `n` or `dimensions`, Absent when it raises.
EmbeddingsResponse(body) ==
    [data |-> [i \in DOMAIN body.inputs |-> i - 1], input |-> Tokens(body.inputs)]

ImagesResponse(body) == [data |-> [i \in 1 .. body.n |-> body.format]]

Response(p, body) ==
    CASE p[2] = "chat" -> ChatResponse(body)
      [] p[2] = "messages" -> MessagesResponse(body)
      [] p[2] = "generateContent" -> GenerateContentResponse(body)
      [] p[2] = "embeddings" -> EmbeddingsResponse(body)
      [] p[2] = "images" -> ImagesResponse(body)

\* The routes that read a number raise before they count, which FastAPI makes a 500.
Raises(p, body) == p[2] \in {"embeddings", "images"} /\ body.n = Absent

\* The three words of the reply, in the events of either API.
ChatEvents ==
    <<"role", "word", "word", "word", "finish">>

MessagesEvents ==
    <<"message_start", "content_block_start", "content_block_delta", "content_block_delta",
      "content_block_delta", "content_block_stop", "message_delta", "message_stop">>

Events(p) == IF p[2] = "messages" THEN MessagesEvents ELSE ChatEvents

\* Only these two routes look at the flag.
IsStream(p, body) == p[2] \in {"chat", "messages"} /\ body.stream
Streams(s) == IsStream(server[s].pair, server[s].body)

\* ---------------------------------------------------------------- handler
\* POST of a body; FastAPI reads it before anything else happens.
Arrive(s, p, body) ==
    /\ server[s] = Idle
    /\ due < MaxRequests
    /\ server' = [server EXCEPT ![s] = [pc |-> "arrived", pair |-> p, body |-> body]]
    /\ wire' = [wire EXCEPT ![s] = <<>>]
    /\ due' = due + 1
    /\ UNCHANGED <<overrides, stats, ordered>>

Refuse(s, status) ==
    /\ stats' = IF status = 429 THEN Recorded(0, 1) ELSE Recorded(1, 0)
    /\ wire' = [wire EXCEPT ![s] = <<status>>]
    /\ server' = [server EXCEPT ![s] = Idle]
    /\ UNCHANGED due

\* Nothing is recorded, so the counters have one call less to end up with.
Raise500(s) ==
    /\ Raises(server[s].pair, server[s].body)
    /\ wire' = [wire EXCEPT ![s] = <<500>>]
    /\ server' = [server EXCEPT ![s] = Idle]
    /\ due' = due - 1
    /\ UNCHANGED stats

SendAnswer(s) ==
    IF Streams(s)
    THEN /\ wire' = [wire EXCEPT ![s] = <<200>>]
         /\ server' = [server EXCEPT ![s].pc = "streaming"]
    ELSE /\ wire' = [wire EXCEPT ![s] = <<200, [body |-> Response(server[s].pair, server[s].body)]>>]
         /\ server' = [server EXCEPT ![s] = Idle]

\* Slip: a stream is not counted.
RespondUncounted(s) ==
    \/ Raise500(s)
    \/ /\ ~Raises(server[s].pair, server[s].body)
       /\ stats' = IF Streams(s) THEN stats ELSE Recorded(0, 0)
       /\ SendAnswer(s)
       /\ UNCHANGED due

\* What follows the sleep: the request is counted before its first chunk is sent.
Respond(s) ==
    \/ Raise500(s)
    \/ /\ ~Raises(server[s].pair, server[s].body)
       /\ stats' = Recorded(0, 0)
       /\ SendAnswer(s)
       /\ UNCHANGED due

\* A forced status that is neither 429 nor 500 and more is taken and forgotten.
MaybeInjectError(s) ==
    LET p == server[s].pair  forced == Get(p).force IN
    /\ server[s].pc = "arrived"
    /\ overrides' = Taken(p)
    /\ \/ /\ Refuses(forced)
          /\ Refuse(s, forced)
          /\ ordered' = [ordered EXCEPT ![p] = @ - 1]
       \/ /\ ~Refuses(forced)
          /\ ordered' = ordered
          /\ \/ Setting(p, "limit") # "never" /\ Refuse(s, 429)
             \/ /\ Setting(p, "limit") # "always"
                /\ \/ Setting(p, "error") # "never" /\ \E status \in {500, 503} : Refuse(s, status)
                   \/ /\ Setting(p, "error") # "always"
                      /\ IF Setting(p, "latency") = "none"
                         THEN Respond(s)
                         ELSE /\ server' = [server EXCEPT ![s].pc = "asleep"]
                              /\ UNCHANGED <<stats, wire, due>>

Wake(s) ==
    /\ Asleep(s)
    /\ Respond(s)
    /\ UNCHANGED <<overrides, ordered>>

\* wire holds the status and then the events.
StreamChunk(s) ==
    LET sent == Len(wire[s]) - 1  events == Events(server[s].pair) IN
    /\ server[s].pc = "streaming"
    /\ IF sent < Len(events)
       THEN /\ wire' = [wire EXCEPT ![s] = Append(@, [event |-> events[sent + 1]])]
            /\ UNCHANGED server
       ELSE /\ wire' = [wire EXCEPT ![s] = Append(@, [event |-> "[DONE]"])]
            /\ server' = [server EXCEPT ![s] = Idle]
    /\ UNCHANGED engine

\* The client of a stream has gone: the generator is cancelled where it is.
Cancel(s) ==
    /\ server[s].pc = "streaming"
    /\ server' = [server EXCEPT ![s] = Idle]
    /\ UNCHANGED <<engine, wire>>

Handle(s) == MaybeInjectError(s) \/ Wake(s) \/ StreamChunk(s)
=============================================================================
