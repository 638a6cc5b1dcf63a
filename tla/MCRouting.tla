----------------------------- MODULE MCRouting -----------------------------
(* Six contents of routing.yaml: one per strategy, with every floor, default  *)
(* and kind of fallback_max among them, one with a strategy that is not       *)
(* registered and the pool of the first, one that lacks a price, and garbage. *)
EXTENDS RoutingService

CONSTANTS http, grpc, gpt, qwen, gemma, openai, fireworks

Item(model, provider, price, quality, latency, capabilities, geos, residency) ==
    [model |-> model, provider |-> provider, price |-> price, quality |-> quality,
     latency |-> latency, capabilities |-> capabilities, geos |-> geos, residency |-> residency]

Document(strategy, fallbacks, floor, ceiling, pool) ==
    [default_strategy |-> strategy, fallback_max |-> fallbacks, quality_floor |-> floor,
     latency_max |-> ceiling, pool |-> pool]

LargePool ==
    <<Item(gpt, openai, 25, 92, 2400, {"text", "vision", "tools"}, Absent, {"us"}),
      Item(qwen, fireworks, 2, 88, 600, {"text", "tools"}, {"de"}, Absent),
      Item(gemma, fireworks, 2, 82, 480, {"text"}, {"*"}, {"us", "eu"}),
      Item(gemma, openai, 1, 55, 90, Absent, {"*"}, {"eu"})>>

MCDocuments ==
    {Document(Absent, Absent, 70, Absent, LargePool),
     Document("latency", 1, Absent, 600, LargePool),
     Document("quality", -1, Absent, Absent, Tail(LargePool)),
     Document("semantic", 0, 70, Absent, LargePool),
     Document("cost", 2, 0, 5000, <<[LargePool[1] EXCEPT !.price = Absent]>>),
     Garbled}

MCHints ==
    {[needs |-> {}, geo |-> "", residency |-> {}],
     [needs |-> {"tools"}, geo |-> "de", residency |-> {}],
     [needs |-> {"text"}, geo |-> "fr", residency |-> {"eu", "global"}],
     [needs |-> {"vision"}, geo |-> "", residency |-> {"eu"}]}
============================================================================
