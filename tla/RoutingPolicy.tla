---------------------------- MODULE RoutingPolicy ----------------------------
(* How the backend chooses a model for "openrouter/auto": what it makes of    *)
(* routing.yaml, which entries of the pool fit the hints of a request, how a  *)
(* strategy ranks them, and the answers of the two RPCs of RoutingService.    *)
(* Prices, scores and latencies are naturals: only their order matters.      *)
EXTENDS Integers, Sequences, FiniteSets

CONSTANTS
    Absent,       \* a key that the document does not have
    Garbled       \* a document that is no YAML, no mapping, or has no numbers
                  \* where int and float expect them

Strategies == {"cost", "latency", "quality"}

\* safe_load and _parse do not raise: for one, every item has the keys it must.
WellFormed(raw) ==
    /\ raw # Garbled
    /\ \A i \in DOMAIN raw.pool :
          \A key \in {"model", "provider", "price", "quality", "latency"} :
             raw.pool[i][key] # Absent

Default(value, otherwise) == IF value = Absent THEN otherwise ELSE value

\* PoolEntry, from an item of the document.
PoolEntry(item) ==
    [model |-> item.model, provider |-> item.provider,
     price |-> item.price, quality |-> item.quality, latency |-> item.latency,
     capabilities |-> Default(item.capabilities, {}),
     geos |-> Default(item.geos, {"*"}),
     residency |-> Default(item.residency, {"global"})]

\* _parse, of a well-formed document.
Parse(raw) ==
    [default_strategy |-> Default(raw.default_strategy, "cost"),
     fallback_max |-> Default(raw.fallback_max, 2),
     pool |-> [i \in DOMAIN raw.pool |-> PoolEntry(raw.pool[i])],
     quality_floor |-> Default(raw.quality_floor, 0),
     latency_max |-> Default(raw.latency_max, 1000000)]

Within(entry, hints) ==
    /\ hints.needs \subseteq entry.capabilities
    /\ hints.geo = "" \/ "*" \in entry.geos \/ hints.geo \in entry.geos
    /\ hints.residency = {} \/ hints.residency \cap entry.residency # {}

KeepsToTheFloors(cfg, entry) ==
    entry.quality >= cfg.quality_floor /\ entry.latency <= cfg.latency_max

\* Slip: a geo that the entry does not list is let through.
FilterAnywhere(cfg, hints) ==
    {i \in DOMAIN cfg.pool : /\ Within(cfg.pool[i], [hints EXCEPT !.geo = ""])
                             /\ KeepsToTheFloors(cfg, cfg.pool[i])}

\* RoutingConfig.filter: the positions of the pool that fit the hints and keep to
\* the floors.
Filter(cfg, hints) ==
    {i \in DOMAIN cfg.pool : Within(cfg.pool[i], hints) /\ KeepsToTheFloors(cfg, cfg.pool[i])}

\* What a strategy sorts by, smallest first.
SortKey(strategy, e) ==
    CASE strategy = "cost"    -> e.price
      [] strategy = "latency" -> e.latency
      [] strategy = "quality" -> -e.quality

Precedes(key, i, j) == key[i] < key[j] \/ (key[i] = key[j] /\ i < j)

\* The numbers of S, smallest key first and, as sorted() has it, in their own order
\* where keys are equal.
InOrder(S, key) ==
    CHOOSE f \in [1 .. Cardinality(S) -> S] :
       \A m, n \in 1 .. Cardinality(S) : m < n => Precedes(key, f[m], f[n])

\* RoutingStrategy.choose, of the candidates at the positions S of the pool.
Ranked(strategy, pool, S) == InOrder(S, [i \in S |-> SortKey(strategy, pool[i])])

\* s[:n] of Python: a negative n counts from the end.
Slice(s, n) ==
    LET m == Len(s)
    IN SubSeq(s, 1, IF n < 0 THEN (IF m + n < 0 THEN 0 ELSE m + n) ELSE IF n < m THEN n ELSE m)

Sentinel == [chain |-> <<[model |-> "gpt-4o-mini", provider |-> "openai"]>>, strategy |-> "sentinel"]

\* StrategyRegistry.get raises KeyError.
Failure == [chain |-> <<>>, strategy |-> "error"]

Target(e) == [model |-> e.model, provider |-> e.provider]

\* ResolveModel: the best candidate, then at most fallback_max others.
Resolve(cfg, hints) ==
    LET fits == Filter(cfg, hints)
        ranked == Ranked(cfg.default_strategy, cfg.pool, fits)
        chosen == <<ranked[1]>> \o Slice(Tail(ranked), cfg.fallback_max)
    IN IF fits = {} THEN Sentinel
       ELSE IF cfg.default_strategy \notin Strategies THEN Failure
       ELSE [chain |-> [n \in DOMAIN chosen |-> Target(cfg.pool[chosen[n]])],
             strategy |-> cfg.default_strategy]

\* A score of 1.0: scores are in thousandths.
One == 1000

\* Slip: nothing keeps the score above 0.
ScoreUnclamped(e) == One - (e.latency * One) \div 2000

\* ProviderScores: 1 - latency / 2000 ms, between 0 and 1.
Score(e) ==
    LET s == One - (e.latency * One) \div 2000
    IN IF s < 0 THEN 0 ELSE IF s > One THEN One ELSE s

ProviderScores(cfg, wanted) ==
    LET S == {i \in DOMAIN cfg.pool : wanted = {} \/ cfg.pool[i].model \in wanted}
        order == InOrder(S, [i \in S |-> i])
    IN [n \in DOMAIN order |-> [target |-> Target(cfg.pool[order[n]]),
                                score |-> Score(cfg.pool[order[n]])]]
=============================================================================
