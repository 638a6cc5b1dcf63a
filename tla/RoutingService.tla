---------------------------- MODULE RoutingService ----------------------------
(* The processes of the backend and the routing configuration each of them    *)
(* caches: their start, the reload that SIGHUP asks of an HTTP process, and   *)
(* the gRPC processes that answer the gateway.  The document routing.yaml is  *)
(* shared and edited by an operator at any moment.                            *)
EXTENDS RoutingPolicy

CONSTANTS
    Http, Grpc,   \* processes of app.main and of app.grpc_main
    Documents,    \* contents of routing.yaml that an operator writes
    Hints,        \* hints of the requests of a run
    Wanted,       \* sets of models that ProviderScores is asked for
    Nil

Processes == Http \cup Grpc

\* int and float of _parse give numbers, of which only the order matters.
HasNumbers(d) ==
    /\ d.pool \in Seq({d.pool[i] : i \in DOMAIN d.pool})
    /\ \A i \in DOMAIN d.pool :
          /\ d.pool[i].price \in Int
          /\ d.pool[i].quality \in Int
          /\ d.pool[i].latency \in Int
    /\ d.fallback_max \in Int \cup {Absent}
    /\ d.quality_floor \in Int \cup {Absent}
    /\ d.latency_max \in Int \cup {Absent}

RoutingAssumption ==
    /\ Http \cap Grpc = {}
    /\ Documents # {}
    /\ Nil # "reloaded"
    /\ \A d \in Documents : WellFormed(d) => HasNumbers(d) /\ Parse(d) # Nil

ASSUME RoutingAssumption

VARIABLES
    file,         \* the document
    phase,        \* what each process is doing
    cache,        \* what get_routing_config has cached in each process
    parsed,       \* new_cfg of the reload under way in each process, or of the last
    edited,       \* history: the document changed since parsed was read
    log,          \* the last line of the SIGHUP handler of each process
    answer        \* the last answer of RoutingService, and what it was made of

vars == <<file, phase, cache, parsed, edited, log, answer>>

Configs == {Parse(d) : d \in {e \in Documents : WellFormed(e)}}

\* down; opening Redis, then for HTTP the event bus; serving; in the middle of a
\* reload, between its two readings of the document.
Phases == {"down", "redis", "bus", "up", "reload"}

TypeOK ==
    /\ file \in Documents
    /\ phase \in [Processes -> Phases]
    /\ cache \in [Processes -> Configs \cup {Nil}]
    /\ parsed \in [Processes -> Configs \cup {Nil}]
    /\ edited \in [Processes -> BOOLEAN]
    /\ log \in [Processes -> {"reloaded", "reload_failed", Nil}]
    /\ answer = Nil \/ answer.rpc \in {"ResolveModel", "ProviderScores"}

Init ==
    /\ file \in Documents
    /\ phase = [p \in Processes |-> "down"]
    /\ cache = [p \in Processes |-> Nil]
    /\ parsed = [p \in Processes |-> Nil]
    /\ edited = [p \in Processes |-> FALSE]
    /\ log = [p \in Processes |-> Nil]
    /\ answer = Nil

Goto(p, from, to) ==
    /\ phase[p] = from
    /\ phase' = [phase EXCEPT ![p] = to]

\* What the SIGHUP handler logs when the reload returns or raises.
Logged(p, ok) == log' = [log EXCEPT ![p] = IF ok THEN "reloaded" ELSE "reload_failed"]

-----------------------------------------------------------------------------
\* init_db: the engine connects at its first use, nothing can fail here.
InitDb(p) ==
    /\ Goto(p, "down", "redis")
    /\ UNCHANGED <<file, cache, parsed, edited, log, answer>>

\* The process ends, and what it held is gone.
Die(p) ==
    /\ phase' = [phase EXCEPT ![p] = "down"]
    /\ cache' = [cache EXCEPT ![p] = Nil]
    /\ parsed' = [parsed EXCEPT ![p] = Nil]
    /\ edited' = [edited EXCEPT ![p] = FALSE]
    /\ log' = [log EXCEPT ![p] = Nil]
    /\ UNCHANGED <<file, answer>>

\* init_redis pings, and a server that does not answer ends the start.  The gRPC
\* process registers its servicers and serves.
InitRedis(p) ==
    \/ /\ Goto(p, "redis", IF p \in Http THEN "bus" ELSE "up")
       /\ UNCHANGED <<file, cache, parsed, edited, log, answer>>
    \/ phase[p] = "redis" /\ Die(p)

\* init_event_bus connects and finds or adds the stream; then the SIGHUP handler
\* is installed and requests are served.
InitEventBus(p) ==
    \/ /\ Goto(p, "bus", "up")
       /\ UNCHANGED <<file, cache, parsed, edited, log, answer>>
    \/ phase[p] = "bus" /\ Die(p)

\* SIGTERM, a crash, an eviction; and SIGHUP where nobody handles it, in a gRPC
\* process at any time and in an HTTP process that is still starting.
Stop(p) == phase[p] # "down" /\ Die(p)

-----------------------------------------------------------------------------
\* Slip: the cache is cleared before the new document is validated.
HupClearsFirst(p) ==
    /\ \/ ~WellFormed(file) /\ phase[p] = "up" /\ UNCHANGED <<phase, parsed>>
          /\ Logged(p, FALSE)
       \/ WellFormed(file) /\ Goto(p, "up", "reload") /\ UNCHANGED log
          /\ parsed' = [parsed EXCEPT ![p] = Parse(file)]
    /\ cache' = [cache EXCEPT ![p] = Nil]
    /\ edited' = [edited EXCEPT ![p] = FALSE]
    /\ UNCHANGED <<file, answer>>

\* SIGHUP in an HTTP process: reload_routing_config reads and parses; what fails
\* here leaves the cache alone.
Hup(p) ==
    /\ \/ /\ ~WellFormed(file)
          /\ phase[p] = "up"
          /\ Logged(p, FALSE)
          /\ UNCHANGED <<phase, parsed>>
       \/ /\ WellFormed(file)
          /\ Goto(p, "up", "reload")
          /\ parsed' = [parsed EXCEPT ![p] = Parse(file)]
          /\ UNCHANGED log
    /\ edited' = [edited EXCEPT ![p] = FALSE]
    /\ UNCHANGED <<file, cache, answer>>

\* Slip: nobody compares the second reading with the first.
SwapUnasserted(p) ==
    /\ Goto(p, "reload", "up")
    /\ cache' = [cache EXCEPT ![p] = IF WellFormed(file) THEN Parse(file) ELSE Nil]
    /\ Logged(p, WellFormed(file))
    /\ UNCHANGED <<file, parsed, edited, answer>>

\* cache_clear, a second reading that fills the cache or fails, and the assertion
\* that the pool is the one that was validated.
Swap(p) ==
    LET good == WellFormed(file) /\ Parse(file).pool = parsed[p].pool
    IN /\ Goto(p, "reload", "up")
       /\ cache' = [cache EXCEPT ![p] = IF WellFormed(file) THEN Parse(file) ELSE Nil]
       /\ Logged(p, good)
       /\ UNCHANGED <<file, parsed, edited, answer>>

-----------------------------------------------------------------------------
\* get_routing_config, in a process that is asked: the cache, or else the document.
\* A failure is not cached.
Loaded(p) ==
    IF cache[p] # Nil THEN cache[p] ELSE IF WellFormed(file) THEN Parse(file) ELSE Nil

\* The servicers are registered with the server of a gRPC process and nowhere else.
Answers(p) == p \in Grpc /\ phase[p] = "up"

\* An RPC reads the configuration and answers from it alone.
Call(p, rpc, question, reply) ==
    /\ Answers(p)
    /\ cache' = [cache EXCEPT ![p] = Loaded(p)]
    /\ answer' = [rpc |-> rpc, question |-> question, config |-> Loaded(p),
                  reply |-> IF Loaded(p) = Nil THEN Failure ELSE reply]
    /\ UNCHANGED <<file, phase, parsed, edited, log>>

ResolveModel(p, hints) == Call(p, "ResolveModel", hints, Resolve(Loaded(p), hints))

AskScores(p, wanted) == Call(p, "ProviderScores", wanted, ProviderScores(Loaded(p), wanted))

\* The operator writes the document.
Edit(d) ==
    /\ d # file
    /\ file' = d
    /\ edited' = [p \in Processes |-> edited[p] \/ phase[p] = "reload"]
    /\ UNCHANGED <<phase, cache, parsed, log, answer>>

Next ==
    \/ \E p \in Processes : InitDb(p) \/ InitRedis(p) \/ Stop(p)
    \/ \E p \in Http : InitEventBus(p) \/ Hup(p) \/ Swap(p)
    \/ \E p \in Processes : \/ \E h \in Hints : ResolveModel(p, h)
                            \/ \E w \in Wanted : AskScores(p, w)
    \/ \E d \in Documents : Edit(d)

Spec == Init /\ [][Next]_vars

-----------------------------------------------------------------------------
Better(strategy, e, f) ==
    \/ strategy = "cost" /\ e.price < f.price
    \/ strategy = "latency" /\ e.latency < f.latency
    \/ strategy = "quality" /\ e.quality > f.quality

\* The entry at position i is a better choice than the one at j, or no worse and
\* listed earlier.
Ahead(cfg, i, j) ==
    LET better == Better(cfg.default_strategy, cfg.pool[i], cfg.pool[j])
        worse == Better(cfg.default_strategy, cfg.pool[j], cfg.pool[i])
    IN better \/ (~worse /\ i < j)

Least(m, n) == IF m < n THEN m ELSE n

\* The positions of the models that fit a request and the floors of a configuration.
Fitting(cfg, hints) ==
    {i \in DOMAIN cfg.pool :
       /\ \A need \in hints.needs : need \in cfg.pool[i].capabilities
       /\ hints.geo = "" \/ {hints.geo, "*"} \cap cfg.pool[i].geos # {}
       /\ hints.residency = {} \/ \E j \in hints.residency : j \in cfg.pool[i].residency
       /\ ~(cfg.pool[i].quality < cfg.quality_floor \/ cfg.latency_max < cfg.pool[i].latency)}

\* pick says which entries of the pool, all of them in fits, a chain names: each is
\* ahead of those that follow it, and of those that are left out.
IsBestChain(cfg, fits, chain, pick) ==
    /\ \A n \in DOMAIN chain : chain[n] = Target(cfg.pool[pick[n]])
    /\ \A m, n \in DOMAIN chain : m < n => Ahead(cfg, pick[m], pick[n])
    /\ \A n \in DOMAIN chain, i \in fits :
          i \in {pick[m] : m \in DOMAIN chain} \/ Ahead(cfg, pick[n], i)

\* An answer of ResolveModel names only models that fit the request and the floors
\* of the configuration, none of them twice, none before a better one, leaves out
\* none that is better than one it names, and names as many as fallback_max asks
\* for.  The sentinel answers exactly when no model fits.
ChosenWell ==
    answer # Nil /\ answer.rpc = "ResolveModel" /\ answer.config # Nil =>
       LET cfg == answer.config
           fits == Fitting(cfg, answer.question)
           chain == answer.reply.chain
       IN /\ (answer.reply = Sentinel) <=> fits = {}
          /\ fits # {} /\ cfg.default_strategy \in Strategies =>
                /\ \E pick \in [DOMAIN chain -> fits] : IsBestChain(cfg, fits, chain, pick)
                /\ chain # <<>>
                /\ cfg.fallback_max >= 0 =>
                      Len(chain) = Least(Cardinality(fits), cfg.fallback_max + 1)

\* scores lists the entries of the models in wanted, or all of them.
ListsThePool(cfg, wanted, scores) ==
    LET asked == {i \in DOMAIN cfg.pool : wanted # {} => cfg.pool[i].model \in wanted}
    IN \E at \in [DOMAIN scores -> asked] :
          /\ \A i \in asked : \E n \in DOMAIN scores : at[n] = i
          /\ \A n \in DOMAIN scores : scores[n].target = Target(cfg.pool[at[n]])
          /\ \A n \in DOMAIN scores : scores[n].score \in 0 .. One
          /\ \A m, n \in DOMAIN scores : m < n => at[m] < at[n]
          /\ \A m, n \in DOMAIN scores :
                cfg.pool[at[m]].latency <= cfg.pool[at[n]].latency => scores[m].score >= scores[n].score

\* An answer of ProviderScores lists the entries of the models it was asked for, or
\* of all, in the order of the pool and each once; scores are between 0 and 1, and a
\* faster entry never scores less.
ScoresInOrder ==
    answer # Nil /\ answer.rpc = "ProviderScores" /\ answer.config # Nil =>
       ListsThePool(answer.config, answer.question, answer.reply)

\* What a reload holds on to is the document, unless it was edited meanwhile.
Validated ==
    \A p \in Http : phase[p] = "reload" /\ ~edited[p] =>
       WellFormed(file) /\ parsed[p] = Parse(file)

\* A reload replaces the cached configuration by the one it validated or leaves it,
\* unless the document is edited between its two readings.
ReloadIsAtomicUnlessEdited ==
    [][\A p \in Http :
          phase[p] \in {"up", "reload"} /\ phase'[p] # "down" /\ ~edited[p] /\ cache'[p] # cache[p]
             => cache'[p] = parsed[p]]_vars

\* After a reload that logs success the process has the pool that was validated,
\* whatever was written meanwhile.
LogTellsTheTruth ==
    \A p \in Http : log[p] = "reloaded" =>
       /\ cache[p] # Nil
       /\ phase[p] = "up" => cache[p].pool = parsed[p].pool

\* A process that has not come up has not reloaded anything.
NoReloadYet ==
    \A p \in Http : phase[p] \in {"down", "redis", "bus"} => log[p] # "reloaded"

\* The last answer is what the policy makes of the configuration it was given from.
AnsweredFromConfig ==
    answer # Nil /\ answer.config # Nil =>
       /\ answer.config \in Configs
       /\ answer.rpc = "ResolveModel" => answer.reply = Resolve(answer.config, answer.question)
       /\ answer.rpc = "ProviderScores" =>
             answer.reply = ProviderScores(answer.config, answer.question)

\* What every process keeps, a reload holds on to, the log says and an answer is made
\* of: the inductive invariant.
RoutingInv == TypeOK /\ Validated /\ NoReloadYet /\ LogTellsTheTruth /\ AnsweredFromConfig
=============================================================================
