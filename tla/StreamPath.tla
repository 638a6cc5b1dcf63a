------------------------------ MODULE StreamPath ------------------------------
(***************************************************************************)
(* A streamed answer on its way from an upstream through the gateway's     *)
(* translator to the reader in the CLI.  The two ends share the response   *)
(* body and nothing else.                                                  *)
(***************************************************************************)
EXTENDS StreamTranslator, SseReader

vars == <<gatewayVars, readerVars, wire, closed>>

Init == GatewayInit /\ ReaderInit

GatewayStep == Gateway /\ UNCHANGED readerVars
ReaderStep == Reader /\ UNCHANGED <<gatewayVars, wire, closed>>
ReaderAborts == Abort /\ UNCHANGED <<gatewayVars, wire, closed>>

Next == GatewayStep \/ ReaderStep \/ ReaderAborts

\* Both ends run on, and the timeout of the gateway's HTTP client (pool.go)
\* ends a read that gets nothing.
FairSpec == Init /\ [][Next]_vars /\ WF_vars(GatewayStep) /\ WF_vars(ReaderStep)

-----------------------------------------------------------------------------
(* The answer an upstream gives, read off its events and not off the text. *)

Events == upstream.events

\* The message an event belongs to: that of the latest message_start.
IdAt(i) ==
    LET starts == {j \in 1..(i - 1) : /\ Events[j].name = "message_start"
                                      /\ Events[j].docs # <<>>}
    IN  IF starts = {} THEN Blank ELSE Events[Max(starts)].docs[1].id

\* Events the translator gives up at: two documents in one event are none.
Fatal(e) ==
    /\ e.name \in Parsed
    /\ Len(e.docs) > 1 \/ Contains(e.docs, Bad) \/ Contains(e.docs, Done)

Meaning(i) ==
    LET e == Events[i]
    IN  CASE e.docs = <<>> -> <<>>
          [] e.docs # <<>> /\ upstream.adapter = "openai" ->
                IF Len(e.docs) > 1 \/ e.docs[1] = Bad THEN <<>> ELSE e.docs
          [] OTHER -> ChunksOf(e.name, e.docs[1], IdAt(i))

\* The first k events, up to one that ends the answer early.
Upto(k) ==
    LET ends == {i \in 1..k : IF upstream.adapter = "openai"
                              THEN Events[i].docs = <<Done>> ELSE Fatal(Events[i])}
    IN  IF ends = {} THEN k ELSE Min(ends) - 1

ChunksUpto(k) == FlattenSeq([i \in 1..Upto(k) |-> Meaning(i)])

Answer == ChunksUpto(Len(Events))

\* How many events the gateway has read to their end.
Arrived ==
    Max({k \in 0..Len(Events) : Len(TextOf(SubSeq(Events, 1, k), upstream.eol)) <= pos})

\* The gateway came to the end of the text, and of it alone.
Whole == pc = "over" /\ pos = Len(text) /\ ErrorBody \notin ToSet(wire)

-----------------------------------------------------------------------------
(* Whenever the translator waits for more bytes it has written exactly the *)
(* chunks of the events that have arrived whole: where the reads cut the   *)
(* text leaves no trace, and nothing of one event leaks into the next      *)
(* (anthropic.go, Translate and its carry-over).                           *)
TranslatedSoFar ==
    pc = "read" /\ upstream.adapter = "anthropic" =>
        wire = FlattenSeq([i \in 1..Len(ChunksUpto(Arrived)) |->
                               EventOf(ChunksUpto(Arrived)[i])])

(* A translated stream says [DONE] once, as its last word, and only when   *)
(* the upstream ended without an error (proxy.go, finishStream).           *)
DoneIsLast ==
    upstream.adapter = "anthropic" =>
        \A i \in DOMAIN wire : wire[i] = DataHead(Done) =>
            /\ SubSeq(wire, i, Len(wire)) = EventOf(Done)
            /\ finished /\ closed

(* From end to end the stream is a StreamRelay: the CLI yields the chunks  *)
(* of the upstream's answer in order, each once, none made up, and when    *)
(* the stream ends as it should it has yielded them all, whatever the      *)
(* sizes of the reads on either side.                                      *)
Complete ==
    \/ rpc = "sentinel" /\ upstream.adapter = "openai"
    \/ rpc \in {"sentinel", "drained"} /\ Whole

Relay == INSTANCE StreamRelay WITH
    answer <- Answer,
    got <- yielded,
    over <- IF rpc \in {"read", "events"} THEN "no" ELSE IF Complete THEN "whole" ELSE "broken"
Relayed == Relay!Spec

(* The generator of the CLI always comes to its end.                       *)
ReaderEnds == <>(rpc \in {"sentinel", "drained", "aborted"})
================================================================================
