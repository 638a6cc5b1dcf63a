------------------------------ MODULE MCStreamPath ------------------------------
(* Answers for StreamPath, for TLC: well-formed ones, tool use, pings and     *)
(* comments, unnamed events, malformed documents, an event of two documents.  *)
EXTENDS StreamPath

Event(name, docs) == [name |-> name, docs |-> docs, comment |-> FALSE]
Ping == [name |-> "ping", docs |-> <<Bad>>, comment |-> TRUE]
Start(i) == Event("message_start", <<[kind |-> "message_start", id |-> i]>>)
TextDelta(s) == [kind |-> "text_delta", text |-> s]
Delta(s) == Event("content_block_delta", <<TextDelta(s)>>)
Stop(r) == Event("message_delta", <<[kind |-> "message_delta", reason |-> r]>>)
KeepAlive == [name |-> "", docs |-> <<>>, comment |-> TRUE]

Scripts == {
    <<Start("m"), Delta("a"), Stop("max_tokens")>>,
    <<Start("m"), Event("content_block_delta", <<[kind |-> "input_json_delta"]>>),
      Delta("a"), Event("error", <<Bad>>)>>,
    <<Ping, Start("m"), Delta(""), Delta("a")>>,
    <<Start("m"), Event("", <<TextDelta("b")>>), Delta("a"), Stop("")>>,
    <<Start("m"), Event("content_block_delta", <<>>), Delta("a")>>,
    <<Start("m"), Event("content_block_delta", <<Bad>>), Delta("a")>>,
    <<Start("m"), Delta("a"), Event("content_block_delta", <<Done>>)>>,
    <<Delta("a"), Event("content_block_delta", <<TextDelta("a"), TextDelta("b")>>)>> }

C(s) == Event("", <<Chunk("m", "", s, "")>>)
End == Event("", <<Done>>)

PlainScripts == {
    <<C("a"), C("b"), End>>,
    <<KeepAlive, C("a"), Event("", <<Bad>>), C("b")>>,
    <<C("a"), End, C("b")>>,
    <<C("a"), Ping, C("b"), End>> }

MCAnswers ==
    [adapter: {"anthropic"}, events: Scripts, eol: {<<LF>>, <<CR, LF>>}]
        \cup [adapter: {"openai"}, events: PlainScripts, eol: {<<LF>>, <<CR, LF>>}]
================================================================================
