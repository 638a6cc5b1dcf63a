---------------------------- MODULE StreamTranslator ----------------------------
(***************************************************************************)
(* Proxy.streamResponse: the body of an upstream answer is read in pieces  *)
(* of any size and goes through the stream translator of the adapter, that *)
(* of Anthropic (a parser with carry-over) or the passthrough of OpenAI.   *)
(*                                                                         *)
(* Each turn of the loop in Translate is a step, since every write reaches *)
(* the client.  An attempt that fails is taken to be the last of the       *)
(* chain: the gateway's error body follows what was written (ProxyChain    *)
(* has the chain).  Timestamps and the model name are left out of a chunk. *)
(***************************************************************************)
EXTENDS SseWire

CONSTANT Answers   \* what upstreams may send: records [adapter, events, eol]

VARIABLES
    upstream,      \* the answer under way
    text,          \* its body
    pos,           \* how much of its text was read
    lineBuf, currentEvent, currentData, id, finished,   \* the translator
    pc             \* "read", "lines" (inside Translate) or "over"

\* An event may have any name and documents; its lines end in one of two ways.
ASSUME AnswersAssumption ==
    \A a \in Answers :
        /\ a.eol \in {<<LF>>, <<CR, LF>>}
        /\ a.events \in Seq(ToSet(a.events))
        /\ \A e \in ToSet(a.events) : e.comment \in BOOLEAN /\ e.docs \in Seq(ToSet(e.docs))

translator == <<lineBuf, currentEvent, currentData, id, finished>>
gatewayVars == <<upstream, text, pos, translator, pc>>

\* An event of the upstream: its name ("" for none), its documents, one data
\* line each, and whether a comment line comes with it.
EventText(e, eol) ==
    (IF e.comment THEN <<Comment>> \o eol ELSE <<>>)
    \o (IF e.name # Blank THEN <<EventField(e.name)>> \o eol ELSE <<>>)
    \o FlattenSeq([i \in 1..Len(e.docs) |-> DataLine(e.docs[i]) \o eol])
    \o eol

TextOf(events, eol) == FlattenSeq([i \in 1..Len(events) |-> EventText(events[i], eol)])

GatewayInit ==
    /\ upstream \in Answers
    /\ text = TextOf(upstream.events, upstream.eol)
    /\ pos = 0
    /\ lineBuf = <<>> /\ currentEvent = Blank /\ currentData = <<>>
    /\ id = Blank /\ finished = FALSE
    /\ pc = "read"
    /\ wire = <<>>
    /\ closed = FALSE

-----------------------------------------------------------------------------
\* One event, data and all, in one go.
EventOf(doc) == DataLine(doc) \o <<LF, LF>>

WriteChunk(doc) == wire' = wire \o EventOf(doc)

\* src.Read gives the next n fragments; the passthrough writes them, the
\* translator appends them to its line buffer.
Read(n) ==
    LET chunk == SubSeq(text, pos + 1, pos + n)
    IN  /\ pc = "read"
        /\ pos + n <= Len(text)
        /\ pos' = pos + n
        /\ IF upstream.adapter = "openai"
           THEN wire' = wire \o chunk /\ UNCHANGED <<lineBuf, pc>>
           ELSE lineBuf' = lineBuf \o chunk /\ pc' = "lines" /\ UNCHANGED wire
        /\ UNCHANGED <<upstream, text, currentEvent, currentData, id, finished, closed>>

\* The next whole line, taken off the buffer.
NextLine == WithoutCR(LineAt(lineBuf, 1))

TakesLine ==
    /\ pc = "lines"
    /\ Contains(lineBuf, LF)
    /\ lineBuf' = SubSeq(lineBuf, Len(LineAt(lineBuf, 1)) + 2, Len(lineBuf))

\* consumeLine: a field goes into the event being read.
ConsumeLine ==
    /\ TakesLine
    /\ NextLine # <<>>
    /\ currentEvent' = IF IsField(NextLine, "event") THEN NextLine[1].name ELSE currentEvent
    /\ currentData' = IF ~IsField(NextLine, "data") THEN currentData
                      ELSE IF currentData = <<>> THEN NextLine
                      ELSE currentData \o <<LF>> \o NextLine
    /\ UNCHANGED <<upstream, text, pos, id, finished, pc, wire, closed>>

-----------------------------------------------------------------------------
\* mapAnthropicStopReason.
FinishReason(reason) ==
    CASE reason = "max_tokens" -> "length"
      [] reason = "tool_use" -> "tool_calls"
      [] OTHER -> "stop"

\* Events whose document the translator unmarshals.
Parsed == {"message_start", "content_block_delta", "message_delta"}

\* What the event of this name and document makes the translator write, a
\* sequence of at most one chunk; i is the id of the message.
ChunksOf(name, doc, i) ==
    CASE name = "message_start" -> <<Chunk(doc.id, "assistant", "", "")>>
      [] name = "content_block_delta" ->
            IF doc.kind # "text_delta" \/ doc.text = "" THEN <<>>
            ELSE <<Chunk(i, "", doc.text, "")>>
      [] name = "message_delta" ->
            IF doc.reason = "" THEN <<>> ELSE <<Chunk(i, "", "", FinishReason(doc.reason))>>
      [] name = "error" -> <<Chunk(i, "", "", "error")>>
      [] OTHER -> <<>>

Written(chunks) == IF chunks = <<>> THEN <<>> ELSE EventOf(chunks[1])

Pending == currentEvent # Blank /\ currentData # <<>>

\* Translate fails on a document that does not parse.
Malformed == Pending /\ currentEvent \in Parsed /\ Json(currentData) = Bad

\* An empty line ends the event; what was gathered for it is dropped.
Dispatch ==
    /\ TakesLine
    /\ NextLine = <<>>
    /\ ~Malformed
    /\ IF Pending
       THEN LET doc == Json(currentData)
            IN  /\ id' = IF currentEvent = "message_start" THEN doc.id ELSE id
                /\ wire' = wire \o Written(ChunksOf(currentEvent, doc, id))
       ELSE UNCHANGED <<id, wire>>
    /\ currentEvent' = Blank
    /\ currentData' = <<>>
    /\ UNCHANGED <<upstream, text, pos, finished, pc, closed>>

\* Slip: a partial line does not survive the call it arrived in.
AwaitMoreAfresh ==
    /\ pc = "lines"
    /\ ~Contains(lineBuf, LF)
    /\ lineBuf' = <<>>
    /\ pc' = "read"
    /\ UNCHANGED <<upstream, text, pos, currentEvent, currentData, id, finished, wire, closed>>

\* No whole line is left: back to src.Read.
AwaitMore ==
    /\ pc = "lines"
    /\ ~Contains(lineBuf, LF)
    /\ pc' = "read"
    /\ UNCHANGED <<upstream, text, pos, translator, wire, closed>>

\* io.EOF: finishStream, Translator.Close.
Eof ==
    /\ pc = "read"
    /\ IF upstream.adapter = "anthropic" /\ ~finished
       THEN finished' = TRUE /\ WriteChunk(Done)
       ELSE UNCHANGED <<finished, wire>>
    /\ pc' = "over"
    /\ closed' = TRUE
    /\ UNCHANGED <<upstream, text, pos, lineBuf, currentEvent, currentData, id>>

\* Slip: any error of a read passes for the end of the body.
FailIsEof ==
    /\ \/ pc = "read"
       \/ pc = "lines" /\ Contains(lineBuf, LF) /\ NextLine = <<>> /\ Malformed
    /\ pc' = "over"
    /\ wire' = wire \o EventOf(Done) \o <<ErrorBody>>
    /\ closed' = TRUE
    /\ UNCHANGED <<upstream, text, pos, translator>>

\* streamResponse returns an error: a read broke off or ran into the timeout
\* of the client, or Translate failed.
Fail ==
    /\ \/ pc = "read"
       \/ pc = "lines" /\ Contains(lineBuf, LF) /\ NextLine = <<>> /\ Malformed
    /\ pc' = "over"
    /\ wire' = Append(wire, ErrorBody)
    /\ closed' = TRUE
    /\ UNCHANGED <<upstream, text, pos, translator>>

Gateway ==
    \/ \E n \in 1..(Len(text) - pos) : Read(n)
    \/ ConsumeLine \/ Dispatch \/ AwaitMore \/ Eof \/ Fail
================================================================================
