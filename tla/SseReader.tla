------------------------------- MODULE SseReader -------------------------------
(***************************************************************************)
(* parseSseChunks of the CLI: an async generator over the response body.   *)
(***************************************************************************)
EXTENDS SseWire

VARIABLES
    rpos,      \* how much of the body has arrived
    buffer,    \* text not yet cut into events
    yielded,   \* chunks the generator has yielded
    rpc        \* "read" (awaits a piece), "events", or how it ended: "sentinel"
               \* ([DONE] seen), "drained" (the body is over) or "aborted"

readerVars == <<rpos, buffer, yielded, rpc>>

ReaderInit ==
    /\ rpos = 0
    /\ buffer = <<>>
    /\ yielded = <<>>
    /\ rpc = "read"

\* The places where an event of s ends, with the length of the blank line.
HasAt(s, i, mark) ==
    i + Len(mark) - 1 <= Len(s) /\ SubSeq(s, i, i + Len(mark) - 1) = mark

\* Slip: only a line feed ends a line.
LineFeedsOnly(s) == {b \in (1..Len(s)) \X {<<LF, LF>>} : HasAt(s, b[1], b[2])}

Boundaries(s) ==
    {b \in (1..Len(s)) \X {<<LF, LF>>, <<CR, LF, CR, LF>>} : HasAt(s, b[1], b[2])}

FirstBoundary(s) == {b \in Boundaries(s) : \A c \in Boundaries(s) : b[1] <= c[1]}

\* A line of an event; the carriage return before its line feed belongs to the line
\* end, one at the end of the event does not.
EventLine(event, i) ==
    LET line == LineAt(event, i) IN
    IF i + Len(line) <= Len(event) THEN WithoutCR(line) ELSE line

\* extractDataPayload: the data lines of an event, <<>> when it has none.
Payload(event) ==
    LET starts == {i \in DOMAIN event : /\ event[i].t = "data"
                                        /\ i = 1 \/ event[i - 1] = LF}
        line == SetToSortSeq(starts, <)
        joint(k) == IF k = 1 THEN <<>> ELSE <<LF>>
    IN  FlattenSeq([k \in DOMAIN line |-> joint(k) \o EventLine(event, line[k])])

\* JSON.parse, its errors swallowed.
Yield(payload) ==
    yielded' = IF payload # <<>> /\ Json(payload) # Bad
               THEN Append(yielded, Json(payload)) ELSE yielded

\* A piece of n fragments arrives.
Arrive(n) ==
    /\ rpc = "read"
    /\ rpos + n <= Len(wire)
    /\ buffer' = buffer \o SubSeq(wire, rpos + 1, rpos + n)
    /\ rpos' = rpos + n
    /\ rpc' = "events"
    /\ UNCHANGED yielded

\* The next event of the buffer.
TakeEvent ==
    /\ rpc = "events"
    /\ \E b \in FirstBoundary(buffer) :
          /\ buffer' = SubSeq(buffer, b[1] + Len(b[2]), Len(buffer))
          /\ \E payload \in {Payload(SubSeq(buffer, 1, b[1] - 1))} :
                IF payload = DataLine(Done)
                THEN rpc' = "sentinel" /\ UNCHANGED yielded
                ELSE rpc' = "events" /\ Yield(payload)
    /\ UNCHANGED rpos

NoEvent ==
    /\ rpc = "events"
    /\ Boundaries(buffer) = {}
    /\ rpc' = "read"
    /\ UNCHANGED <<rpos, buffer, yielded>>

\* Slip: the end of the body counts between events only.
BodyEndsBetween ==
    /\ rpc = "read"
    /\ closed
    /\ rpos = Len(wire)
    /\ buffer = <<>>
    /\ rpc' = "drained"
    /\ UNCHANGED <<rpos, buffer, yielded>>

\* The body is over: what is left in the buffer is an event too.
BodyEnds ==
    /\ rpc = "read"
    /\ closed
    /\ rpos = Len(wire)
    /\ Yield(Payload(buffer))
    /\ rpc' = "drained"
    /\ UNCHANGED <<rpos, buffer>>

\* The timer of chatCompletionStream aborts the request.
Abort ==
    /\ rpc = "read"
    /\ rpc' = "aborted"
    /\ UNCHANGED <<rpos, buffer, yielded>>

Reader ==
    \/ \E n \in 1..(Len(wire) - rpos) : Arrive(n)
    \/ TakeEvent \/ NoEvent \/ BodyEnds
================================================================================
