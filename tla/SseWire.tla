-------------------------------- MODULE SseWire --------------------------------
(***************************************************************************)
(* The text of a server-sent event stream, and the response body of the    *)
(* gateway that both ends of the wire share.                               *)
(*                                                                         *)
(* Text is a sequence of fragments, the pieces a read may stop between: a  *)
(* data line is two of them, so that a document can be cut in its middle.  *)
(***************************************************************************)
EXTENDS Integers, Sequences, SequencesExt, FiniteSetsExt

VARIABLES
    wire,     \* what the gateway has written into the response body
    closed    \* TRUE: the handler has returned, the body is over

LF == [t |-> "LF"]
CR == [t |-> "CR"]
Comment == [t |-> "comment"]
EventField(name) == [t |-> "event", name |-> name]
DataHead(doc) == [t |-> "data", doc |-> doc]
DataRest(doc) == [t |-> "rest", doc |-> doc]
ErrorBody == [t |-> "error_body"]

DataLine(doc) == <<DataHead(doc), DataRest(doc)>>

\* The empty string: no name, no id.
Blank == ""

\* Documents: JSON values, the sentinel, and text that is neither.
Done == [kind |-> "[DONE]"]
Bad == [kind |-> "malformed"]
Chunk(id, role, content, finish) ==
    [kind |-> "chunk", id |-> id, role |-> role, content |-> content, finish |-> finish]

\* The JSON document a text holds, Bad when it holds none.  Line ends around
\* a document are white space.
Json(text) ==
    LET marks == {i \in DOMAIN text : text[i] \notin {CR, LF}}
        whole == {i \in marks : /\ marks = {i, i + 1}
                                /\ text[i].t = "data"
                                /\ text[i + 1] = DataRest(text[i].doc)
                                /\ text[i].doc # Done}
    IN  IF whole = {} THEN Bad ELSE text[Min(whole)].doc

\* The line of a text that starts at i, without its end.
LineAt(text, i) ==
    SubSeq(text, i, Min({j \in i..Len(text) : text[j] = LF} \cup {Len(text) + 1}) - 1)

WithoutCR(line) == IF line # <<>> /\ Last(line) = CR THEN Front(line) ELSE line

IsField(line, name) == line # <<>> /\ line[1].t = name
================================================================================
