---------------------------- MODULE ProviderWire ----------------------------
(***************************************************************************)
(* What goes to a model and how its bytes come back: the messages of a     *)
(* session in the two wire formats (toWire of                              *)
(* packages/providers/src/anthropic.ts and openai-request.ts), the names   *)
(* of tools (tool-name.ts) and the frames of a stream (sse.ts).            *)
(*                                                                         *)
(* A text is "x" or the empty "".  A name and the bytes of a stream are    *)
(* sequences of marks.                                                     *)
(***************************************************************************)
EXTENDS Naturals, Sequences, SequencesExt, FiniteSetsExt

(* Blocks of a message: the content blocks of @xm/contracts                *)
TextBlock(text)        == [type |-> "text", text |-> text, id |-> "none"]
ThinkingBlock(text)    == [type |-> "thinking", text |-> text, id |-> "none"]
ImageBlock             == [type |-> "image", text |-> "x", id |-> "none"]
ToolUseBlock(id)       == [type |-> "tool_use", text |-> "", id |-> id]
ToolResultBlock(id)    == [type |-> "tool_result", text |-> "x", id |-> id]

OfType(blocks, type) == SelectSeq(blocks, LAMBDA b : b.type = type)
HasBlock(blocks, type) == \E i \in DOMAIN blocks : blocks[i].type = type
BlockIds(blocks) == [i \in DOMAIN blocks |-> blocks[i].id]
IsEmptyText(blocks) == \A i \in DOMAIN blocks : blocks[i].text = ""

-----------------------------------------------------------------------------
(* Anthropic: one message stays one message; a document, or a blob in a    *)
(* result, is refused, and the marked message ends in a cache breakpoint.  *)

AnthropicMessage(m, cacheHere) ==
  [role |-> m.role, blocks |-> m.blocks, cached |-> cacheHere /\ m.blocks # <<>>]

AnthropicMessages(messages, cacheAfter) ==
  [i \in DOMAIN messages |-> AnthropicMessage(messages[i], i = cacheAfter)]

\* thinking and a temperature exclude each other.
AnthropicSampling(thinking, temperature) ==
  IF thinking THEN {"thinking"} ELSE IF temperature THEN {"temperature"} ELSE {}

-----------------------------------------------------------------------------
(* OpenAI: every result is a message of its own.                           *)

ToolMessage(id) ==
  [role |-> "tool", id |-> id, content |-> "text", calls |-> <<>>, reasoning |-> "none"]

\* null is only allowed beside tool calls.
EmptyContent(calls) == IF calls # <<>> THEN "null" ELSE ""

ContentOf(blocks, calls) ==
  IF HasBlock(blocks, "image") THEN "parts"
  ELSE IF Len(OfType(blocks, "text")) > 1 \/ ~IsEmptyText(OfType(blocks, "text")) THEN "text"
  ELSE EmptyContent(calls)

\* "": the field is there and empty; "none": there is no such field.
ReasoningOf(blocks, calls, required) ==
  IF Len(OfType(blocks, "thinking")) > 1 \/ ~IsEmptyText(OfType(blocks, "thinking")) THEN "text"
  ELSE IF required /\ calls # <<>> THEN ""
  ELSE "none"

\* toWireMessages: what is not a result goes in front of the results.
OpenAiMessage(m, required) ==
  LET results == OfType(m.blocks, "tool_result")
      tools   == [i \in DOMAIN results |-> ToolMessage(results[i].id)]
      calls   == BlockIds(OfType(m.blocks, "tool_use"))
      content == ContentOf(m.blocks, calls)
      reason  == ReasoningOf(m.blocks, calls, required)
  IN  IF content \in {"text", "parts"} \/ calls # <<>> \/ reason = "text"
      THEN <<[role |-> m.role, id |-> "none", content |-> content, calls |-> calls,
              reasoning |-> reason]>> \o tools
      ELSE tools

ReasoningRequired(messages, thinkingModel) ==
  thinkingModel \/ \E i \in DOMAIN messages : HasBlock(messages[i].blocks, "thinking")

OpenAiMessages(messages, thinkingModel) ==
  FlattenSeq([i \in DOMAIN messages |->
                OpenAiMessage(messages[i], ReasoningRequired(messages, thinkingModel))])

\* What the server demands: content or calls, and reasoning beside the calls of a
\* model that thinks (openai-request.ts:170-231).
ServerTakes(wire, required) ==
  \A i \in DOMAIN wire :
    /\ wire[i].content = "null" => wire[i].calls # <<>>
    /\ required /\ wire[i].calls # <<>> => wire[i].reasoning # "none"

\* Behind a message with calls the results of exactly these calls follow.
ResultsLead(wire) ==
  \A i \in DOMAIN wire : wire[i].calls # <<>> =>
    LET n == Len(wire[i].calls)
    IN  /\ i + n <= Len(wire)
        /\ {wire[j].id : j \in i + 1..i + n} = Range(wire[i].calls)

-----------------------------------------------------------------------------
(* Tool names: the table of one request                                    *)

Safe == {"a", "_", "1", "2"}
Sanitize(name) == [i \in DOMAIN name |-> IF name[i] \in Safe THEN name[i] ELSE "_"]
Suffixed(name, n) == IF n = 0 THEN Sanitize(name) ELSE Sanitize(name) \o <<"_", ToString(n)>>

\* The first form no other name has taken.
WireName(taken, name) ==
  Suffixed(name, Min({n \in 0..Cardinality(DOMAIN taken) : Suffixed(name, n) \notin Range(taken)}))

\* buildToolNameCodec: which wire name stands for which name.
Codec(names) ==
  FoldLeft(LAMBDA taken, name : IF name \in DOMAIN taken THEN taken
                                ELSE [n \in DOMAIN taken \cup {name} |->
                                        IF n = name THEN WireName(taken, name) ELSE taken[n]],
           <<>>, names)

Encode(codec, name) == IF name \in DOMAIN codec THEN codec[name] ELSE Sanitize(name)
Decode(codec, wire) ==
  IF \E name \in DOMAIN codec : codec[name] = wire
  THEN CHOOSE name \in DOMAIN codec : codec[name] = wire ELSE wire

-----------------------------------------------------------------------------
(* Frames of a stream: "r" and "n" end lines; a line that begins with "d"  *)
(* is data, with "e" the event's name, with ":" a comment.                 *)

Separators == <<<<"r", "n", "r", "n">>, <<"n", "n">>, <<"r", "r">>>>

Occurrences(sep, buffer) ==
  {i \in DOMAIN buffer : i + Len(sep) - 1 <= Len(buffer)
                         /\ SubSeq(buffer, i, i + Len(sep) - 1) = sep}

\* Mutant: the first separator of the list that occurs at all.
FindFrameBoundary_ByList(buffer) ==
  LET there == {k \in DOMAIN Separators : Occurrences(Separators[k], buffer) # {}}
      sep   == Separators[Min(there)]
  IN  IF there = {} THEN <<0, 0>> ELSE <<Min(Occurrences(sep, buffer)), Len(sep)>>

\* Where the first separator of any kind begins and how long it is.
FindFrameBoundary(buffer) ==
  LET places == UNION {{<<i, Len(Separators[k])>> : i \in Occurrences(Separators[k], buffer)} :
                         k \in DOMAIN Separators}
  IN  IF places = {} THEN <<0, 0>> ELSE CHOOSE p \in places : \A q \in places : p[1] <= q[1]

\* The lines of a frame, empty ones and line ends left out.
Lines(raw) ==
  FoldLeft(LAMBDA lines, mark :
             IF mark \in {"r", "n"} THEN Append(lines, <<>>)
             ELSE Append(Front(lines), Append(Last(lines), mark)),
           <<<<>>>>, raw)

LinesOf(raw, field) ==
  LET ours == SelectSeq(Lines(raw), LAMBDA line : line # <<>> /\ Head(line) = field)
  IN  [i \in DOMAIN ours |-> Tail(ours[i])]

\* parseFrame: nothing for a frame without data.
ParseFrame(raw) ==
  LET data == LinesOf(raw, "d")
      events == LinesOf(raw, "e")
  IN  IF data = <<>> THEN <<>>
      ELSE <<[event |-> IF events = <<>> THEN <<"message">> ELSE Last(events), data |-> data]>>

\* The frames that can be taken off a buffer, and what is left of it: each one
\* takes a mark at least, so as many rounds as there are marks are enough.
TakeFrames(frames, buffer) ==
  FoldLeft(LAMBDA got, mark :
             LET boundary == FindFrameBoundary(got.buffer)
             IN  IF boundary[1] = 0 THEN got
                 ELSE [frames |-> got.frames \o ParseFrame(SubSeq(got.buffer, 1, boundary[1] - 1)),
                       buffer |-> SubSeq(got.buffer, boundary[1] + boundary[2], Len(got.buffer))],
           [frames |-> frames, buffer |-> buffer], buffer)

\* readSseFrames: the body comes in pieces; what is left at the end is a frame.
ReadSseFrames(pieces) ==
  LET read == FoldLeft(LAMBDA got, piece : TakeFrames(got.frames, got.buffer \o piece),
                       [frames |-> <<>>, buffer |-> <<>>], pieces)
  IN  read.frames \o ParseFrame(read.buffer)
=============================================================================
