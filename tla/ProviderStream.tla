--------------------------- MODULE ProviderStream ---------------------------
(***************************************************************************)
(* A model's answer read from its stream of frames: decodeStream of        *)
(* packages/providers/src/anthropic.ts and openai-compatible.ts.           *)
(*                                                                         *)
(* Two dialects of the same answer: Anthropic opens and closes every block *)
(* and names a call in its opening; OpenAI only sends pieces, a call's     *)
(* name with one of them, and what it does not close the decoder closes    *)
(* at the end.  The server sends the calls it has in any interleaving the  *)
(* dialect allows, may close early, fail, or be cut off by a stop.         *)
(***************************************************************************)
EXTENDS Naturals, Sequences, SequencesExt, FiniteSetsExt

CONSTANTS Calls,        \* the indexes of the calls of this answer
          Pieces        \* the parts the arguments of a call are sent in

VARIABLES
  dialect,
  block,      \* the block Anthropic has open, "none" otherwise
  sent,       \* each call: how many parts the server has sent
  named,      \* callByIndex and started: calls whose name has been read
  seen,       \* calls the decoder keeps an id for
  stopReason, \* the reason read so far
  early,      \* the server closed its answer before the end of it
  stopped,    \* signal.aborted
  chunks,     \* what the decoder has yielded
  over

vars == <<dialect, block, sent, named, seen, stopReason, early, stopped, chunks, over>>

Chunk(kind, call) == [kind |-> kind, call |-> call]
Yield(new) == chunks' = chunks \o new

Init ==
  /\ dialect \in {"anthropic", "openai"}
  /\ block = "none" /\ sent = [c \in Calls |-> 0] /\ named = {} /\ seen = {}
  /\ stopReason = "end_turn" /\ early = FALSE /\ stopped = FALSE /\ chunks = <<>> /\ over = FALSE

Reading == ~over

-----------------------------------------------------------------------------
(* Anthropic                                                               *)

ContentBlockStart(c) ==
  /\ Reading /\ dialect = "anthropic" /\ block = "none" /\ c \notin seen
  /\ block' = c /\ seen' = seen \union {c} /\ named' = named \union {c}
  /\ Yield(<<Chunk("tool_call_start", c)>>)
  /\ UNCHANGED <<dialect, sent, stopReason, early, stopped, over>>

ContentBlockDelta(c) ==
  /\ Reading /\ dialect = "anthropic" /\ block = c /\ sent[c] < Pieces
  /\ sent' = [sent EXCEPT ![c] = @ + 1]
  /\ Yield(<<Chunk("tool_call_delta", c)>>)
  /\ UNCHANGED <<dialect, block, named, seen, stopReason, early, stopped, over>>

ContentBlockStop(c) ==
  /\ Reading /\ dialect = "anthropic" /\ block = c /\ sent[c] = Pieces
  /\ block' = "none"
  /\ Yield(<<Chunk("tool_call_end", c)>>)
  /\ UNCHANGED <<dialect, sent, named, seen, stopReason, early, stopped, over>>

(* OpenAI: the first piece of a call carries its name.                     *)

ToolCallPiece(c) ==
  /\ Reading /\ dialect = "openai" /\ sent[c] < Pieces
  /\ sent' = [sent EXCEPT ![c] = @ + 1]
  /\ seen' = seen \union {c} /\ named' = named \union {c}
  /\ Yield((IF c \in named THEN <<>> ELSE <<Chunk("tool_call_start", c)>>)
             \o <<Chunk("tool_call_delta", c)>>)
  /\ UNCHANGED <<dialect, block, stopReason, early, stopped, over>>

\* message_delta, or a choice with a finish_reason.
FinishReason ==
  /\ Reading /\ block = "none" /\ stopReason = "end_turn"
  /\ seen # {} /\ \A c \in seen : sent[c] = Pieces
  /\ stopReason' = "tool_use"
  /\ UNCHANGED <<dialect, block, sent, named, seen, early, stopped, chunks, over>>

-----------------------------------------------------------------------------
\* What the decoder closes itself once the answer is at its end.
ClosedCalls ==
  IF dialect = "openai" THEN [i \in 1..Cardinality(seen) |-> Chunk("tool_call_end", SetToSeq(seen)[i])]
  ELSE <<>>

\* [DONE] or the end of the body, where the server may end it too soon.
StreamEnds ==
  /\ Reading
  /\ early' = (block # "none" \/ \E c \in seen : sent[c] < Pieces)
  /\ over' = TRUE
  /\ Yield(ClosedCalls \o <<Chunk("usage", "none"), Chunk(stopReason, "none")>>)
  /\ UNCHANGED <<dialect, block, sent, named, seen, stopReason, stopped>>

\* An error frame, a broken body or an idle timeout: thrown unless the user stopped.
StreamFails ==
  /\ Reading /\ ~stopped
  /\ over' = TRUE
  /\ Yield(<<Chunk("thrown", "none")>>)
  /\ UNCHANGED <<dialect, block, sent, named, seen, stopReason, early, stopped>>

\* Mutant: what has been begun is closed as after a whole answer.
Aborted_Closes ==
  /\ Reading /\ stopped
  /\ over' = TRUE
  /\ Yield(ClosedCalls \o <<Chunk("aborted", "none")>>)
  /\ UNCHANGED <<dialect, block, sent, named, seen, stopReason, early, stopped>>

\* The body fails because of the stop: no usage, and no call is closed.
Aborted ==
  /\ Reading /\ stopped
  /\ over' = TRUE
  /\ Yield(<<Chunk("aborted", "none")>>)
  /\ UNCHANGED <<dialect, block, sent, named, seen, stopReason, early, stopped>>

Stop ==
  /\ Reading /\ ~stopped
  /\ stopped' = TRUE
  /\ UNCHANGED <<dialect, block, sent, named, seen, stopReason, early, chunks, over>>

Next ==
  \/ \E c \in Calls : \/ ContentBlockStart(c) \/ ContentBlockDelta(c) \/ ContentBlockStop(c)
                      \/ ToolCallPiece(c)
  \/ FinishReason \/ StreamEnds \/ StreamFails \/ Aborted \/ Stop

Spec == Init /\ [][Next]_vars

-----------------------------------------------------------------------------
Count(kind, c) == Cardinality({i \in DOMAIN chunks : chunks[i] = Chunk(kind, c)})

\* A call the decoder reports as complete has a name and all its arguments,
\* wherever a stop or a failure cuts the stream, unless the server itself ended
\* its answer too soon; and a caller never takes half a call for a whole one
\* (openai-compatible.ts:194-206, anthropic.ts:399-407).
CompleteIsWhole ==
  ~early => \A c \in Calls : Count("tool_call_end", c) > 0 =>
              /\ Count("tool_call_end", c) = 1
              /\ Count("tool_call_start", c) = 1
              /\ Count("tool_call_delta", c) = Pieces
=============================================================================
