----------------------------- MODULE MCRuntime -----------------------------
(* What stands around the turns of a session, for TLC: the messages that   *)
(* wait for one, the terminals, the exploration that asks on its own, the  *)
(* name asked for a session, the context of a request, the request, the    *)
(* stream of its answer and the bytes below it.  The machines share no     *)
(* state: every behaviour is one of `part`, and the others stand where     *)
(* nothing of theirs can happen.                                           *)
EXTENDS Agent, TLC, SequencesExt, FiniteSetsExt

CONSTANTS
  Ids, Runs, None, MaxSessions,            \* PtySession, where spawn ends in microtasks
  Calls,                                   \* the calls of Subagent, and those of ProviderStream
  Pieces,                                  \* ProviderStream
  MaxCrashes,                              \* of Subagent, and of ContextBuilder
  Sizes, Capacities, RecentRawTurns, MaxCompactions, SummaryTokens, MaxTurns,   \* ContextBuilder
  MaxRetries, MaxChunks                    \* ProviderRequest

\* Names stand apart from the words the machines use for "none"; the other numbers
\* count tokens, turns, attempts and parts.
PartsAssumption ==
  /\ None \notin Ids \cup Runs /\ MaxSessions \in Nat
  /\ "none" \notin Calls /\ Pieces \in Nat /\ MaxCrashes \in Nat
  /\ Sizes \subseteq Nat /\ Capacities \subseteq Nat
  /\ RecentRawTurns \in Nat /\ MaxCompactions \in Nat /\ SummaryTokens \in Nat /\ MaxTurns \in Nat
  /\ MaxRetries \in Nat
ASSUME PartsAssumption

VARIABLES
  part,
  records, queue, explores, why, parentTurn, aborts, late, found, up, repair, deaths,   \* Subagent
  terminals, pty, reason, timer, armed, proc, of, feed, closing,                        \* PtySession
  asks, agent, userTurns, mute, title,                                                  \* SessionTitle
  turns, open, compactions, orphans, step, build, crashes,                              \* ContextBuilder
  phase, attempt, connections, heard, cut, status, outcome,                             \* ProviderRequest
  dialect, block, sent, named, seen, stopReason, early, stopped, chunks, over,          \* ProviderStream
  given     \* what the pure operators of ProviderWire and SessionTitle are applied to

explorerVars == <<records, queue, explores, why, parentTurn, aborts, late, found, up, repair, deaths>>
terminalVars == <<terminals, pty, reason, timer, armed, proc, of, feed, closing>>
titleVars    == <<asks, agent, userTurns, mute, title>>
contextVars  == <<turns, open, compactions, orphans, step, build, crashes>>
httpVars     == <<phase, attempt, connections, heard, cut, status, outcome>>
streamVars   == <<dialect, block, sent, named, seen, stopReason, early, stopped, chunks, over>>
partsVars    == <<part, vars, terminalVars, explorerVars, titleVars, contextVars, httpVars, streamVars, given>>

Terminals == INSTANCE PtySession WITH SpawnWaits <- FALSE, open <- terminals, disposed <- closing
Explorer == INSTANCE Subagent WITH
  log <- records, at <- explores, turn <- parentTurn, stopped <- aborts, crashes <- deaths
Titles == INSTANCE SessionTitle WITH
  Messages <- {"m1", "m2", "m3"}, MaxTitleChars <- 3, at <- asks, turns <- userTurns
Context == INSTANCE ContextBuilder
Http == INSTANCE ProviderRequest WITH open <- connections, stopped <- cut
Stream == INSTANCE ProviderStream
Wire == INSTANCE ProviderWire

-----------------------------------------------------------------------------
(* The inputs of the pure operators grow by one element a step.            *)

\* Bytes as they arrive: what came so far, and what the reader has made of it.
MaxBytes == 7
Unread == [text |-> <<>>, frames |-> <<>>, buffer |-> <<>>]
BytePieces == UNION {[1..n -> {"r", "n", "d"}] : n \in 1..3}
ReadPiece ==
  \E piece \in BytePieces :
    /\ Len(given.text) + Len(piece) <= MaxBytes
    /\ LET got == Wire!TakeFrames(given.frames, given.buffer \o piece)
       IN  given' = [text |-> given.text \o piece, frames |-> got.frames, buffer |-> got.buffer]

\* Tools offered in one request: names that differ only in signs the wire has not.
Names == {<<"a", ".">>, <<"a", "_">>, <<"a", "/">>, <<"a", "_", "_", "1">>, <<"a", "_", "/", "1">>}
OfferTool == Len(given) < 4 /\ \E name \in Names : given' = Append(given, name)

\* Messages of a session: what a model says, and what is said to it.
Says == {Wire!TextBlock("x"), Wire!TextBlock(""), Wire!ThinkingBlock("x"), Wire!ToolUseBlock("u")}
Hears == {Wire!TextBlock("x"), Wire!ImageBlock, Wire!ToolResultBlock("u")}
Messages == {[role |-> "assistant", blocks |-> b] : b \in UNION {[1..n -> Says] : n \in 0..2}}
            \cup {[role |-> "user", blocks |-> b] : b \in UNION {[1..n -> Hears] : n \in 1..2}}
SendMessage == Len(given) < 2 /\ \E m \in Messages : given' = Append(given, m)

\* Replies to the request for a title.
ReplyMark == Len(given) < 5 /\ \E mark \in {"x", " ", "q", "t", "c", "n", "."} : given' = Append(given, mark)

-----------------------------------------------------------------------------
Parts == {"inbox", "terminals", "explore", "title", "context", "request", "stream", "bytes", "names", "messages", "reply"}

PartsInit ==
  /\ part \in Parts
  /\ Init /\ Terminals!Init /\ Explorer!Init /\ Titles!Init /\ Context!Init
  /\ IF part = "request" THEN Http!Init
     ELSE /\ phase = "over" /\ attempt = 0 /\ connections = {} /\ heard = <<>>
          /\ cut = FALSE /\ status = 0 /\ outcome = "none"
  /\ Stream!Init /\ (part # "stream" => dialect = "openai")
  /\ given = IF part = "bytes" THEN Unread ELSE <<>>

\* Of the other parts nothing moves.
Moves(name) ==
  /\ part = name /\ UNCHANGED part
  /\ IF name = "inbox"   THEN TRUE ELSE UNCHANGED vars
  /\ IF name = "terminals" THEN TRUE ELSE UNCHANGED terminalVars
  /\ IF name = "explore" THEN TRUE ELSE UNCHANGED explorerVars
  /\ IF name = "title"   THEN TRUE ELSE UNCHANGED titleVars
  /\ IF name = "context" THEN TRUE ELSE UNCHANGED contextVars
  /\ IF name = "request" THEN TRUE ELSE UNCHANGED httpVars
  /\ IF name = "stream"  THEN TRUE ELSE UNCHANGED streamVars
  /\ IF name \in {"bytes", "names", "messages", "reply"} THEN TRUE ELSE UNCHANGED given

PartsNext ==
  \/ Moves("inbox") /\ Next
  \/ Moves("terminals") /\ Terminals!Next
  \/ Moves("explore") /\ Explorer!Next
  \/ Moves("title") /\ Titles!Next
  \/ Moves("context") /\ Context!Next
  \/ Moves("request") /\ Http!Next
  \/ Moves("stream") /\ Stream!Next
  \/ Moves("bytes") /\ ReadPiece
  \/ Moves("names") /\ OfferTool
  \/ Moves("messages") /\ SendMessage
  \/ Moves("reply") /\ ReplyMark

\* A fair action of a part that is not chosen is never enabled.
PartsSpec ==
  /\ PartsInit /\ [][PartsNext]_partsVars
  /\ Fairness /\ Terminals!Fairness /\ Explorer!Fairness /\ Titles!Fairness /\ Context!Fairness /\ Http!Fairness

-----------------------------------------------------------------------------
(* The properties of the machines are stated where they are modelled;      *)
(* those of Agent are the run's own.                                       *)

\* No process without a terminal, and every terminal tells one story (pty-session.ts).
TerminalsAreSound == Terminals!TerminalsAreSound

\* A command that was started is reported finished, or the application closes
\* (pty-session.ts).
CommandEnds == Terminals!CommandEnds

\* The log tells of one exploration at a time and of one end of each, whatever
\* stop, deadline, crash and repair come together (subagent.ts).
OneEnd == Explorer!TypeOK /\ Explorer!Serial /\ Explorer!OneEnd

\* The model sees each turn once, the newest ones word for word
\* (context-builder.ts).
EachTurnOnce == Context!TypeOK /\ Context!EachTurnOnce

\* What is heard comes from one attempt, and no other connection is held
\* (http.ts).
OneAnswer == Http!TypeOK /\ Http!OneAnswer

\* A call that is reported whole is whole, wherever the stream is cut
\* (anthropic.ts, openai-compatible.ts).
CompleteIsWhole == Stream!CompleteIsWhole

-----------------------------------------------------------------------------
\* At any moment the answer may be over: then what was left is the last frame.
FramesKnowNoCuts ==
  given.frames \o Wire!ParseFrame(given.buffer) = Wire!ReadSseFrames(<<given.text>>)

NamesComeBack ==
  LET codec == Wire!Codec(given)
  IN  \A i \in DOMAIN given : Wire!Decode(codec, Wire!Encode(codec, given[i])) = given[i]

ServerAccepts ==
  \A thinking \in BOOLEAN :
    Wire!ServerTakes(Wire!OpenAiMessages(given, thinking), Wire!ReasoningRequired(given, thinking))

TitleIsClean ==
  LET clean == Titles!SanitizeTitle(given)
  IN  /\ Len(clean) <= 3 /\ ToSet(clean) \intersect {"c", "n"} = {}
      /\ clean # <<>> => Head(clean) # " "

\* The frames of a stream do not depend on how its bytes arrive, two tools are
\* never called by one name, a server is sent only what it accepts, and a title is
\* short and one line (sse.ts, tool-name.ts, openai-request.ts, session-title.ts).
WireIsRight ==
  /\ part = "bytes" => FramesKnowNoCuts
  /\ part = "names" => NamesComeBack
  /\ part = "messages" => ServerAccepts
  /\ part = "reply" => TitleIsClean

\* A request, the build of its context and an exploration end, and the first
\* message names the session or the model said nothing usable.
WorkEnds ==
  /\ Http!RequestEnds /\ Context!BuildEnds /\ Explorer!RunningEnds /\ Titles!FirstIsNamed
=============================================================================
