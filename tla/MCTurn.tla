------------------------------- MODULE MCTurn -------------------------------
(* Instances of Turn for TLC: the bounds are in the configurations.  The   *)
(* layout of the batches is checked besides, over every list of calls.     *)
EXTENDS Turn, SequencesExt

Tool(known, concurrency, args, resources) ==
  [known |-> known, concurrency |-> concurrency, args |-> args, resources |-> resources]

\* One call of each kind the schedule tells apart, and the lists of up to four.
Profiles == {Tool(TRUE, "parallel", TRUE, {"pathRead"}),
             Tool(TRUE, "parallel", TRUE, {"net", "pathWrite"}),
             Tool(TRUE, "parallel", TRUE, {}),
             Tool(TRUE, "parallel", TRUE, Throws),
             Tool(TRUE, "parallel", FALSE, {"net"}),
             Tool(TRUE, "exclusive", TRUE, {"pathRead"}),
             Tool(FALSE, "parallel", TRUE, {"net"})}
Lists == UNION {[1..n -> Profiles] : n \in 1..4}

MayWrite(call) ==
  \/ ~call.known \/ call.concurrency # "parallel" \/ ~call.args
  \/ call.resources \cap {"pathWrite", "global", "pty", "throws"} # {}

\* The batches of a reply, for every list of calls: they are laid out in the order
\* the model gave the calls, and what may write, or cannot be told, counts as not
\* safe (planCallBatches, isParallelSafe, ADR-0082).
\* It depends on no state, so the first one is enough.
BatchesAreRight ==
  Init => \A list \in Lists :
            LET safe == [k \in 1..Len(list) |-> ParallelSafe(list[k])]
            IN  /\ IsLayout(PlanBatches(safe), safe)
                /\ \A k \in 1..Len(list) : safe[k] => ~MayWrite(list[k])

\* Dispatching a reply: the batches of any list of calls are right, an exclusive
\* body runs alone, and every call that was dispatched is answered.
DispatchIsRight == BatchesAreRight /\ ExclusiveRunsAlone /\ DispatchAnswersAll

-----------------------------------------------------------------------------
(* The same history as it goes to an OpenAI-compatible server              *)
Wire == INSTANCE ProviderWire

WireBlocks(m) ==
  LET blocks == s.messages[m].blocks
      Results == [k \in DOMAIN blocks |-> IF IsResult(blocks[k])
                                          THEN Wire!ToolResultBlock(ToString(blocks[k].call))
                                          ELSE Wire!TextBlock("x")]
      Asks == [i \in DOMAIN s.messages[m].uses |-> Wire!ToolUseBlock(ToString(<<m, i>>))]
  IN  Results \o Asks

Request ==
  Wire!OpenAiMessages([m \in DOMAIN s.messages |->
                         [role |-> s.messages[m].role, blocks |-> WireBlocks(m)]], FALSE)

\* "tool_result must come right behind the assistant message it belongs to"
\* (input-message.ts:15-18, ADR-0064): so it does in the session's messages, but
\* toWireMessages puts the text injected beside the results in front of them.
ResultsFollowOnTheWire ==
  At("request") /\ Asked(s) \subseteq Answered(s) => Wire!ResultsLead(Request)
=============================================================================
