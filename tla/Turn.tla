-------------------------------- MODULE Turn --------------------------------
(***************************************************************************)
(* One session's turns: the driver loop (packages/runtime/src/turn.ts), the*)
(* model stream (turn-stream.ts), the dispatch of a batch of tool calls    *)
(* (turn-tools.ts, turn-sink.ts), the projection of what they record       *)
(* (reduce.ts, tool-result.ts, input-message.ts), the stop signal, crashes *)
(* of the process and the recovery of the turn they leave open             *)
(* (orphan.ts, crash-recovery.ts).                                         *)
(*                                                                         *)
(* An event is represented by its effect on the durable state s: recording *)
(* it and folding it is one step, and a crash keeps s exactly (that is     *)
(* SessionRuntime!StateIsReplay).  A call is known by the place of its     *)
(* tool_use block: <<index of the message, position in it>>.  A stop may   *)
(* arrive wherever the code awaits I/O or an extension point; the dispatch *)
(* of an extension point rejects as soon as the signal is aborted          *)
(* (container/events.ts, abortable), whatever still runs inside it.        *)
(***************************************************************************)
EXTENDS Naturals, Sequences, FiniteSets, TurnSchedule

CONSTANTS MaxIterations,  \* deps.maxIterations, the round trips of a turn
          MaxTurns,       \* bound: turns started
          MaxReplies,     \* bound: model messages in the session
          MaxCallsPer,    \* bound: tool calls of one reply
          MaxInjections,  \* bound: context.injected events
          MaxCrashes,     \* bound: crashes of the process
          MaxStops,       \* bound: presses of the stop button
          MaxRejections,  \* bound: record(tool.end) calls that reject
          AnswersPrompt   \* does the user settle an orphaned turn before
                          \* sending another message?

ASSUME TurnAssumption ==
  /\ MaxIterations \in Nat \ {0}
  /\ {MaxTurns, MaxReplies, MaxCallsPer, MaxInjections} \subseteq Nat
  /\ {MaxCrashes, MaxStops, MaxRejections} \subseteq Nat
  /\ AnswersPrompt \in BOOLEAN

VARIABLES
  s,         \* the durable session state
  d,         \* the driver of the running turn
  calls,     \* the calls of the batch being dispatched: how far each one is
  bodies,    \* calls whose tool body executes
  aborted,   \* deps.signal.aborted
  steer,     \* inbox.hasSteer()
  unsent,    \* replies whose calls the driver never dispatched
  used       \* what the bounds have been spent on

vars == <<s, d, calls, bodies, aborted, steer, unsent, used>>

-----------------------------------------------------------------------------
(* The durable state and its projection                                    *)

CallId == (1..(2 * (MaxTurns + MaxReplies) + MaxInjections)) \X (1..MaxCallsPer)
Text == [call |-> <<0, 0>>, ok |-> TRUE]              \* any other block
Result(c, ok) == [call |-> c, ok |-> ok]              \* a tool_result block
Blocks == [call : CallId \cup {<<0, 0>>}, ok : BOOLEAN]
Message == [role : {"user", "assistant"}, blocks : Seq(Blocks), uses : Seq(BOOLEAN)]

UserMessage(blocks) == [role |-> "user", blocks |-> blocks, uses |-> <<>>]
\* uses: one tool_use block per call, told apart by being parallel-safe or not.
Reply(uses) == [role |-> "assistant", blocks |-> <<Text>>, uses |-> uses]

Empty == [turn |-> 0, msg |-> FALSE, running |-> {}, messages |-> <<>>]

LastIsUser(st) == st.messages # <<>> /\ st.messages[Len(st.messages)].role = "user"
SetLast(st, blocks) == [st EXCEPT !.messages[Len(st.messages)].blocks = blocks]
LastBlocks(st) == st.messages[Len(st.messages)].blocks

\* reduce(), by event type
TurnStarted(st, n) == [st EXCEPT !.turn = n, !.messages = Append(@, UserMessage(<<Text>>))]
TurnEnded(st) == [st EXCEPT !.turn = 0, !.running = {}]
MessageStarted(st) == [st EXCEPT !.msg = TRUE]
MessageEnded(st, uses) == [st EXCEPT !.msg = FALSE, !.messages = Append(@, Reply(uses))]
MessageInterrupted(st) == [st EXCEPT !.msg = FALSE]
ToolStarted(st, c) == [st EXCEPT !.running = @ \cup {c}]

\* appendToolResult: into the last message if it is the user's, behind the
\* results it has and before everything else.
IsResult(block) == block.call # <<0, 0>>

\* Mutant: at the end of the message.
InsertResult_Last(blocks, r) == Append(blocks, r)

InsertResult(blocks, r) ==
  LET at == CHOOSE k \in 0..Len(blocks) :
              /\ k > 0 => IsResult(blocks[k])
              /\ \A j \in k + 1..Len(blocks) : ~IsResult(blocks[j])
  IN  SubSeq(blocks, 1, at) \o <<r>> \o SubSeq(blocks, at + 1, Len(blocks))

ToolEnded(st, c, ok) ==
  LET cleared == [st EXCEPT !.running = @ \ {c}]
  IN  IF LastIsUser(st) THEN SetLast(cleared, InsertResult(LastBlocks(st), Result(c, ok)))
      ELSE [cleared EXCEPT !.messages = Append(@, UserMessage(<<Result(c, ok)>>))]

\* appendInjectedMessage
Injected(st) == IF LastIsUser(st) THEN SetLast(st, Append(LastBlocks(st), Text))
                ELSE [st EXCEPT !.messages = Append(@, UserMessage(<<Text>>))]

Uses(st, m) == {<<m, i>> : i \in 1..Len(st.messages[m].uses)}
Asked(st) == UNION {Uses(st, m) : m \in 1..Len(st.messages)}
ResultsIn(st, m) ==
  {st.messages[m].blocks[k].call : k \in {j \in 1..Len(st.messages[m].blocks) :
                                            IsResult(st.messages[m].blocks[j])}}
Answered(st) == UNION {ResultsIn(st, m) : m \in 1..Len(st.messages)}

-----------------------------------------------------------------------------
(* The driver                                                              *)

Stages == {"judging", "starting", "running", "returned", "done"}
NoSynth == [message |-> FALSE, running |-> {}, dangling |-> {}]
Idle == [pc |-> "idle", reason |-> "end_turn", iteration |-> 0, continued |-> FALSE,
         reply |-> 0, batches |-> <<>>, batch |-> {}, synth |-> NoSynth,
         resume |-> FALSE, threw |-> FALSE]
Pcs == {"idle", "dead", "orphaned", "synth", "top", "request", "stream", "interrupted",
        "failed", "stepError", "stopping", "dispatch", "afterTools", "ending"}
Reasons == {"end_turn", "max_tokens", "aborted", "error", "max_iterations"}
NoCalls == [c \in {} |-> "done"]

Driving == [pc : Pcs, reason : Reasons, iteration : 0..MaxIterations, continued : BOOLEAN,
            reply : Nat, batches : Seq(Seq(CallId)), batch : SUBSET CallId,
            synth : [message : BOOLEAN, running : SUBSET CallId, dangling : SUBSET CallId],
            resume : BOOLEAN, threw : BOOLEAN]
Session == [turn : 0..MaxTurns, msg : BOOLEAN, running : SUBSET CallId, messages : Seq(Message)]

TypeOK ==
  /\ s \in Session /\ d \in Driving /\ d.reply <= Len(s.messages)
  /\ DOMAIN calls \subseteq CallId /\ calls \in [DOMAIN calls -> Stages]
  /\ bodies \subseteq CallId /\ aborted \in BOOLEAN /\ steer \in BOOLEAN
  /\ unsent \subseteq Nat

Init ==
  /\ s = Empty /\ d = Idle /\ calls = NoCalls /\ bodies = {}
  /\ aborted = FALSE /\ steer = FALSE /\ unsent = {}
  /\ used = [turns |-> 0, replies |-> 0, injections |-> 0, crashes |-> 0,
             stops |-> 0, rejections |-> 0]

At(pc) == d.pc = pc
Goto(pc) == d' = [d EXCEPT !.pc = pc]
Stop(reason) == d' = [d EXCEPT !.pc = "ending", !.reason = reason]
Throw == d' = [d EXCEPT !.pc = "ending", !.threw = TRUE]
Spend(what) == used' = [used EXCEPT ![what] = @ + 1]

\* runTurn: a claimed batch enters the history with turn.start.  The agent has
\* a new controller; nothing in the runtime looks for a turn left open.
StartTurn ==
  /\ At("idle") \/ (At("orphaned") /\ ~AnswersPrompt)
  /\ used.turns < MaxTurns /\ Spend("turns")
  /\ s' = TurnStarted(s, used.turns + 1)
  /\ d' = [Idle EXCEPT !.pc = "top"]
  /\ aborted' = FALSE /\ steer' = FALSE
  /\ UNCHANGED <<calls, bodies, unsent>>

\* The step boundary: a stop, then a steer, then the next round trip.  Only the
\* end of a batch looks at the limit of round trips, so retries may exceed it:
\* here they are bounded by it.
Top ==
  /\ At("top")
  /\ IF aborted THEN Stop("aborted")
     ELSE IF d.iteration > 0 /\ steer THEN Goto("ending")
     ELSE /\ d.iteration < MaxIterations
          /\ d' = [d EXCEPT !.pc = "request", !.iteration = @ + 1]
  /\ UNCHANGED <<s, calls, bodies, aborted, steer, unsent, used>>

\* streamOnce: pre-step and request produced the model request: message.start.
RequestReady ==
  /\ At("request") /\ ~aborted /\ used.replies < MaxReplies
  /\ s' = MessageStarted(s) /\ Goto("stream")
  /\ UNCHANGED <<calls, bodies, aborted, steer, unsent, used>>

\* ... or one of them rejected, because it failed or because of a stop:
\* error.raised, and an error for turn/step-error.
RequestFails ==
  /\ At("request")
  /\ d' = [d EXCEPT !.pc = "stepError", !.reason = "error", !.reply = 0]
  /\ UNCHANGED <<s, calls, bodies, aborted, steer, unsent, used>>

\* The stream ends: normally, by its token limit, by an error, or stopped.
\* Whatever had arrived by then is recorded as the message.
StreamEnds ==
  /\ At("stream") /\ used.replies < MaxReplies /\ Spend("replies")
  /\ \E n \in 0..MaxCallsPer : \E uses \in [1..n -> BOOLEAN] :
     \E how \in {"end_turn", "max_tokens", "error"} :
       /\ s' = MessageEnded(s, uses)
       /\ unsent' = IF aborted \/ how = "error"
                    THEN unsent \cup {Len(s.messages) + 1} ELSE unsent
       /\ d' = [d EXCEPT !.reply = Len(s.messages) + 1,
                         !.reason = IF aborted THEN "aborted" ELSE how,
                         !.pc = IF aborted THEN "interrupted"
                                ELSE IF how = "error" THEN "failed" ELSE "stopping"]
  /\ UNCHANGED <<calls, bodies, aborted, steer>>

\* message.interrupted follows the message.end of a stopped stream.
RecordInterrupted ==
  /\ At("interrupted")
  /\ s' = MessageInterrupted(s) /\ Stop("aborted")
  /\ UNCHANGED <<calls, bodies, aborted, steer, unsent, used>>

\* error.raised follows that of a failed one.
RecordError ==
  /\ At("failed") /\ Goto("stepError")
  /\ UNCHANGED <<s, calls, bodies, aborted, steer, unsent, used>>

\* turn/step-error: a listener may ask for a retry, the default is to stop;
\* with the signal aborted the dispatch throws.
StepError ==
  /\ At("stepError")
  /\ IF aborted THEN Throw
     ELSE \/ Goto("top")
          \/ d' = [d EXCEPT !.pc = "stopping"]
  /\ UNCHANGED <<s, calls, bodies, aborted, steer, unsent, used>>

\* streamed.calls; the request that failed left none.
ReplyUses == IF d.reply = 0 THEN <<>> ELSE s.messages[d.reply].uses

BatchesOf(reply) ==
  LET plan == PlanBatches(s.messages[reply].uses)
  IN  [b \in 1..Len(plan) |-> [j \in 1..Len(plan[b]) |-> <<reply, plan[b][j]>>]]

\* turn/stopping after the stream (installStoppingGuard): the first reply
\* without calls that hits the token limit is continued; without calls, or
\* after an error, the turn stops; otherwise the calls are dispatched.
StoppingAfterStream ==
  /\ At("stopping")
  /\ IF aborted THEN Stop("aborted")
     ELSE IF ReplyUses = <<>> /\ d.reason = "max_tokens" /\ ~d.continued
     THEN d' = [d EXCEPT !.pc = "top", !.continued = TRUE]
     ELSE IF ReplyUses = <<>> \/ d.reason = "error" THEN Goto("ending")
     ELSE d' = [d EXCEPT !.pc = "dispatch", !.batch = {}, !.batches = BatchesOf(d.reply)]
  /\ unsent' = IF aborted THEN unsent \cup {d.reply} ELSE unsent
  /\ UNCHANGED <<s, calls, bodies, aborted, steer, used>>

-----------------------------------------------------------------------------
(* The calls of a batch                                                    *)

ElementsOf(batch) == {batch[k] : k \in 1..Len(batch)}
Judge(batch) ==
  /\ calls' = [c \in ElementsOf(batch) \cup {b \in DOMAIN calls : calls[b] # "done"} |->
                 IF c \in ElementsOf(batch) THEN "judging" ELSE calls[c]]
  /\ d' = [d EXCEPT !.batch = ElementsOf(batch), !.batches = Tail(@)]
BatchDone == \A c \in d.batch : calls[c] = "done"

\* The next batch; the stop signal is not looked at between two of them.
DispatchBatch ==
  /\ At("dispatch") /\ d.batches # <<>> /\ BatchDone /\ Judge(Head(d.batches))
  /\ UNCHANGED <<s, bodies, aborted, steer, unsent, used>>

Advance(c, stage) == calls' = [calls EXCEPT ![c] = stage]

\* prepareCall and tool/pre-execute let the call through.
CallAllowed(c) ==
  /\ calls[c] = "judging" /\ ~aborted /\ Advance(c, "starting")
  /\ UNCHANGED <<s, d, bodies, aborted, steer, unsent, used>>

\* The checkpoint is made: tool.start, then the tool's body.
ToolStarts(c) ==
  /\ calls[c] = "starting" /\ ~aborted /\ Advance(c, "running")
  /\ s' = ToolStarted(s, c) /\ bodies' = bodies \cup {c}
  /\ UNCHANGED <<d, aborted, steer, unsent, used>>

\* The body ends; tool/post-execute is next, unless the call was given up.
BodyEnds(c) ==
  /\ c \in bodies /\ bodies' = bodies \ {c}
  /\ IF c \in DOMAIN calls /\ calls[c] = "running" THEN Advance(c, "returned")
     ELSE UNCHANGED calls
  /\ UNCHANGED <<s, d, aborted, steer, unsent, used>>

\* sink.end: tool.end with what the body gave, a result or an error.
CallEnds(c) ==
  /\ calls[c] = "returned" /\ ~aborted /\ Advance(c, "done")
  /\ \E ok \in BOOLEAN : s' = ToolEnded(s, c, ok)
  /\ UNCHANGED <<d, bodies, aborted, steer, unsent, used>>

\* Mutant: a call that was refused goes on.
CallFails_NoReturn(c) ==
  /\ calls[c] \in {"judging", "starting", "returned"} \/ (calls[c] = "running" /\ aborted)
  /\ Advance(c, IF calls[c] = "judging" THEN "starting" ELSE "done")
  /\ s' = ToolEnded(s, c, FALSE)
  /\ UNCHANGED <<d, bodies, aborted, steer, unsent, used>>

\* Mutant: a call whose body already runs is left to it when the turn is stopped.
CallFails_NotRunning(c) ==
  /\ calls[c] \in {"judging", "starting", "returned"}
  /\ Advance(c, "done") /\ s' = ToolEnded(s, c, FALSE)
  /\ UNCHANGED <<d, bodies, aborted, steer, unsent, used>>

\* sink.fail: refused, not prepared, no checkpoint, post-execute failed; or the
\* signal was aborted, which makes the dispatch of tool/execute reject although
\* the body goes on.
CallFails(c) ==
  /\ calls[c] \in {"judging", "starting", "returned"} \/ (calls[c] = "running" /\ aborted)
  /\ Advance(c, "done") /\ s' = ToolEnded(s, c, FALSE)
  /\ UNCHANGED <<d, bodies, aborted, steer, unsent, used>>

\* sink.end rejects: tool.end was not appended, and the rejection leaves
\* Promise.all, and the loop, while the other calls of the batch go on.  (Those
\* keep the signal of their turn, which is not followed further: a behaviour
\* has a stop or a rejection, not both.)
EndRejects(c) ==
  /\ calls[c] = "returned" /\ At("dispatch") /\ c \in d.batch
  /\ used.stops = 0 /\ used.rejections < MaxRejections /\ Spend("rejections")
  /\ Advance(c, "done") /\ Throw
  /\ UNCHANGED <<s, bodies, aborted, steer, unsent>>

\* Mutant: the loop does not wait for its last batch.
AfterTools_NoWait ==
  /\ At("dispatch") /\ d.batches = <<>>
  /\ IF aborted THEN Stop("aborted")
     ELSE IF d.iteration >= MaxIterations THEN Stop("max_iterations")
     ELSE Goto("top")
  /\ UNCHANGED <<s, calls, bodies, aborted, steer, unsent, used>>

\* All batches done: a stop, or turn/stopping after the tools, which ends a turn
\* at its limit of round trips.
AfterTools ==
  /\ At("dispatch") /\ d.batches = <<>> /\ BatchDone
  /\ IF aborted THEN Stop("aborted")
     ELSE IF d.iteration >= MaxIterations THEN Stop("max_iterations")
     ELSE Goto("top")
  /\ UNCHANGED <<s, calls, bodies, aborted, steer, unsent, used>>

\* finally: turn.end, whatever ended the loop; the promise settles.
TurnEnds ==
  /\ At("ending")
  /\ s' = TurnEnded(s)
  /\ d' = [Idle EXCEPT !.reason = d.reason, !.threw = d.threw]
  /\ UNCHANGED <<calls, bodies, aborted, steer, unsent, used>>

-----------------------------------------------------------------------------
(* Around the driver                                                       *)

Live == d.pc \notin {"idle", "dead", "orphaned"} /\ (d.pc = "synth" => d.resume)

\* The stop button, while a turn runs.
StopButton ==
  /\ Live /\ ~aborted /\ used.rejections = 0
  /\ used.stops < MaxStops /\ Spend("stops")
  /\ aborted' = TRUE
  /\ UNCHANGED <<s, d, calls, bodies, steer, unsent>>

Steer == /\ Live /\ ~d.resume /\ ~steer /\ steer' = TRUE
         /\ UNCHANGED <<s, d, calls, bodies, aborted, unsent, used>>

\* context.injected, at any time.
Inject ==
  /\ d.pc # "dead" /\ used.injections < MaxInjections /\ Spend("injections")
  /\ s' = Injected(s)
  /\ UNCHANGED <<d, calls, bodies, aborted, steer, unsent>>

Crash ==
  /\ d.pc # "dead" /\ used.crashes < MaxCrashes /\ Spend("crashes")
  /\ d' = [Idle EXCEPT !.pc = "dead"]
  /\ calls' = NoCalls /\ bodies' = {} /\ aborted' = FALSE /\ steer' = FALSE
  /\ UNCHANGED <<s, unsent>>

-----------------------------------------------------------------------------
(* Crash recovery                                                          *)

\* danglingOf: the unanswered calls of the last assistant message.
LastReply == CHOOSE m \in 0..Len(s.messages) :
               /\ m > 0 => s.messages[m].role = "assistant"
               /\ \A k \in m + 1..Len(s.messages) : s.messages[k].role = "user"
Dangling == IF LastReply = 0 THEN {}
            ELSE Uses(s, LastReply) \ (Answered(s) \cup s.running)

\* Mutant: a call that was running counts as dangling, too.
Interruption_Twice ==
  [message |-> s.msg, running |-> IF s.msg THEN {} ELSE s.running,
   dangling |-> IF s.msg \/ s.running = {} THEN {} ELSE Dangling \cup s.running]

\* detectOrphanedTurn and what synthesizeInterruption makes of it: a message is
\* interrupted; or the running calls are answered, then the dangling ones,
\* which are only looked for when a call was running.
Interruption ==
  [message |-> s.msg, running |-> IF s.msg THEN {} ELSE s.running,
   dangling |-> IF s.msg \/ s.running = {} THEN {} ELSE Dangling]

\* A restart scans for turns left open (scanForOrphanedSessions).
Restart ==
  /\ At("dead")
  /\ Goto(IF s.turn = 0 THEN "idle" ELSE "orphaned")
  /\ UNCHANGED <<s, calls, bodies, aborted, steer, unsent, used>>

\* The user's answer to the prompt: resumeOrphanedSession goes on with the turn
\* after the synthesis, under a controller of its own and without an inbox;
\* abandonOrphanedTurn ends it.
Settle(resume) ==
  /\ At("orphaned")
  /\ d' = [d EXCEPT !.pc = "synth", !.synth = Interruption, !.resume = resume]
  /\ UNCHANGED <<s, calls, bodies, aborted, steer, unsent, used>>

SynthMessage ==
  /\ At("synth") /\ d.synth.message
  /\ s' = MessageInterrupted(s) /\ d' = [d EXCEPT !.synth.message = FALSE]
  /\ UNCHANGED <<calls, bodies, aborted, steer, unsent, used>>

SynthCall(c) ==
  /\ At("synth")
  /\ \/ c \in d.synth.running /\ d' = [d EXCEPT !.synth.running = @ \ {c}]
     \/ /\ d.synth.running = {} /\ c \in d.synth.dangling
        /\ d' = [d EXCEPT !.synth.dangling = @ \ {c}]
  /\ s' = ToolEnded(s, c, FALSE)
  /\ UNCHANGED <<calls, bodies, aborted, steer, unsent, used>>

SynthDone ==
  /\ At("synth") /\ d.synth = NoSynth
  /\ IF d.resume THEN Goto("top") ELSE Stop("aborted")
  /\ UNCHANGED <<s, calls, bodies, aborted, steer, unsent, used>>

-----------------------------------------------------------------------------
CallStep(c) == CallAllowed(c) \/ ToolStarts(c) \/ CallEnds(c) \/ CallFails(c)
\* What the driver does by itself ...
Driver == \/ Top \/ RequestFails \/ RecordInterrupted \/ RecordError \/ StepError
          \/ StoppingAfterStream \/ DispatchBatch \/ AfterTools \/ TurnEnds
          \/ SynthMessage \/ SynthDone \/ (StreamEnds /\ aborted)
          \/ \E c \in DOMAIN calls : CallStep(c)
          \/ \E c \in d.synth.running \cup d.synth.dangling : SynthCall(c)
\* ... and what it waits for.
World == RequestReady \/ StreamEnds \/ \E c \in bodies : BodyEnds(c)

Next == \/ StartTurn \/ Driver \/ World
        \/ \E c \in DOMAIN calls : EndRejects(c)
        \/ StopButton \/ Steer \/ Inject \/ Crash \/ Restart
        \/ \E resume \in BOOLEAN : Settle(resume)

Spec == Init /\ [][Next]_vars

\* The event loop runs every continuation that can run, and a provider ends
\* its stream when the signal is aborted (docs/04 4.2).  Tools may run for ever.
FairSpec == Spec /\ WF_vars(Driver)

-----------------------------------------------------------------------------
(* Properties                                                              *)

\* Nobody answers a call twice, whatever is stopped, given up, recovered or
\* recovered again after a crash in the middle of the recovery.
AnsweredOnce ==
  \A m, n \in 1..Len(s.messages) :
    \A j \in 1..Len(s.messages[m].blocks) : \A k \in 1..Len(s.messages[n].blocks) :
      /\ IsResult(s.messages[m].blocks[j])
      /\ s.messages[m].blocks[j].call = s.messages[n].blocks[k].call
      => <<m, j>> = <<n, k>>

\* The results of a reply are in the message right behind it and lead that
\* message, whatever is injected meanwhile, unless a tool.end could not be
\* recorded: what a provider requires of a tool_result (tool-result.ts, ADR-0064).
ResultsFollowReply ==
  used.rejections = 0 =>
    \A m \in 1..Len(s.messages) : \A k \in 1..Len(s.messages[m].blocks) :
      IsResult(s.messages[m].blocks[k]) =>
        /\ s.messages[m].blocks[k].call[1] = m - 1
        /\ \A j \in 1..k : IsResult(s.messages[m].blocks[j])

\* When no turn is open, a call without an answer belongs to a reply whose calls
\* the driver never dispatched, or the process has crashed, or a tool.end could not
\* be recorded: dispatching a reply answers all its calls, in every interleaving of
\* batches, failures and stops.
DispatchAnswersAll ==
  s.turn = 0 /\ used.crashes = 0 /\ used.rejections = 0 =>
    \A c \in Asked(s) \ Answered(s) : c[1] \in unsent

\* Between two turns no message is left open, also when the last one was settled
\* after a crash, or after a crash in the middle of settling it: the next turn
\* would stream into it (crash-recovery.ts, synthesizeInterruption).
NoMessageLeftOpen == s.turn = 0 => ~s.msg

\* However the loop ends, by itself, stopped, by an error thrown out of it, resumed
\* or abandoned, the turn is closed when the driver is done with it (turn.ts,
\* finally).
TurnIsClosed == At("idle") => s.turn = 0

\* The body of a call that is not parallel-safe runs alone, except beside bodies
\* the driver has given up on: because of a stop, or because a tool.end could not be
\* recorded, after which the rest of the batch goes on unattended (turn-schedule.ts).
ExclusiveRunsAlone ==
  used.rejections = 0 =>
    \A b, c \in bodies :
      b # c /\ ~s.messages[b[1]].uses[b[2]] => {b, c} \cap Answered(s) # {}

\* What a turn leaves behind, however it ends: well-formed, each call answered at
\* most once, no message and no turn left open.
HistoryIsWhole == TypeOK /\ AnsweredOnce /\ NoMessageLeftOpen /\ TurnIsClosed

\* A stop ends the turn although its tools may never return.
StopEnds == aborted /\ Live ~> d.pc \in {"idle", "dead"}

\* The recorded history implements the call protocol.
Protocol == INSTANCE CallProtocol WITH
              CallIds <- CallId, asked <- Asked(s), running <- s.running,
              answered <- Answered(s)
ImplementsCallProtocol == Protocol!Spec

(* What the documentation says of the code, and the code does not do       *)

\* "Both ways out of an orphaned turn first add the missing closing events ...
\* every tool_use has its tool_result" (docs/04 6, crash-recovery.ts).
RecoveryAnswersAll ==
  d.pc = "top" /\ d.resume /\ d.iteration = 0 => Dangling = {}

=============================================================================
