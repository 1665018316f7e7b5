------------------------------ MODULE Subagent ------------------------------
(***************************************************************************)
(* Explorations: a call of agent.explore runs a turn of its own in a child *)
(* session, under a time limit and the parent's stop button, and leaves a  *)
(* start and an end in the log of the parent                               *)
(* (packages/runtime/src/subagent.ts).                                     *)
(*                                                                         *)
(* The tool is exclusive, so a turn makes one call at a time; but a call   *)
(* that was stopped is left behind, and goes on while the next turn calls  *)
(* again.  record() of the parent is the queue of SessionRuntime.tla.      *)
(***************************************************************************)
EXTENDS Naturals, Sequences, FiniteSets, SequencesExt

CONSTANTS Calls,       \* calls of agent.explore, each an agent of its own
          MaxCrashes   \* bound: deaths of the process

VARIABLES
  log,       \* the records of the parent: starts and ends
  queue,     \* records that wait for the ones before them
  at,        \* each call: where it is
  why,       \* each call: how its child ended
  turn,      \* the call the turn of the parent waits for, or "none"
  stopped,   \* calls whose signal is aborted
  late,      \* calls whose time is over
  found,     \* conclusions injected into the parent
  up,        \* the process runs
  repair,    \* agents recoverInterruptedSubagents has yet to end
  crashes

vars == <<log, queue, at, why, turn, stopped, late, found, up, repair, crashes>>

Reasons == {"completed", "failed", "aborted", "timeout", "interrupted"}
Started(c) == [type |-> "start", agent |-> c, reason |-> "-"]
Ended(c, reason) == [type |-> "end", agent |-> c, reason |-> reason]
Answer(c) == [type |-> "answer", agent |-> c, reason |-> "-"]   \* tool.end of the call
Record == [type : {"start", "end", "answer"}, agent : Calls, reason : Reasons \cup {"-"}]

TypeOK ==
  /\ log \in Seq(Record) /\ queue \in Seq(Record)
  /\ at \in [Calls -> {"none", "starting", "exploring", "closing", "ending", "over"}]
  /\ why \in [Calls -> Reasons \cup {"-"}]
  /\ turn \in Calls \cup {"none"} /\ stopped \subseteq Calls /\ late \subseteq Calls
  /\ found \subseteq Calls /\ up \in BOOLEAN /\ repair \subseteq Calls /\ crashes \in 0..MaxCrashes

Init ==
  /\ log = <<>> /\ queue = <<>> /\ at = [c \in Calls |-> "none"] /\ why = [c \in Calls |-> "-"]
  /\ turn = "none" /\ stopped = {} /\ late = {} /\ found = {}
  /\ up = TRUE /\ repair = {} /\ crashes = 0

\* runningSubagents of the reduced state.
Running == {c \in Calls : Started(c) \in ToSet(log) /\ \A r \in Reasons : Ended(c, r) \notin ToSet(log)}

-----------------------------------------------------------------------------
\* The check and the record of the start are one stretch; the record itself
\* takes its place in the queue.
Explore(c) ==
  /\ up /\ turn = "none" /\ at[c] = "none"
  /\ IF Running # {} THEN at' = [at EXCEPT ![c] = "over"] /\ UNCHANGED <<turn, queue>>
     ELSE at' = [at EXCEPT ![c] = "starting"] /\ turn' = c /\ queue' = Append(queue, Started(c))
  /\ UNCHANGED <<log, why, stopped, late, found, up, repair, crashes>>

\* The runtime works off its queue.
Records ==
  /\ up /\ queue # <<>>
  /\ log' = Append(log, Head(queue)) /\ queue' = Tail(queue)
  /\ UNCHANGED <<at, why, turn, stopped, late, found, up, repair, crashes>>

\* The child is opened, created and driven, with the deadline running.
Begins(c) ==
  /\ up /\ at[c] = "starting" /\ Started(c) \in ToSet(log)
  /\ at' = [at EXCEPT ![c] = "exploring"]
  /\ UNCHANGED <<log, queue, why, turn, stopped, late, found, up, repair, crashes>>

TimesOut(c) ==
  /\ up /\ at[c] = "exploring" /\ late' = late \cup {c}
  /\ UNCHANGED <<log, queue, at, why, turn, stopped, found, up, repair, crashes>>

\* The stop button: the turn answers the call itself ...
Stop(c) ==
  /\ up /\ turn = c /\ c \notin stopped /\ at[c] # "over" /\ stopped' = stopped \cup {c}
  /\ queue' = Append(queue, Answer(c))
  /\ UNCHANGED <<log, at, why, turn, late, found, up, repair, crashes>>

\* Mutant: the turn goes on before its record is stored.
GoesOn_Early(c) ==
  /\ up /\ turn = c /\ (c \in stopped \/ at[c] = "over") /\ turn' = "none"
  /\ UNCHANGED <<log, queue, at, why, stopped, late, found, up, repair, crashes>>

\* ... and goes on without it when the answer is stored.
GoesOn(c) ==
  /\ up /\ turn = c /\ Answer(c) \in ToSet(log) /\ turn' = "none"
  /\ UNCHANGED <<log, queue, at, why, stopped, late, found, up, repair, crashes>>

EndReason(c, well) ==
  IF c \in late THEN "timeout"
  ELSE IF c \in stopped THEN "aborted"
  ELSE IF well THEN "completed" ELSE "failed"

\* runTurn returns or something throws.
ChildEnds(c) ==
  /\ up /\ at[c] = "exploring"
  /\ \E well \in BOOLEAN : why' = [why EXCEPT ![c] = EndReason(c, well)]
  /\ at' = [at EXCEPT ![c] = "closing"]
  /\ UNCHANGED <<log, queue, turn, stopped, late, found, up, repair, crashes>>

\* The finally block: the child is closed, the end recorded.
ChildClosed(c) ==
  /\ up /\ at[c] = "closing"
  /\ at' = [at EXCEPT ![c] = "ending"] /\ queue' = Append(queue, Ended(c, why[c]))
  /\ UNCHANGED <<log, why, turn, stopped, late, found, up, repair, crashes>>

\* The conclusion goes to the parent, whether or not its turn still waits.
Injects(c) ==
  /\ up /\ at[c] = "ending" /\ Ended(c, why[c]) \in ToSet(log)
  /\ at' = [at EXCEPT ![c] = "over"] /\ found' = found \cup {c}
  /\ queue' = IF c \in stopped THEN queue ELSE Append(queue, Answer(c))
  /\ UNCHANGED <<log, why, turn, stopped, late, up, repair, crashes>>

Crash ==
  /\ up /\ crashes < MaxCrashes /\ crashes' = crashes + 1
  /\ up' = FALSE /\ queue' = <<>> /\ turn' = "none" /\ repair' = {}
  /\ at' = [c \in Calls |-> IF at[c] = "none" THEN "none" ELSE "over"]
  /\ UNCHANGED <<log, why, stopped, late, found>>

\* The session is opened again: what its state says is still running was
\* interrupted, and is ended one by one.
Restart ==
  /\ ~up /\ up' = TRUE /\ repair' = Running
  /\ UNCHANGED <<log, queue, at, why, turn, stopped, late, found, crashes>>

Recover(c) ==
  /\ up /\ c \in repair /\ repair' = repair \ {c}
  /\ queue' = Append(queue, Ended(c, "interrupted"))
  /\ UNCHANGED <<log, at, why, turn, stopped, late, found, up, crashes>>

Step(c) == \/ Explore(c) \/ Begins(c) \/ TimesOut(c) \/ Stop(c) \/ GoesOn(c) \/ ChildEnds(c)
           \/ ChildClosed(c) \/ Injects(c) \/ Recover(c)
Next == (\E c \in Calls : Step(c)) \/ Records \/ Crash \/ Restart

\* The child's turn ends by itself, its deadline or its stop (Turn.tla,
\* StopEnds); the process is started again.
Fairness ==
  /\ WF_vars(Records) /\ WF_vars(Restart)
  /\ \A c \in Calls : WF_vars(Begins(c) \/ ChildEnds(c) \/ ChildClosed(c) \/ Injects(c) \/ Recover(c))

Spec == Init /\ [][Next]_vars /\ Fairness

-----------------------------------------------------------------------------
\* One exploration at a time, also when a stopped one is still on its way out:
\* the record of a start is queued before the turn that stopped it can end.
Serial == Cardinality(Running) <= 1

\* The log tells one end of every agent, after its start, whatever stop,
\* deadline, crash and repair come together.
OneEnd ==
  \A i, j \in DOMAIN log :
    /\ i < j /\ log[j].agent = log[i].agent => log[i].type # log[j].type
    /\ log[i].type = "end" => \E k \in 1..(i - 1) : log[k] = Started(log[i].agent)

\* No agent is shown as running for ever: its own end, or the repair after a
\* crash, reaches the log.
RunningEnds == \A c \in Calls : (c \in Running) ~> (c \notin Running)
=============================================================================
