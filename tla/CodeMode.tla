------------------------------ MODULE CodeMode ------------------------------
(***************************************************************************)
(* Code mode: programs written by the model run in one worker thread, one  *)
(* after the other, and call tools of the host while they run              *)
(* (packages/code-runtime/src/quickjs.ts and code-worker.ts; the calls and *)
(* their records are packages/runtime/src/turn-code.ts).                   *)
(*                                                                         *)
(* Every program is the run_code call of a session of its own, and has its *)
(* name.  A program is synchronous: it waits for each call it makes, so it *)
(* has at most one in the host.  What a program computes and what a call   *)
(* returns are one bit, whether it went well.                              *)
(***************************************************************************)
EXTENDS Naturals, Sequences, FiniteSets, SequencesExt

CONSTANTS Programs,     \* the run_code calls
          None,         \* no program
          MaxCalls,     \* bound: calls all programs make
          MaxFailures   \* bound: records the store refuses

ASSUME ConstantsAssumption == None \notin Programs /\ MaxCalls \in Nat /\ MaxFailures \in Nat

VARIABLES
  queue,     \* programs whose runOnce has not begun, in the order of run()
  run,       \* each program: the promise of run()
  outcome,   \* each program: what run() resolves to
  spawned,   \* `worker` and `ready`: no worker, one that starts, one that is ready
  guest,     \* the program in the worker and what it does
  call,      \* each program: the call it has in the host
  over,      \* programs whose grace period ended before their call did
  calls,     \* each program: the ledger of its calls, their outcomes
  report,    \* each program: the ledger as run_code reported it
  parent,    \* each program: the run_code call itself
  stopped,   \* programs whose turn was stopped
  log,       \* each program: the events of its session
  failures,  \* records refused so far
  disposed   \* dispose() has been called

worker == <<spawned, guest>>
session == <<parent, stopped>>
vars == <<queue, run, outcome, spawned, guest, call, over, calls, report, parent, stopped, log,
          failures, disposed>>

Ended == {"draining", "done"}
Event(type, ok) == [type |-> type, ok |-> ok]

TypeOK ==
  /\ queue \in Seq(Programs) /\ ToSet(queue) = {p \in Programs : run[p] = "queued"}
  /\ run \in [Programs -> {"none", "queued", "starting", "live"} \cup Ended]
  /\ outcome \in [Programs -> {"-", "ok", "failed", "timeout", "aborted", "substrate"}]
  /\ spawned \in {"none", "starting", "ready"}
  /\ guest \in [of : Programs \cup {None}, at : {"idle", "code", "asking", "waiting", "returned", "threw"}]
  /\ call \in [Programs -> {"none", "checking", "body", "recording ok", "recording no", "lost"}]
  /\ over \subseteq Programs /\ stopped \subseteq Programs
  /\ calls \in [Programs -> Seq(BOOLEAN)] /\ report \in [Programs -> Seq(BOOLEAN)]
  /\ parent \in [Programs -> {"none", "body", "answered", "stopped", "ended"}]
  /\ log \in [Programs -> Seq([type : {"start", "dispatch", "end"}, ok : BOOLEAN])]
  /\ failures \in 0..MaxFailures /\ disposed \in BOOLEAN

Idle == [of |-> None, at |-> "idle"]

Init ==
  /\ queue = <<>> /\ spawned = "none" /\ guest = Idle
  /\ over = {} /\ stopped = {} /\ failures = 0 /\ disposed = FALSE
  /\ run = [p \in Programs |-> "none"] /\ outcome = [p \in Programs |-> "-"]
  /\ call = [p \in Programs |-> "none"] /\ parent = [p \in Programs |-> "none"]
  /\ calls = [p \in Programs |-> <<>>] /\ report = [p \in Programs |-> <<>>]
  /\ log = [p \in Programs |-> <<>>]

Recorded(p, type, ok) == log' = [log EXCEPT ![p] = Append(@, Event(type, ok))]

-----------------------------------------------------------------------------
(***************************************************************************)
(* The queue and the worker.                                               *)
(***************************************************************************)

\* run_code begins: tool.start, then run() puts the program in the queue.
RunCode(p) ==
  /\ parent[p] = "none" /\ p \notin stopped
  /\ parent' = [parent EXCEPT ![p] = "body"]
  /\ Recorded(p, "start", TRUE)
  /\ run' = [run EXCEPT ![p] = "queued"] /\ queue' = Append(queue, p)
  /\ UNCHANGED <<outcome, worker, call, over, calls, report, stopped, failures, disposed>>

\* runOnce up to its await: the first of the queue, once the one before it is
\* resolved; a worker is started if there is none.
BeginRun(p) ==
  /\ queue # <<>> /\ p = Head(queue)
  /\ \A q \in Programs : run[q] \notin {"starting", "live", "draining"}
  /\ queue' = Tail(queue)
  /\ run' = [run EXCEPT ![p] = "starting"]
  /\ spawned' = IF spawned = "none" THEN "starting" ELSE spawned
  /\ UNCHANGED <<outcome, guest, call, over, calls, report, session, log, failures, disposed>>

WorkerReady ==
  /\ spawned = "starting"
  /\ spawned' = "ready"
  /\ UNCHANGED <<queue, run, outcome, guest, call, over, calls, report, session, log, failures, disposed>>

\* The worker fails before it is ready: the program that waits for it fails.
WorkerFails(p) ==
  /\ spawned = "starting" /\ run[p] = "starting"
  /\ spawned' = "none"
  /\ run' = [run EXCEPT ![p] = "done"] /\ outcome' = [outcome EXCEPT ![p] = "substrate"]
  /\ UNCHANGED <<queue, guest, call, over, calls, report, session, log, failures, disposed>>

\* Mutant: run() resolves without waiting for the calls.
Finish_NoGrace(p, why, kill) ==
  /\ outcome' = [outcome EXCEPT ![p] = why]
  /\ run' = [run EXCEPT ![p] = "done"]
  /\ guest' = Idle
  /\ spawned' = IF kill THEN "none" ELSE spawned

\* finish(): the outcome is settled, the calls of the program are aborted, the
\* worker is torn down unless the program came to its end, and run() resolves
\* once the calls have settled.  What the worker still sends is not heard.
Finish(p, why, kill) ==
  /\ outcome' = [outcome EXCEPT ![p] = why]
  /\ run' = [run EXCEPT ![p] = IF call[p] = "none" THEN "done" ELSE "draining"]
  /\ guest' = Idle
  /\ spawned' = IF kill THEN "none" ELSE spawned

\* runOnce after its await: the program is posted, unless its turn was stopped
\* in the meantime; then it is over, and the worker with it.
Post(p) ==
  /\ spawned = "ready" /\ run[p] = "starting"
  /\ IF p \in stopped
     THEN Finish(p, "aborted", TRUE)
     ELSE /\ run' = [run EXCEPT ![p] = "live"] /\ guest' = [of |-> p, at |-> "code"]
          /\ UNCHANGED <<spawned, outcome>>
  /\ UNCHANGED <<queue, call, over, calls, report, session, log, failures, disposed>>

\* The program calls a tool, or comes to its end: a message to the host.
GuestAsks ==
  /\ guest.at = "code" /\ FoldFunction(LAMBDA c, n : Len(c) + n, 0, calls) < MaxCalls
  /\ guest' = [guest EXCEPT !.at = "asking"]
  /\ UNCHANGED <<queue, run, outcome, spawned, call, over, calls, report, session, log, failures, disposed>>

GuestEnds ==
  /\ guest.at = "code"
  /\ \E at \in {"returned", "threw"} : guest' = [guest EXCEPT !.at = at]
  /\ UNCHANGED <<queue, run, outcome, spawned, call, over, calls, report, session, log, failures, disposed>>

\* onMessage: `done`, of the run that listens.
Done(p) ==
  /\ run[p] = "live" /\ guest.of = p /\ guest.at \in {"returned", "threw"}
  /\ Finish(p, IF guest.at = "returned" THEN "ok" ELSE "failed", FALSE)
  /\ UNCHANGED <<queue, call, over, calls, report, session, log, failures, disposed>>

\* Mutant: only code that runs is timed.
WallClock_Cpu(p) ==
  /\ run[p] = "live" /\ guest.at = "code"
  /\ Finish(p, "timeout", TRUE)
  /\ UNCHANGED <<queue, call, over, calls, report, session, log, failures, disposed>>

WallClock(p) ==
  /\ run[p] = "live"
  /\ Finish(p, "timeout", TRUE)
  /\ UNCHANGED <<queue, call, over, calls, report, session, log, failures, disposed>>

\* onError, onExit: the worker dies under the program.
WorkerDies(p) ==
  /\ run[p] = "live"
  /\ Finish(p, "substrate", TRUE)
  /\ UNCHANGED <<queue, call, over, calls, report, session, log, failures, disposed>>

\* TEARDOWN_GRACE_MS is over: run() resolves without the call.
GraceOver(p) ==
  /\ run[p] = "draining"
  /\ run' = [run EXCEPT ![p] = "done"] /\ over' = over \cup {p}
  /\ UNCHANGED <<queue, outcome, worker, call, calls, report, session, log, failures, disposed>>

\* dispose(), as the container goes: a program that runs learns of the exit, one
\* whose worker was starting waits for ever.
Dispose ==
  /\ ~disposed /\ disposed' = TRUE
  /\ IF \E p \in Programs : run[p] = "live"
     THEN Finish(CHOOSE p \in Programs : run[p] = "live", "substrate", TRUE)
     ELSE spawned' = "none" /\ guest' = Idle /\ UNCHANGED <<run, outcome>>
  /\ UNCHANGED <<queue, call, over, calls, report, session, log, failures>>

-----------------------------------------------------------------------------
(***************************************************************************)
(* A call of a program in the host: dispatchCodeCall.                      *)
(***************************************************************************)

\* The run's own signal and the turn's, in one: linkAbort.
Aborted(p) == run[p] \in Ended \/ p \in stopped

\* onMessage: a call, whoever made it, becomes a call of the run that listens.
Dispatch(p) ==
  /\ run[p] = "live" /\ guest.at = "asking" /\ call[p] = "none"
  /\ guest' = [guest EXCEPT !.at = "waiting"]
  /\ call' = [call EXCEPT ![p] = "checking"]
  /\ UNCHANGED <<queue, run, outcome, spawned, over, calls, report, session, log, failures, disposed>>

\* Mutant: nobody looks at the signal before the body.
Body_Aborted(p) ==
  /\ call[p] = "checking"
  /\ call' = [call EXCEPT ![p] = "body"]
  /\ UNCHANGED <<queue, run, outcome, worker, over, calls, report, session, log, failures, disposed>>

\* The checks allow it and neither signal has come: the tool's body starts.
Body(p) ==
  /\ call[p] = "checking"
  /\ ~Aborted(p)
  /\ call' = [call EXCEPT ![p] = "body"]
  /\ UNCHANGED <<queue, run, outcome, worker, over, calls, report, session, log, failures, disposed>>

\* The sink records tool.code.dispatch, or the store refuses it.
Audit(p, ok) ==
  \/ /\ Recorded(p, "dispatch", ok)
     /\ call' = [call EXCEPT ![p] = IF ok THEN "recording ok" ELSE "recording no"]
     /\ UNCHANGED failures
  \/ /\ failures < MaxFailures /\ failures' = failures + 1
     /\ call' = [call EXCEPT ![p] = "lost"]
     /\ UNCHANGED log

\* The body ends, well or not, while nobody stopped it.
BodyEnds(p) ==
  /\ call[p] = "body" /\ ~Aborted(p)
  /\ \E ok \in BOOLEAN : Audit(p, ok)
  /\ UNCHANGED <<queue, run, outcome, worker, over, calls, report, session, disposed>>

\* The checks refuse it, or one of the signals comes: it has failed, whether or
\* not its body goes on.
Refused(p) ==
  /\ \/ call[p] = "checking"
     \/ call[p] = "body" /\ Aborted(p)
  /\ Audit(p, FALSE)
  /\ UNCHANGED <<queue, run, outcome, worker, over, calls, report, session, disposed>>

\* The record is stored: the call enters the ledger (a refused record throws
\* before that) and is answered if its program still runs; a run that waited for
\* it resolves.
Settle(p) ==
  /\ call[p] \in {"recording ok", "recording no", "lost"}
  /\ call' = [call EXCEPT ![p] = "none"]
  /\ calls' = IF call[p] = "lost" THEN calls
              ELSE [calls EXCEPT ![p] = Append(@, call[p] = "recording ok")]
  /\ run' = [run EXCEPT ![p] = IF @ = "draining" THEN "done" ELSE @]
  /\ guest' = IF run[p] = "live" THEN [guest EXCEPT !.at = "code"] ELSE guest
  /\ UNCHANGED <<queue, outcome, spawned, over, report, session, log, failures, disposed>>

-----------------------------------------------------------------------------
(***************************************************************************)
(* The run_code call and its turn.                                         *)
(***************************************************************************)

\* run() has resolved: run_code reports the ledger as it is now.
Answered(p) ==
  /\ parent[p] = "body" /\ run[p] = "done"
  /\ parent' = [parent EXCEPT ![p] = "answered"]
  /\ report' = [report EXCEPT ![p] = calls[p]]
  /\ UNCHANGED <<queue, run, outcome, worker, call, over, calls, stopped, log, failures, disposed>>

\* The turn is stopped: run_code fails at once, its program is told, and so is
\* the call it has in the host.
Stop(p) ==
  /\ p \notin stopped /\ parent[p] = "body"
  /\ stopped' = stopped \cup {p} /\ parent' = [parent EXCEPT ![p] = "stopped"]
  /\ IF run[p] = "live" THEN Finish(p, "aborted", TRUE) ELSE UNCHANGED <<run, outcome, worker>>
  /\ UNCHANGED <<queue, call, over, calls, report, log, failures, disposed>>

\* tool.end of run_code.
ParentEnds(p) ==
  /\ parent[p] \in {"answered", "stopped"}
  /\ Recorded(p, "end", parent[p] = "answered")
  /\ parent' = [parent EXCEPT ![p] = "ended"]
  /\ UNCHANGED <<queue, run, outcome, worker, call, over, calls, report, stopped, failures, disposed>>

-----------------------------------------------------------------------------
HostSteps(p) == BeginRun(p) \/ Post(p) \/ Done(p) \/ Dispatch(p) \/ Settle(p)
                \/ Answered(p) \/ ParentEnds(p)

Next ==
  \/ \E p \in Programs : \/ HostSteps(p) \/ RunCode(p) \/ Stop(p)
                         \/ Body(p) \/ BodyEnds(p) \/ Refused(p)
                         \/ WallClock(p) \/ WorkerFails(p) \/ WorkerDies(p) \/ GraceOver(p)
  \/ WorkerReady \/ GuestAsks \/ GuestEnds \/ Dispose

Spec == Init /\ [][Next]_vars

\* The host's event loop turns, its timers fire, a new worker reports or fails.
\* A program may compute for ever and a tool may never end.
FairSpec ==
  /\ Spec
  /\ WF_vars(WorkerReady \/ \E p \in Programs : WorkerFails(p))
  /\ \A p \in Programs : WF_vars(HostSteps(p)) /\ WF_vars(WallClock(p)) /\ WF_vars(GraceOver(p))

-----------------------------------------------------------------------------
(***************************************************************************)
(* Properties.                                                             *)
(***************************************************************************)

\* The worker executes the program the host listens to: no program computes or
\* asks on after the host gave its result, and so no call of one program is
\* taken for a call of another (a message names its run, which the host only
\* compares for `done`: quickjs.ts onMessage).
GuestIsHeard == guest.of # None => run[guest.of] = "live"

\* A tool's body is never started for a program that is over or whose turn was
\* stopped (turn-code.ts, the window between abort and postMessage).
NoStartAfterEnd ==
  [][\A p \in Programs : call'[p] = "body" /\ call[p] # "body" => ~Aborted(p)]_vars

Dispatches(events) == {i \in DOMAIN events : events[i].type = "dispatch"}

\* The outcomes of the dispatches among the events, in their order.
AreOutcomes(outcomes, events) ==
  LET dispatches == Dispatches(events)
  IN  /\ Len(outcomes) = Cardinality(dispatches)
      /\ \A i \in dispatches : outcomes[Cardinality({j \in dispatches : j <= i})] = events[i].ok

\* What run_code reports to the model and what the log says its program did are
\* the same calls, in the same order, with the same outcomes, and stay so: no
\* call is recorded later, unless the turn was stopped or the call outlived the
\* grace period (run-code.ts: the ledger of the seam; ADR-0081).
ReportIsTheLog ==
  \A p \in Programs :
    parent[p] \in {"answered", "ended"} /\ p \notin over \cup stopped =>
      AreOutcomes(report[p], log[p])

\* Programs and their reports are never mixed up.
ProgramsAreSound == TypeOK /\ GuestIsHeard /\ ReportIsTheLog

\* Every program that was queued is over at some time, however its code, its
\* tools and the worker behave, and with it the queue behind it, unless the
\* runtime is disposed of.
RunEnds == \A p \in Programs : run[p] = "queued" ~> run[p] = "done" \/ disposed
=============================================================================
