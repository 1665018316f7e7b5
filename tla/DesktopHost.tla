---------------------------- MODULE DesktopHost ----------------------------
(***************************************************************************)
(* The application around one session: the requests of the window, the     *)
(* entry `running` that keeps turns, restores and card actions apart, the  *)
(* turns a dead process left open and the prompt about them, shutdown and  *)
(* restart (apps/desktop/src/main/desktop-host.ts, ipc.ts).                *)
(*                                                                         *)
(* A request runs without a pause between two awaits; each action is one   *)
(* such stretch.  What a turn does inside is in Turn.tla, the inbox of the *)
(* agent in Agent.tla, the event log in SessionRuntime.tla: here a turn is *)
(* started, driven by somebody and ended.                                  *)
(***************************************************************************)
EXTENDS Naturals, Sequences, FiniteSets

CONSTANTS Requests,    \* the requests of one life of the window
          Ops,         \* what they may ask for
          MaxTurns,    \* bound: turns started
          MaxStarts    \* bound: starts of the application

Messages  == {"send", "steer", "image"}
Exclusive == {"restore", "card"}
Settling  == {"resume", "abandon"}

Holders == Requests \cup {"agent"}

VARIABLES
  host,       \* "up", "closing" (close() is running) or "down"
  runtime,    \* the entry of `runtimes`: absent, opening, open, closed
  turns,      \* the turns of the log: how often each was ended
  current,    \* activeTurn of the reduced state, 0 for none
  offered,    \* the session is in orphanedSessions
  running,    \* the holder of the session's entry in `running`, or "none"
  aborted,    \* holders whose controller was aborted
  agent,      \* idle, starting (before turn.start) or turn
  queued,     \* messages wait in the inbox of the agent
  req,        \* the requests: what for, and where
  drives,     \* the turn that the agent or a request drives, 0 for none
  starts      \* starts so far

volatile == <<runtime, offered, running, aborted, agent, queued, req, drives>>
vars == <<host, turns, current, starts, volatile>>

Places == {"free", "runtime", "opening", "recovering", "ready", "put", "restoring", "driving",
           "abandoning", "over"}

TypeOK ==
  /\ host \in {"up", "closing", "down"} /\ runtime \in {"absent", "opening", "open", "closed"}
  /\ turns \in Seq(Nat) /\ drives \in [Holders -> 0..Len(turns)]
  /\ current \in 0..Len(turns) /\ offered \in BOOLEAN
  /\ running \in Holders \cup {"none"} /\ aborted \subseteq Holders
  /\ agent \in {"idle", "starting", "turn"} /\ queued \in BOOLEAN
  /\ req \in [Requests -> [op : Ops \cup {"none"}, at : Places]]
  /\ starts \in 0..MaxStarts

Free == [op |-> "none", at |-> "free"]
Fresh ==
  /\ runtime = "absent" /\ running = "none" /\ aborted = {}
  /\ agent = "idle" /\ queued = FALSE /\ req = [r \in Requests |-> Free]
  /\ drives = [h \in Holders |-> 0]

Init ==
  /\ host = "down" /\ Fresh /\ offered = FALSE
  /\ current = 0 /\ turns = <<>> /\ starts = 0

-----------------------------------------------------------------------------
Goes(r, place) == req' = [req EXCEPT ![r].at = place]
Left(holder) == IF running = holder THEN "none" ELSE running

\* The end of a request that took nothing.
Over(r) == Goes(r, "over") /\ UNCHANGED <<running, aborted>>

\* The finally of withExclusiveSessionOperation: only its own entry.
Release(r) == Goes(r, "over") /\ running' = Left(r) /\ aborted' = aborted \ {r}

\* Mutant: the operation is entered whatever runs.
Arrive_Unchecked(r, op) ==
  /\ host = "up" /\ req[r] = Free
  /\ req' = [req EXCEPT ![r] = [op |-> op, at |-> "runtime"]]
  /\ running' = IF op \in Exclusive THEN r ELSE running
  /\ UNCHANGED <<drives, host, turns, current, starts, runtime, offered, aborted, agent, queued>>

\* A call of the window arrives.  restoreCheckpoint and cardAction are refused
\* when something runs and take the entry otherwise; resume and abandon only
\* look at a session that was offered.
Arrive(r, op) ==
  /\ host = "up" /\ req[r] = Free
  /\ LET refused == \/ op \in Exclusive /\ running # "none"
                    \/ op \in Settling /\ ~offered
     IN  /\ req' = [req EXCEPT ![r] = [op |-> op, at |-> IF refused THEN "over" ELSE "runtime"]]
         /\ running' = IF op \in Exclusive /\ ~refused THEN r ELSE running
  /\ UNCHANGED <<drives, host, turns, current, starts, runtime, offered, aborted, agent, queued>>

\* runtimeFor(): the entry of the map, or open() and, when it is there, the
\* repairs for what the last process left.  The store refuses a second writer.
AskRuntime(r) ==
  /\ req[r].at = "runtime"
  /\ CASE runtime = "open"   -> Goes(r, "ready") /\ UNCHANGED <<runtime, running, aborted>>
       [] runtime = "absent" -> Goes(r, "opening") /\ runtime' = "opening" /\ UNCHANGED <<running, aborted>>
       [] OTHER              -> Release(r) /\ UNCHANGED runtime
  /\ UNCHANGED <<drives, host, turns, current, starts, offered, agent, queued>>

Opened(r) ==
  /\ req[r].at = "opening"
  /\ runtime' = "open" /\ Goes(r, "recovering")
  /\ UNCHANGED <<drives, host, turns, current, starts, offered, running, aborted, agent, queued>>

Recovered(r) ==
  /\ req[r].at = "recovering" /\ Goes(r, "ready")
  /\ UNCHANGED <<drives, host, turns, current, starts, runtime, offered, running, aborted, agent, queued>>

-----------------------------------------------------------------------------
(* Turns. *)

Opens(driver) ==
  /\ runtime = "open" /\ Len(turns) < MaxTurns
  /\ turns' = Append(turns, 0)
  /\ current' = Len(turns) + 1
  /\ drives' = [drives EXCEPT ![driver] = Len(turns) + 1]

\* turn.end: the reducer forgets the active turn whatever its id; a closed
\* runtime refuses the record.
Ends(driver) ==
  /\ drives' = [drives EXCEPT ![driver] = 0]
  /\ IF runtime = "open"
       THEN turns' = [turns EXCEPT ![drives[driver]] = @ + 1] /\ current' = 0
       ELSE UNCHANGED <<turns, current>>

\* What the agent does with the message: it wakes, and onActive takes the entry.
Deliver(r) ==
  /\ req' = [req EXCEPT ![r].at = "over"]
  /\ IF agent = "idle"
       THEN /\ agent' = "starting" /\ running' = "agent"
            /\ aborted' = aborted \ {"agent"} /\ queued' = FALSE
       ELSE queued' = TRUE /\ UNCHANGED <<agent, running, aborted>>

\* sendUserMessage and steerUserMessage: busy when something other than the
\* agent runs; pictures are stored first, and nothing is checked after that.
Message(r) ==
  /\ req[r].at = "ready" /\ req[r].op \in Messages
  /\ CASE running # "none" /\ agent = "idle" -> Over(r) /\ UNCHANGED <<agent, queued>>
       [] req[r].op = "image" /\ ~(running # "none" /\ agent = "idle") ->
            Goes(r, "put") /\ UNCHANGED <<running, aborted, agent, queued>>
       [] OTHER -> Deliver(r)
  /\ UNCHANGED <<drives, host, turns, current, starts, runtime, offered>>

ImagesStored(r) ==
  /\ req[r].at = "put" /\ Deliver(r)
  /\ UNCHANGED <<drives, host, turns, current, starts, runtime, offered>>

\* The next batch of the inbox, or the agent is idle: onIdle.
NextBatch ==
  IF queued /\ "agent" \notin aborted
    THEN agent' = "starting" /\ queued' = FALSE /\ UNCHANGED running
    ELSE agent' = "idle" /\ running' = Left("agent") /\ UNCHANGED queued

AgentStarts ==
  /\ agent = "starting" /\ Opens("agent") /\ agent' = "turn"
  /\ UNCHANGED <<host, starts, runtime, offered, running, aborted, queued, req>>

\* The provider or the rules cannot be had, or the runtime is closed.
AgentFails ==
  /\ agent = "starting" /\ NextBatch
  /\ UNCHANGED <<drives, host, turns, current, starts, runtime, offered, aborted, req>>

AgentEnds ==
  /\ agent = "turn" /\ Ends("agent") /\ NextBatch
  /\ UNCHANGED <<host, starts, runtime, offered, aborted, req>>

-----------------------------------------------------------------------------
(* Exclusive operations, and the two answers to the prompt. *)

\* restoreCheckpoint: unknown or already restored, or the start is recorded.
Restore(r) ==
  /\ req[r].at = "ready" /\ req[r].op = "restore"
  /\ \/ Release(r) \/ (Goes(r, "restoring") /\ UNCHANGED <<running, aborted>>)
  /\ UNCHANGED <<drives, host, turns, current, starts, runtime, offered, agent, queued>>

Restored(r) ==
  /\ req[r].at = "restoring" /\ Release(r)
  /\ UNCHANGED <<drives, host, turns, current, starts, runtime, offered, agent, queued>>

\* cardAction: nothing to do, or one scripted turn.
Card(r) ==
  /\ req[r].at = "ready" /\ req[r].op = "card"
  /\ \/ Release(r) /\ UNCHANGED <<turns, current, drives>>
     \/ Opens(r) /\ Goes(r, "driving") /\ UNCHANGED <<running, aborted>>
  /\ UNCHANGED <<host, starts, runtime, offered, agent, queued>>

\* resumeOrphanedSession judges the state anew and takes the session off the
\* list before it looks whether something runs.
Resume(r) ==
  /\ req[r].at = "ready" /\ req[r].op = "resume"
  /\ offered' = FALSE
  /\ IF current = 0 \/ running # "none" THEN Over(r) /\ UNCHANGED drives
     ELSE /\ running' = r /\ Goes(r, "driving") /\ UNCHANGED aborted
          /\ drives' = [drives EXCEPT ![r] = current]
  /\ UNCHANGED <<host, turns, current, starts, runtime, agent, queued>>

\* The turn of a card action or a resumed one ends; resume deletes the entry
\* whoever holds it.
DriveEnds(r) ==
  /\ req[r].at = "driving"
  /\ Ends(r) /\ Goes(r, "over")
  /\ running' = IF req[r].op = "resume" THEN "none" ELSE Left(r)
  /\ aborted' = aborted \ {r}
  /\ UNCHANGED <<host, starts, runtime, offered, agent, queued>>

\* abandonOrphanedSession does not look at `running`.
Abandon(r) ==
  /\ req[r].at = "ready" /\ req[r].op = "abandon"
  /\ offered' = FALSE
  /\ Goes(r, IF current = 0 THEN "over" ELSE "abandoning")
  /\ UNCHANGED <<drives, host, turns, current, starts, runtime, running, aborted, agent, queued>>

Abandoned(r) ==
  /\ req[r].at = "abandoning" /\ Goes(r, "over")
  /\ IF current = 0 \/ runtime # "open" THEN UNCHANGED <<turns, current>>
     ELSE /\ turns' = [turns EXCEPT ![current] = @ + 1]
          /\ current' = 0
  /\ UNCHANGED <<drives, host, starts, runtime, offered, running, aborted, agent, queued>>

\* The stop button: the agent if it is at work, which also empties its inbox,
\* else whatever else holds the entry.
Interrupt ==
  /\ host = "up"
  /\ IF agent # "idle" THEN aborted' = aborted \cup {"agent"} /\ queued' = FALSE
     ELSE running # "none" /\ aborted' = aborted \cup {running} /\ UNCHANGED queued
  /\ UNCHANGED <<drives, host, turns, current, starts, runtime, offered, running, agent, req>>

-----------------------------------------------------------------------------
(* Shutdown, death, start. *)

Close ==
  /\ host = "up" /\ host' = "closing"
  /\ aborted' = aborted \cup ({running} \ {"none"}) /\ running' = "none"
  /\ UNCHANGED <<drives, turns, current, starts, runtime, offered, agent, queued, req>>

RuntimeCloses ==
  /\ host = "closing" /\ runtime = "open" /\ runtime' = "closed"
  /\ UNCHANGED <<drives, host, turns, current, starts, offered, running, aborted, agent, queued, req>>

\* The process ends: after close(), during it (nobody waits for it) or without.
Die ==
  /\ host # "down" /\ host' = "down"
  /\ runtime' = "absent" /\ running' = "none" /\ aborted' = {}
  /\ agent' = "idle" /\ queued' = FALSE /\ req' = [r \in Requests |-> Free] /\ offered' = FALSE
  /\ drives' = [h \in Holders |-> 0]
  /\ UNCHANGED <<turns, current, starts>>

\* startServices: the log is scanned for turns nobody ended.
Start ==
  /\ host = "down" /\ starts < MaxStarts
  /\ host' = "up" /\ starts' = starts + 1 /\ offered' = (current # 0)
  /\ UNCHANGED <<drives, turns, current, runtime, running, aborted, agent, queued, req>>

Serve(r) ==
  \/ \E op \in Ops : Arrive(r, op)
  \/ AskRuntime(r) \/ Opened(r) \/ Recovered(r) \/ Message(r) \/ ImagesStored(r)
  \/ Restore(r) \/ Restored(r) \/ Card(r) \/ Resume(r) \/ DriveEnds(r)
  \/ Abandon(r) \/ Abandoned(r)

Next ==
  \/ \E r \in Requests : Serve(r)
  \/ AgentStarts \/ AgentFails \/ AgentEnds \/ Interrupt
  \/ Close \/ RuntimeCloses \/ Die \/ Start

Spec == Init /\ [][Next]_vars

-----------------------------------------------------------------------------
\* What works on the session and must be alone: the agent between waking and
\* idle, a resumed turn, a restore or card action from its first check on.
Busy == (IF agent = "idle" THEN {} ELSE {"agent"})
        \cup {r \in Requests : \/ req[r].at = "driving"
                               \/ req[r].op \in Exclusive /\ req[r].at \notin {"free", "over"}}

\* Files are not restored, no card action runs and no turn is resumed while a
\* turn is driven by somebody else.
OneIsBusy == host = "up" => Cardinality(Busy) <= 1

\* The entry that the list of sessions shows as "running" and that the stop
\* button reaches is there exactly while something works, and is that one's.
RunningIsTrue == host = "up" => IF Busy = {} THEN running = "none" ELSE running \in Busy

\* Turns, restores, card actions and resumed turns keep out of one another's way,
\* and the session is shown as running exactly while one of them is at work
\* (withExclusiveSessionOperation, onActive and onIdle, desktop-host.ts:876-895).
OperationsExclude == OneIsBusy /\ RunningIsTrue

\* A turn that a dead process left open stays on the list until somebody deals
\* with it.
OfferIsKept ==
  host = "up" /\ current # 0 /\ (\A h \in Holders : drives[h] # current)
    => offered \/ \E r \in Requests : req[r].at = "abandoning"
=============================================================================
