----------------------------- MODULE PtySession -----------------------------
(***************************************************************************)
(* The controlled terminals of one session: logical sessions that each run *)
(* one command at a time, their processes, the command and idle timeouts,  *)
(* and the events the host records (packages/tools-core/src/               *)
(* pty-session.ts, pty-tools.ts; the processes are those of                *)
(* tool-runtime/src/executor-local-pty.ts).                                *)
(*                                                                         *)
(* A call of run() and the process it spawns have the same name.  Output   *)
(* only moves the idle timer, which may fire at any time here.             *)
(***************************************************************************)
EXTENDS Naturals, Sequences, FiniteSets

CONSTANTS Ids,          \* the PtySessionIds
          Runs,         \* the calls of run()
          None,         \* no run, no session
          MaxSessions,  \* maxSessionsPerXmSession
          SpawnWaits    \* does spawn() look for the executable on the disk?
                        \* (on Windows; elsewhere it ends in microtasks)

VARIABLES
  open,      \* the keys of #sessions
  pty,       \* entry.pty: the command of each session, or none
  reason,    \* entry.commandReason
  timer,     \* entry.commandTimer: the run whose timer it is, or none
  armed,     \* runs whose command timer is set
  proc,      \* each run: its spawn and then its process
  of,        \* the session each run was called for
  feed,      \* the events of each session
  disposed   \* disposeAll() has been called

vars == <<open, pty, reason, timer, armed, proc, of, feed, disposed>>

Ev(type, r, why) == [type |-> type, run |-> r, reason |-> why]
Events == [type : {"opened", "started", "finished", "closed"}, run : Runs \cup {None},
           reason : {"-", "exited", "timeout", "killed", "idle_timeout"}]

TypeOK ==
  /\ open \subseteq Ids /\ Cardinality(open) <= MaxSessions
  /\ pty \in [Ids -> Runs \cup {None}] /\ timer \in [Ids -> Runs \cup {None}]
  /\ reason \in [Ids -> {"-", "timeout"}]
  /\ armed \subseteq Runs
  /\ proc \in [Runs -> {"none", "spawning", "refused", "alive", "killed", "gone", "reaped"}]
  /\ of \in [Runs -> Ids \cup {None}]
  /\ feed \in [Ids -> Seq(Events)]
  /\ disposed \in BOOLEAN

Init ==
  /\ open = {} /\ armed = {} /\ disposed = FALSE
  /\ pty = [i \in Ids |-> None] /\ timer = [i \in Ids |-> None]
  /\ reason = [i \in Ids |-> "-"]
  /\ proc = [r \in Runs |-> "none"] /\ of = [r \in Runs |-> None]
  /\ feed = [i \in Ids |-> <<>>]

-----------------------------------------------------------------------------
Emit(i, events) == feed' = [feed EXCEPT ![i] = @ \o events]

\* Nothing else runs while a spawn ends in microtasks.
Quiet == SpawnWaits \/ \A r \in Runs : proc[r] # "spawning"

\* kill(): the process tree of r is told to go; too late if it is gone.
Killed(ps, r) == [ps EXCEPT ![r] = IF @ = "alive" THEN "killed" ELSE @]

\* open(): under the limit, with a fresh id.
Open(i) ==
  /\ Quiet /\ ~disposed /\ feed[i] = <<>>
  /\ Cardinality(open) < MaxSessions
  /\ open' = open \cup {i}
  /\ Emit(i, <<Ev("opened", None, "-")>>)
  /\ UNCHANGED <<pty, reason, timer, armed, proc, of, disposed>>

\* run() up to its await: the session exists and has no command.
Run(r, i) ==
  /\ Quiet /\ proc[r] = "none" /\ i \in open
  /\ pty[i] = None
  /\ proc' = [proc EXCEPT ![r] = "spawning"] /\ of' = [of EXCEPT ![r] = i]
  /\ UNCHANGED <<open, pty, reason, timer, armed, feed, disposed>>

\* spawn() throws: no such program.
SpawnFails(r) ==
  /\ proc[r] = "spawning"
  /\ proc' = [proc EXCEPT ![r] = "refused"]
  /\ UNCHANGED <<open, pty, reason, timer, armed, of, feed, disposed>>

\* Mutant: the command gets no timer.
Spawned_Untimed(r) ==
  /\ proc[r] = "spawning"
  /\ proc' = [proc EXCEPT ![r] = "alive"]
  /\ pty' = [pty EXCEPT ![of[r]] = r] /\ reason' = [reason EXCEPT ![of[r]] = "-"]
  /\ Emit(of[r], <<Ev("started", r, "-")>>)
  /\ UNCHANGED <<open, timer, armed, of, disposed>>

\* run() after its await: the process goes into the entry, whether or not that
\* is still the session's.
Spawned(r) ==
  /\ proc[r] = "spawning"
  /\ proc' = [proc EXCEPT ![r] = "alive"]
  /\ pty' = [pty EXCEPT ![of[r]] = r] /\ reason' = [reason EXCEPT ![of[r]] = "-"]
  /\ timer' = [timer EXCEPT ![of[r]] = r] /\ armed' = armed \cup {r}
  /\ Emit(of[r], <<Ev("started", r, "-")>>)
  /\ UNCHANGED <<open, of, disposed>>

\* The command timer of r: kill the process if it is still the session's.
CommandTimeout(r) ==
  /\ Quiet /\ r \in armed
  /\ armed' = armed \ {r}
  /\ IF of[r] \in open /\ pty[of[r]] = r
     THEN /\ reason' = [reason EXCEPT ![of[r]] = "timeout"]
          /\ proc' = Killed(proc, r)
     ELSE UNCHANGED <<reason, proc>>
  /\ UNCHANGED <<open, pty, timer, of, feed, disposed>>

\* The process ends, by itself or killed.
Dies(r) ==
  /\ proc[r] \in {"alive", "killed"}
  /\ proc' = [proc EXCEPT ![r] = "gone"]
  /\ UNCHANGED <<open, pty, reason, timer, armed, of, feed, disposed>>

\* #onExit: found by the session, not by the process.
ExitSeen(r) ==
  LET i == of[r]
  IN  /\ Quiet /\ proc[r] = "gone"
      /\ proc' = [proc EXCEPT ![r] = "reaped"]
      /\ IF i \in open /\ pty[i] # None
         THEN /\ armed' = armed \ {timer[i]} /\ timer' = [timer EXCEPT ![i] = None]
              /\ pty' = [pty EXCEPT ![i] = None] /\ reason' = [reason EXCEPT ![i] = "-"]
              /\ Emit(i, <<Ev("finished", r, IF reason[i] = "-" THEN "exited" ELSE reason[i])>>)
         ELSE UNCHANGED <<pty, reason, timer, armed, feed>>
      /\ UNCHANGED <<open, of, disposed>>

\* Mutant: a session that goes away does not report its command.
Leave_Silent(i, why) ==
  /\ open' = open \ {i} /\ armed' = armed \ {timer[i]} /\ timer' = [timer EXCEPT ![i] = None]
  /\ pty' = [pty EXCEPT ![i] = None]
  /\ proc' = IF pty[i] = None THEN proc ELSE Killed(proc, pty[i])
  /\ Emit(i, <<Ev("closed", None, why)>>)
  /\ UNCHANGED <<reason, of, disposed>>

\* close() and the idle timeout: kill and report the command if there is one,
\* then #finishSession.
Leave(i, why) ==
  /\ open' = open \ {i} /\ armed' = armed \ {timer[i]} /\ timer' = [timer EXCEPT ![i] = None]
  /\ pty' = [pty EXCEPT ![i] = None]
  /\ proc' = IF pty[i] = None THEN proc ELSE Killed(proc, pty[i])
  /\ Emit(i, (IF pty[i] = None THEN <<>> ELSE <<Ev("finished", pty[i], "killed")>>)
             \o <<Ev("closed", None, why)>>)
  /\ UNCHANGED <<reason, of, disposed>>

Close(i)       == Quiet /\ i \in open /\ Leave(i, "killed")
IdleTimeout(i) == Quiet /\ i \in open /\ Leave(i, "idle_timeout")

\* disposeAll(), as the application closes: kill, forget, report nothing.
DisposeAll ==
  /\ Quiet /\ ~disposed
  /\ disposed' = TRUE /\ open' = {}
  /\ armed' = armed \ {timer[i] : i \in open}
  /\ proc' = [r \in Runs |-> IF \E i \in open : pty[i] = r /\ proc[r] = "alive"
                             THEN "killed" ELSE proc[r]]
  /\ UNCHANGED <<pty, reason, timer, of, feed>>

OfRun(r) == SpawnFails(r) \/ Spawned(r) \/ CommandTimeout(r) \/ Dies(r) \/ ExitSeen(r)

Next ==
  \/ \E r \in Runs : OfRun(r) \/ \E i \in Ids : Run(r, i)
  \/ \E i \in Ids : Open(i) \/ Close(i) \/ IdleTimeout(i)
  \/ DisposeAll

Spec == Init /\ [][Next]_vars

\* Spawns answer, timers fire, a killed process dies and its exit is seen; a
\* command left alone need not ever end.
Fairness ==
  \A r \in Runs : /\ WF_vars(SpawnFails(r) \/ Spawned(r)) /\ WF_vars(CommandTimeout(r))
                 /\ WF_vars(proc[r] = "killed" /\ Dies(r)) /\ WF_vars(ExitSeen(r))

-----------------------------------------------------------------------------
(***************************************************************************)
(* Properties.                                                             *)
(***************************************************************************)

\* No process runs on outside a terminal: one that has not been told to go is
\* the command of an open session, where close(), the timers and disposeAll()
\* reach it.
NoStrayProcess == \A r \in Runs : proc[r] = "alive" => of[r] \in open /\ pty[of[r]] = r

\* The events of a terminal tell one story: opened first, then commands that
\* start and finish one after the other, each finish for the start before it,
\* and closed last, with no command left unfinished.
OneStory ==
  \A i \in Ids : \A k \in 1..Len(feed[i]) :
    LET e == feed[i][k]
    IN  /\ e.type = "opened" <=> k = 1
        /\ e.type = "started"  => feed[i][k - 1].type \in {"opened", "finished"}
        /\ e.type = "finished" => /\ feed[i][k - 1].type = "started"
                                  /\ feed[i][k - 1].run = e.run
        /\ e.type = "closed"   => k = Len(feed[i]) /\ feed[i][k - 1].type # "started"

\* Processes and feeds: nothing runs on outside a terminal, nothing is left out of
\* its story.
TerminalsAreSound == TypeOK /\ NoStrayProcess /\ OneStory

\* A command that was started is reported finished, by its own end, by its
\* timer or by the terminal's closing, unless the application closes.
CommandEnds ==
  \A r \in Runs :
    proc[r] \in {"alive", "killed", "gone"}
      ~> disposed \/ \E i \in Ids : \E k \in 1..Len(feed[i]) :
                       feed[i][k].type = "finished" /\ feed[i][k].run = r
=============================================================================
