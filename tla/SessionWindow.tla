--------------------------- MODULE SessionWindow ---------------------------
(***************************************************************************)
(* The window and the events pushed to it: the main process reduces and    *)
(* publishes, answers readSession, and both travel over one ordered wire;  *)
(* the window keeps a copy of the reduced state and, beside it, the buffer *)
(* of what is under way (apps/desktop/src/renderer/store.ts, bridge.ts,    *)
(* packages/kernel/src/state/live-buffer.ts, ipc.ts of the main process).  *)
(*                                                                         *)
(* The reduced state stands for the numbers of the events it was made of,  *)
(* so that one left out or taken twice is seen.                            *)
(***************************************************************************)
EXTENDS Naturals, Sequences, SequencesExt, FiniteSetsExt, Functions

CONSTANTS Sessions,
          MaxEvents,   \* bound: events of all sessions
          MaxOpens     \* bound: sessions opened in the window

VARIABLES
  log,      \* the events of each session, all reduced and published
  reads,    \* the calls of readSession: session, place, what they found
  wire,     \* pushed events and replies on their way to the window
  tabs,     \* openIds
  shown,    \* currentId, or "none"
  loaded,   \* session is defined
  view,     \* the events its state was made of
  details,  \* the dispatches of programs that are listed
  live      \* LiveBuffer: the message, the calls with progress

vars == <<log, reads, wire, tabs, shown, loaded, view, details, live>>

Kinds == {"turn.start", "message.start", "message.delta", "message.end", "tool.progress",
          "tool.end", "tool.code.dispatch", "turn.end"}
EmptyLive == [message |-> "none", call |-> "none"]

Dispatches(s) == {n \in DOMAIN log[s] : log[s][n] = "tool.code.dispatch"}

\* A session is open once, and what is shown or answered is of its own events.
TypeOK ==
  /\ log \in [Sessions -> Seq(Kinds)]
  /\ \A i \in DOMAIN reads :
       /\ reads[i] \in [session : Sessions, at : {"extras", "taken", "posted"},
                        extras : SUBSET Nat, upto : Nat]
       /\ reads[i].extras \subseteq Dispatches(reads[i].session)
       /\ reads[i].upto <= Len(log[reads[i].session])
  /\ tabs \in Seq(Sessions) /\ IsInjective(tabs)
  /\ shown \in Sessions \cup {"none"} /\ loaded \in BOOLEAN
  /\ IF shown = "none" THEN view = <<>> /\ details = {}
     ELSE view \in Seq(DOMAIN log[shown]) /\ details \subseteq Dispatches(shown)
  /\ live.message \in {"none", "empty", "text"} /\ live.call \in {"none", "running"}

Init ==
  /\ log = [s \in Sessions |-> <<>>] /\ reads = <<>> /\ wire = <<>>
  /\ tabs = <<>> /\ shown = "none" /\ loaded = FALSE /\ view = <<>> /\ details = {}
  /\ live = EmptyLive

-----------------------------------------------------------------------------
(* The buffer. *)

\* Mutant: the end of a turn leaves what was under way.
ApplyLive_TurnEndKeeps(buffer, kind) ==
  CASE kind = "message.start" -> [buffer EXCEPT !.message = "empty"]
    [] kind = "message.delta" -> IF buffer.message = "none" THEN buffer
                                 ELSE [buffer EXCEPT !.message = "text"]
    [] kind = "message.end" -> [buffer EXCEPT !.message = "none"]
    [] kind = "tool.progress" -> [buffer EXCEPT !.call = "running"]
    [] kind = "tool.end" -> [buffer EXCEPT !.call = "none"]
    [] OTHER -> buffer

\* A delta of a message whose start was not seen is dropped; the end of the
\* message, the call or the turn clears what it ends.
ApplyLive(buffer, kind) ==
  CASE kind = "message.start" -> [buffer EXCEPT !.message = "empty"]
    [] kind = "message.delta" -> IF buffer.message = "none" THEN buffer
                                 ELSE [buffer EXCEPT !.message = "text"]
    [] kind = "message.end" -> [buffer EXCEPT !.message = "none"]
    [] kind = "tool.progress" -> [buffer EXCEPT !.call = "running"]
    [] kind = "tool.end" -> [buffer EXCEPT !.call = "none"]
    [] kind = "turn.end" -> EmptyLive
    [] OTHER -> buffer

-----------------------------------------------------------------------------
(* The main process. *)

\* What a turn may record next: where it stands is read off its events, of which
\* the deltas and the dispatches leave it where it is.
LeadsTo ==
  [kind \in Kinds \ {"message.delta", "tool.code.dispatch"} |->
     CASE kind = "message.start" -> "message"
       [] kind = "tool.progress" -> "call"
       [] kind = "turn.end" -> "idle"
       [] OTHER -> "turn"]

Standing(events) ==
  LET steps == {n \in DOMAIN events : events[n] \in DOMAIN LeadsTo}
  IN  IF steps = {} THEN "idle" ELSE LeadsTo[events[Max(steps)]]

May == [idle    |-> {"turn.start"},
        turn    |-> {"message.start", "tool.progress", "turn.end"},
        message |-> {"message.delta", "message.end"},
        call    |-> {"tool.code.dispatch", "tool.end", "turn.end"}]

\* The runtime reduces and publishes in one stretch; the bus hands the event to
\* every window.
Publish(s) ==
  /\ FoldFunctionOnSet(LAMBDA events, sum : Len(events) + sum, 0, log, Sessions) < MaxEvents
  /\ \E kind \in May[Standing(log[s])] :
       /\ log' = [log EXCEPT ![s] = Append(@, kind)]
       /\ wire' = Append(wire, [what |-> "event", session |-> s, n |-> Len(log[s]) + 1, read |-> 0])
  /\ UNCHANGED <<reads, tabs, shown, loaded, view, details, live>>

\* readSession: the dispatches are read from the store first, the state is
\* serialized when they are there ...
Answer(i) ==
  /\ reads[i].at = "extras"
  /\ reads' = [reads EXCEPT ![i].at = "taken", ![i].upto = Len(log[reads[i].session])]
  /\ UNCHANGED <<log, wire, tabs, shown, loaded, view, details, live>>

\* ... and the reply is posted some microtasks later, when more events may have
\* been pushed.
Post(i) ==
  /\ reads[i].at = "taken"
  /\ reads' = [reads EXCEPT ![i].at = "posted"]
  /\ wire' = Append(wire, [what |-> "reply", session |-> reads[i].session, n |-> 0, read |-> i])
  /\ UNCHANGED <<log, tabs, shown, loaded, view, details, live>>

-----------------------------------------------------------------------------
(* The window. *)

\* openSession: everything of the session before is dropped, then it is read.
Show(s, open) ==
  /\ Len(reads) < MaxOpens
  /\ tabs' = open /\ shown' = s /\ loaded' = FALSE /\ view' = <<>> /\ details' = {}
  /\ live' = EmptyLive
  /\ reads' = Append(reads, [session |-> s, at |-> "extras", extras |-> Dispatches(s), upto |-> 0])

OpenSession(s) ==
  /\ Show(s, IF s \in ToSet(tabs) THEN tabs ELSE Append(tabs, s))
  /\ UNCHANGED <<log, wire>>

\* closeTab: another session shown stays, the last one left is shown, or none.
CloseTab(s) ==
  /\ \E i \in DOMAIN tabs :
       LET rest == RemoveAt(tabs, i) IN
       /\ tabs[i] = s
       /\ \/ s # shown /\ tabs' = rest /\ UNCHANGED <<reads, shown, loaded, view, details, live>>
          \/ s = shown /\ rest # <<>> /\ Show(Last(rest), rest)
          \/ /\ s = shown /\ rest = <<>>
             /\ tabs' = rest /\ shown' = "none" /\ loaded' = FALSE /\ view' = <<>>
             /\ details' = {} /\ live' = EmptyLive /\ UNCHANGED reads
  /\ UNCHANGED <<log, wire>>

\* applyEvent: dropped unless it is of the session shown and its state is there.
ApplyEvent(s, n) ==
  IF shown # s \/ ~loaded THEN UNCHANGED <<view, details, live>>
  ELSE /\ view' = Append(view, n)
       /\ details' = IF log[s][n] = "tool.code.dispatch" THEN details \cup {n} ELSE details
       /\ live' = ApplyLive(live, log[s][n])

\* The reply of readSession: taken if its session is still the one shown.
Loads(i) ==
  IF shown # reads[i].session THEN UNCHANGED <<loaded, view, details>>
  ELSE /\ loaded' = TRUE /\ details' = reads[i].extras
       /\ view' = [n \in 1..reads[i].upto |-> n]

Arrives ==
  /\ wire # <<>> /\ wire' = Tail(wire)
  /\ LET m == Head(wire) IN
     IF m.what = "event" THEN ApplyEvent(m.session, m.n) /\ UNCHANGED loaded
     ELSE Loads(m.read) /\ UNCHANGED live
  /\ UNCHANGED <<log, reads, tabs, shown>>

Next ==
  \/ \E s \in Sessions : Publish(s) \/ OpenSession(s) \/ CloseTab(s)
  \/ \E i \in DOMAIN reads : Answer(i) \/ Post(i)
  \/ Arrives

Spec == Init /\ [][Next]_vars

-----------------------------------------------------------------------------
\* The copy in the window never holds an event twice, or one after a later one,
\* however pushes and replies cross: the reducer would show a message twice.
NoneTwice == \A i, j \in DOMAIN view : i < j => view[i] < view[j]

Quiet == wire = <<>> /\ \A i \in DOMAIN reads : reads[i].at = "posted"

\* When nothing is on its way and the turn of the session shown is over, no
\* half-written message and no running call is left in the window.
LiveSettles ==
  Quiet /\ shown # "none" /\ Standing(log[shown]) = "idle" => live = EmptyLive

\* What is shown is the state of the session: the gap between Answer and Post
\* may lose an event, so this is not an invariant.
ViewIsState == Quiet /\ loaded => view = [n \in DOMAIN log[shown] |-> n]
=============================================================================
