---------------------------- MODULE SessionState ----------------------------
(***************************************************************************)
(* A session as the fold of its events: the projection reduce() of         *)
(* packages/kernel/src/state, field by field, the snapshot written of it,  *)
(* the bounded indexes it keeps, the traces derived from the same events   *)
(* (trace/derive-trace.ts) and the order in which the runtime can record   *)
(* events.  Turn.tla follows messages and calls in detail; here they are   *)
(* counted, and every other field is kept.                                 *)
(***************************************************************************)
EXTENDS Naturals, Sequences, FiniteSets, SequencesExt

CONSTANTS
    TurnIds, Calls, Proposals, Checkpoints, Ptys, Agents,
    PRESENTATION_LIMIT, EDIT_PROPOSAL_LIMIT,
    MaxEvents      \* events of the log

VARIABLES log, state
vars == <<log, state>>

None == "none"

-----------------------------------------------------------------------------
(* Events: what the registry knows, and which of them are stored.          *)

PersistedTypes ==
    {"session.created", "session.renamed", "session.configured", "turn.start", "turn.end",
     "message.start", "message.end", "message.interrupted", "tool.start", "tool.end",
     "tool.code.dispatch", "shell.session.opened", "shell.session.command.started",
     "shell.session.command.finished", "shell.session.closed", "permission.request",
     "permission.decision", "trust.cleared", "todo.updated", "subagent.start",
     "subagent.end", "context.injected", "context.compacted", "usage.recorded",
     "checkpoint.created", "edit.proposed", "edit.reviewed", "edit.applied",
     "checkpoint.restore.started", "checkpoint.restore.failed", "checkpoint.restored",
     "notice.posted", "error.raised", "ext.persisted"}
TransientTypes == {"message.delta", "provider.status", "tool.progress",
                   "shell.session.output", "ext.transient"}

Event(type, id, flag) == [type |-> type, id |-> id, flag |-> flag]
\* flag: what the event brings is untrusted (tool.start, context.injected,
\* subagent.end), a result has a presentation, a decision denies, an error is
\* fatal.

-----------------------------------------------------------------------------
(* The bounded indexes (bounded-index.ts)                                  *)

Newest(s, n) == IF Len(s) <= n THEN s ELSE SubSeq(s, Len(s) - n + 1, Len(s))

\* A map kept in insertion order: a second write moves a key to the end.
RecordPresentation(presentations, call) ==
    Newest(Append(SelectSeq(presentations, LAMBDA c : c # call), call), PRESENTATION_LIMIT)

IsTerminal(item) == item.applied \/ item.reviewed

\* A proposal has one entry.  Over the limit the oldest finished proposal goes, and the oldest of all
\* only when none is finished.
AppendEditProposal(proposals, id) ==
    LET kept == Append(RemoveFirstMatch(proposals, LAMBDA item : item.id = id),
                       [id |-> id, applied |-> FALSE, reviewed |-> FALSE])
        finished == SelectInSeq(kept, IsTerminal)
        victim == IF finished = 0 THEN 1 ELSE finished
    IN  IF Len(kept) <= EDIT_PROPOSAL_LIMIT THEN kept ELSE RemoveAt(kept, victim)

PatchEditProposal(proposals, id, field) ==
    [i \in DOMAIN proposals |->
        IF proposals[i].id = id THEN [proposals[i] EXCEPT ![field] = TRUE] ELSE proposals[i]]

ApplyRestorePatch(checkpoints, id, phase) ==
    [i \in DOMAIN checkpoints |->
        IF checkpoints[i].id = id THEN [checkpoints[i] EXCEPT !.restore = phase]
        ELSE checkpoints[i]]

-----------------------------------------------------------------------------
(* reduce(), by the field an event changes                                 *)

EmptySessionState ==
    [status |-> "idle", turn |-> None, blocks |-> 0, message |-> FALSE, taint |-> None,
     todos |-> 0, proposals |-> << >>, presentations |-> << >>, running |-> {},
     interrupted |-> {}, subagents |-> {}, ptys |-> {}, usage |-> 0, compactions |-> 0,
     checkpoints |-> << >>, notices |-> 0, error |-> FALSE, lastSeq |-> 0]

Status(st, e) ==
    CASE e.type = "turn.start" -> "running"
      [] e.type = "turn.end" -> "idle"
      [] e.type = "error.raised" /\ e.flag -> "error"
      [] OTHER -> st.status

OpenTurn(st, e) ==
    CASE e.type = "turn.start" -> e.id
      [] e.type = "turn.end" -> None
      [] OTHER -> st.turn

Blocks(st, e) ==
    IF e.type \in {"turn.start", "message.end", "tool.end", "context.injected"}
    THEN st.blocks + 1 ELSE st.blocks

ActiveMessage(st, e) ==
    CASE e.type = "message.start" -> TRUE
      [] e.type \in {"message.end", "message.interrupted"} -> FALSE
      [] OTHER -> st.message

\* The newest source replaces the mark.
Taint_Newest(st, e) ==
    CASE e.type = "trust.cleared" -> None
      [] e.type \in {"tool.start", "subagent.end", "context.injected"} /\ e.flag -> e.id
      [] OTHER -> st.taint

\* The first source of untrusted content is remembered until a user clears it.
Taint(st, e) ==
    CASE e.type = "trust.cleared" -> None
      [] /\ e.type \in {"tool.start", "subagent.end", "context.injected"}
         /\ e.flag /\ st.taint = None -> e.id
      [] OTHER -> st.taint

Running(st, e) ==
    CASE e.type = "tool.start" -> st.running \cup {e.id}
      [] e.type = "tool.end" -> st.running \ {e.id}
      [] e.type = "turn.end" -> {}
      [] OTHER -> st.running

Interrupted(st, e) ==
    IF e.type = "turn.end" THEN st.interrupted \cup st.running ELSE st.interrupted

Presentations(st, e) ==
    IF e.type = "tool.end" /\ e.flag THEN RecordPresentation(st.presentations, e.id)
    ELSE st.presentations

EditProposals(st, e) ==
    CASE e.type = "edit.proposed" -> AppendEditProposal(st.proposals, e.id)
      [] e.type = "edit.applied" -> PatchEditProposal(st.proposals, e.id, "applied")
      [] e.type = "edit.reviewed" -> PatchEditProposal(st.proposals, e.id, "reviewed")
      [] OTHER -> st.proposals

CheckpointRows(st, e) ==
    CASE e.type = "checkpoint.created" ->
            Append(st.checkpoints, [id |-> e.id, restore |-> None])
      [] e.type = "checkpoint.restore.started" ->
            ApplyRestorePatch(st.checkpoints, e.id, "started")
      [] e.type = "checkpoint.restore.failed" ->
            ApplyRestorePatch(st.checkpoints, e.id, "failed")
      [] e.type = "checkpoint.restored" ->
            ApplyRestorePatch(st.checkpoints, e.id, "restored")
      [] OTHER -> st.checkpoints

Members(set, e, opened, closed) ==
    CASE e.type = opened -> set \cup {e.id}
      [] e.type = closed -> set \ {e.id}
      [] OTHER -> set

Count(n, e, type) == IF e.type = type THEN n + 1 ELSE n

Reduce(st, e) ==
    IF e.type \in TransientTypes THEN st
    ELSE [status |-> Status(st, e), turn |-> OpenTurn(st, e), blocks |-> Blocks(st, e),
          message |-> ActiveMessage(st, e), taint |-> Taint(st, e),
          todos |-> Count(st.todos, e, "todo.updated"),
          proposals |-> EditProposals(st, e), presentations |-> Presentations(st, e),
          running |-> Running(st, e), interrupted |-> Interrupted(st, e),
          subagents |-> Members(st.subagents, e, "subagent.start", "subagent.end"),
          ptys |-> Members(st.ptys, e, "shell.session.opened", "shell.session.closed"),
          usage |-> Count(st.usage, e, "usage.recorded"),
          compactions |-> Count(st.compactions, e, "context.compacted"),
          checkpoints |-> CheckpointRows(st, e),
          notices |-> Count(st.notices, e, "notice.posted"),
          error |-> e.type = "error.raised" \/ (st.error /\ e.type # "turn.start"),
          lastSeq |-> st.lastSeq + 1]

\* The snapshot names every field; a map becomes a list of its entries.
SerializeSessionState(st) ==
    [st EXCEPT !.running = SetToSeq(@), !.subagents = SetToSeq(@), !.ptys = SetToSeq(@)]

DeserializeSessionState(row) ==
    [row EXCEPT !.running = ToSet(@), !.subagents = ToSet(@), !.ptys = ToSet(@)]

ReduceAll(initial, events) == FoldLeft(Reduce, initial, events)

-----------------------------------------------------------------------------
(* deriveTraces: one trace per turn, of the same events                    *)

NoTrace == [turn |-> None, steps |-> << >>, started |-> {}, cost |-> 0,
            interrupted |-> FALSE, rejected |-> 0, reason |-> "unknown"]

Finalize(acc, ended) ==
    [acc EXCEPT !.reason = IF ended THEN "ended"
                           ELSE IF acc.interrupted THEN "interrupted" ELSE "unknown"]

\* An end without a start counts as a step.
TraceStep_AnyEnd(acc, e) ==
    LET cur == acc.current
        set(t) == [acc EXCEPT !.current = t]
    IN  IF e.type = "turn.start" THEN set([NoTrace EXCEPT !.turn = e.id])
        ELSE IF cur = NoTrace THEN acc
        ELSE CASE e.type = "turn.end" /\ cur.turn = e.id ->
                    [done |-> Append(acc.done, Finalize(cur, TRUE)), current |-> NoTrace]
               [] e.type = "usage.recorded" -> set([cur EXCEPT !.cost = @ + 1])
               [] e.type = "tool.end" -> set([cur EXCEPT !.steps = Append(@, e.id)])
               [] e.type = "tool.code.dispatch" -> set([cur EXCEPT !.steps = Append(@, e.id)])
               [] OTHER -> acc

\* acc: the finished traces and the current one (NoTrace when there is none).
TraceStep(acc, e) ==
    LET cur == acc.current
        set(t) == [acc EXCEPT !.current = t]
    IN  IF e.type = "turn.start" THEN set([NoTrace EXCEPT !.turn = e.id])
        ELSE IF cur = NoTrace THEN acc
        ELSE CASE e.type = "turn.end" /\ cur.turn = e.id ->
                    [done |-> Append(acc.done, Finalize(cur, TRUE)), current |-> NoTrace]
               [] e.type = "usage.recorded" -> set([cur EXCEPT !.cost = @ + 1])
               [] e.type = "tool.start" -> set([cur EXCEPT !.started = @ \cup {e.id}])
               [] e.type = "tool.end" /\ e.id \in cur.started ->
                    set([cur EXCEPT !.steps = Append(@, e.id), !.started = @ \ {e.id}])
               [] e.type = "tool.code.dispatch" -> set([cur EXCEPT !.steps = Append(@, e.id)])
               [] e.type = "message.interrupted" -> set([cur EXCEPT !.interrupted = TRUE])
               [] e.type = "permission.decision" /\ e.flag ->
                    set([cur EXCEPT !.rejected = @ + 1])
               [] OTHER -> acc

DeriveTraces(events) ==
    LET acc == FoldLeft(TraceStep, [done |-> << >>, current |-> NoTrace], events)
    IN  IF acc.current = NoTrace THEN acc.done
        ELSE Append(acc.done, Finalize(acc.current, FALSE))

-----------------------------------------------------------------------------
(* What the runtime can record next.  A call ends after it started, or,    *)
(* when recovery answers it, without ever having started; a checkpoint is  *)
(* restored between turns; a user clears the mark at any time.             *)

Types(type) == {e \in ToSet(log) : e.type = type}
Known(type) == {e.id : e \in Types(type)}
\* A new turn has a new id; which one does not matter.
NewTurn ==
    LET fresh == TurnIds \ Known("turn.start")
    IN  IF fresh = {} THEN {} ELSE {CHOOSE turn \in fresh : TRUE}
InTurn == state.turn # None

Recordable ==
    LET of(types, ids, flags) == {Event(t, i, f) : t \in types, i \in ids, f \in flags}
        restoring == {c.id : c \in {c \in ToSet(state.checkpoints) : c.restore = "started"}}
    IN  (IF InTurn THEN
            of({"turn.end"}, {state.turn}, {FALSE})
            \cup of({"tool.start"}, Calls \ (Known("tool.start") \cup Known("tool.end")), BOOLEAN)
            \cup of({"tool.end"}, state.running, {TRUE})
            \cup of({"tool.end"}, Calls \ (Known("tool.start") \cup Known("tool.end")), {FALSE})
            \cup of({"tool.code.dispatch"}, state.running, {FALSE})
            \cup of({"usage.recorded", "message.interrupted", "error.raised"}, {None}, {FALSE})
            \cup of({"permission.decision"}, {None}, {TRUE})
            \cup of({"context.injected"}, {"injected"}, {TRUE})
            \cup of({"edit.proposed"}, Proposals \ Known("edit.proposed"), {FALSE})
            \cup of({"edit.applied"}, Known("edit.proposed"), {FALSE})
            \cup of({"subagent.start"}, Agents \ Known("subagent.start"), {FALSE})
            \cup of({"checkpoint.created"}, Checkpoints \ Known("checkpoint.created"), {FALSE})
         ELSE
            of({"turn.start"}, NewTurn, {FALSE})
            \cup of({"checkpoint.restore.started"}, Known("checkpoint.created"), {FALSE}))
        \cup of({"trust.cleared"}, IF state.taint = None THEN {} ELSE {None}, {FALSE})
        \cup of({"subagent.end"}, state.subagents, BOOLEAN)
        \cup of({"checkpoint.restore.failed", "checkpoint.restored"}, restoring, {FALSE})
        \cup of({"shell.session.opened"}, Ptys \ Known("shell.session.opened"), {FALSE})
        \cup of({"shell.session.closed"}, state.ptys, {FALSE})

Init == log = << >> /\ state = EmptySessionState

Record(e) ==
    /\ log' = Append(log, e)
    /\ state' = Reduce(state, e)

Next == Len(log) < MaxEvents /\ \E e \in Recordable : Record(e)

Spec == Init /\ [][Next]_vars

-----------------------------------------------------------------------------
\* A snapshot taken anywhere and the events behind it give the same state as
\* the whole log (loadSnapshot, SessionRuntime.open).
SnapshotResumes ==
    \A k \in 0 .. Len(log) :
        LET row == SerializeSessionState(ReduceAll(EmptySessionState, SubSeq(log, 1, k)))
        IN  ReduceAll(DeserializeSessionState(row), SubSeq(log, k + 1, Len(log))) = state

\* The session is marked exactly when untrusted content came in since a user
\* last cleared it, and the mark names the first such source.
Sources ==
    {i \in DOMAIN log :
        /\ log[i].type \in {"tool.start", "context.injected", "subagent.end"} /\ log[i].flag
        /\ \A c \in DOMAIN log : log[c].type = "trust.cleared" => c < i}
TaintHasASource == state.taint = IF Sources = {} THEN None ELSE log[Min(Sources)].id

\* A turn reaches from its start to the next one.  The calls to be seen in it are
\* those that ended in the turn they started in and those a program made.
Starts == {i \in DOMAIN log : log[i].type = "turn.start"}
Turn(i) == {k \in DOMAIN log : i <= k /\ \A j \in Starts : j <= i \/ k < j}
CallsSeen(i) ==
    {k \in Turn(i) :
        \/ log[k].type = "tool.code.dispatch"
        \/ /\ log[k].type = "tool.end"
           /\ \E j \in Turn(i) : j < k /\ log[j].type = "tool.start" /\ log[j].id = log[k].id}
Paid(i) == {k \in Turn(i) : log[k].type = "usage.recorded"}

\* A trace per turn, in order; its steps are the calls seen in the turn, its
\* cost the turn's usage.
TracesAreTheTurns ==
    LET traces == DeriveTraces(log)
    IN  /\ Len(traces) = Cardinality(Starts)
        /\ \A i \in Starts :
               LET trace == traces[Cardinality({j \in Starts : j <= i})]
               IN  /\ trace.turn = log[i].id
                   /\ Len(trace.steps) = Cardinality(CallsSeen(i))
                   /\ trace.cost = Cardinality(Paid(i))

\* An edit nobody has decided on yet is only given up when the list is full of
\* such edits.
OpenProposalsStay ==
    [][\A item \in ToSet(state.proposals) :
          ~ IsTerminal(item) /\ (\A kept \in ToSet(state'.proposals) : kept.id # item.id)
          => \A other \in ToSet(state.proposals) : ~ IsTerminal(other)]_vars

\* Only a user's clearing takes the mark of untrusted content away, and no
\* later source replaces it.
TaintSticks ==
    [][state.taint # None =>
          state'.taint = state.taint \/ Last(log').type = "trust.cleared"]_vars
=============================================================================
