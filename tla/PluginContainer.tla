--------------------------- MODULE PluginContainer ---------------------------
(***************************************************************************)
(* The plugin container of packages/kernel/src/container.  Plugins are     *)
(* used in an order, activated in the order their injected services allow, *)
(* and undone: every effect of a plugin once, the last one first.  The     *)
(* caller is the one the repository has: it awaits start() before anything *)
(* else and calls dispose() when start() has failed or when it is done     *)
(* (compose/src/assemble.ts:61-75, runtime/src/turn-plugins.ts:177-183).   *)
(***************************************************************************)
EXTENDS Naturals, Sequences, SequencesExt

CONSTANTS
    Plugins,     \* names of plugins
    Wirings      \* sequences of [name, inject, provide] used on one container

VARIABLES
    wiring,      \* the plugins in the order of use()
    state,       \* PluginState of each handle
    services,    \* registered service |-> the plugin that owns it
    effects,     \* effects of each plugin that stand, oldest first
    activated,   \* start()'s list of what it activated
    todo,        \* handles still to dispose, in the order they will be
    stage,       \* what the caller awaits
    undone,      \* history: the undone effects of each plugin, in order
    setUp        \* history: the effects each plugin ever set up, in order

vars == <<wiring, state, services, effects, activated, todo, stage, undone, setUp>>

\* A wiring is a sequence of rows, each of a handle of its own.
WiringsAssumption ==
    \A rows \in Wirings :
        /\ rows \in Seq(ToSet(rows))
        /\ \A i, j \in DOMAIN rows : rows[i].name \in Plugins /\ (rows[i].name = rows[j].name => i = j)

PluginNames == [i \in DOMAIN wiring |-> wiring[i].name]
Row(p) == wiring[CHOOSE i \in DOMAIN wiring : wiring[i].name = p]
Missing(p) == Row(p).inject \ DOMAIN services
Pending == {i \in DOMAIN wiring : state[wiring[i].name] = "pending"}
Ready == {i \in Pending : Missing(wiring[i].name) = {}}

Init ==
    /\ wiring \in Wirings
    /\ state = [p \in Plugins |-> IF \E i \in DOMAIN wiring : wiring[i].name = p
                                  THEN "pending" ELSE "absent"]
    /\ services = << >>
    /\ effects = [p \in Plugins |-> << >>]
    /\ activated = << >> /\ todo = << >>
    /\ stage = "used"
    /\ undone = [p \in Plugins |-> << >>]
    /\ setUp = [p \in Plugins |-> << >>]

(***************************************************************************)
(* start(): two plugins that announce the same service fail it before      *)
(* anything is applied; otherwise plugins are activated one after the      *)
(* other, always the first in order whose services are there.              *)
(***************************************************************************)
AdvertisedConflict ==
    \E i, j \in DOMAIN wiring : i < j /\ wiring[i].provide \cap wiring[j].provide # {}

Start ==
    /\ stage = "used"
    /\ stage' = IF AdvertisedConflict THEN "failed" ELSE "starting"
    /\ UNCHANGED <<wiring, state, services, effects, activated, todo, undone, setUp>>

Activate ==
    /\ stage = "starting" /\ Ready # {}
    /\ \E i \in Ready : /\ \A j \in Ready : i <= j
                       /\ todo' = <<wiring[i].name>>
    /\ stage' = "applying"
    /\ UNCHANGED <<wiring, state, services, effects, activated, undone, setUp>>

\* No pending plugin has its services: a missing provider or a cycle.
DependencyError ==
    /\ stage = "starting" /\ Pending # {} /\ Ready = {}
    /\ stage' = "unwinding" /\ todo' = Reverse(activated)
    /\ UNCHANGED <<wiring, state, services, effects, activated, undone, setUp>>

AllActive ==
    /\ stage = "starting" /\ Pending = {}
    /\ stage' = "started"
    /\ UNCHANGED <<wiring, state, services, effects, activated, todo, undone, setUp>>

(***************************************************************************)
(* apply(ctx): the plugin provides services, listens, and may return a     *)
(* cleanup; it may throw at any point, and it may forget a service it      *)
(* announced.  Each effect is adopted by the plugin's owner.               *)
(***************************************************************************)
Applying(p) == stage = "applying" /\ todo = <<p>>

Adopt(p, e) ==
    /\ effects' = [effects EXCEPT ![p] = Append(@, e)]
    /\ setUp' = [setUp EXCEPT ![p] = Append(@, e)]

Provide(p, s) ==
    /\ Applying(p) /\ s \in Row(p).provide \ DOMAIN services
    /\ services' = [t \in DOMAIN services \cup {s} |-> IF t = s THEN p ELSE services[t]]
    /\ Adopt(p, s)
    /\ UNCHANGED <<wiring, state, activated, todo, stage, undone>>

Listen(p) ==
    /\ Applying(p) /\ ~ Contains(effects[p], "listener")
    /\ Adopt(p, "listener")
    /\ UNCHANGED <<wiring, state, services, activated, todo, stage, undone>>

\* The handle is disposed where its activation failed, and start() then
\* unwinds what it had activated, the last one first.
ApplyFails(p) ==
    /\ Applying(p)
    /\ state' = [state EXCEPT ![p] = "disposed"]
    /\ stage' = "unwinding" /\ todo' = <<p>> \o Reverse(activated)
    /\ UNCHANGED <<wiring, services, effects, activated, undone, setUp>>

\* Every announced service must be there before the handle counts as active.
ApplyReturns(p, cleanup) ==
    /\ Applying(p)
    /\ \A s \in Row(p).provide : s \in DOMAIN services /\ services[s] = p
    /\ IF cleanup THEN Adopt(p, "cleanup") ELSE UNCHANGED <<effects, setUp>>
    /\ state' = [state EXCEPT ![p] = "active"]
    /\ activated' = Append(activated, p)
    /\ stage' = "starting" /\ todo' = << >>
    /\ UNCHANGED <<wiring, services, undone>>

(***************************************************************************)
(* Disposal.  A handle is marked first and its effects are then undone one *)
(* awaited cleanup after the other; a cleanup that fails does not stop the *)
(* ones behind it.  Undoing a service removes it if it is still its own.   *)
(***************************************************************************)
Undoing == stage \in {"unwinding", "disposing"} /\ todo # << >>

Mark(p) ==
    /\ Undoing /\ Head(todo) = p /\ state[p] \in {"pending", "active"}
    /\ state' = [state EXCEPT ![p] = "disposed"]
    /\ UNCHANGED <<wiring, services, effects, activated, todo, stage, undone, setUp>>

\* The disposer of register(): a service goes if it is still the plugin's own.
Unregistered(p, e) ==
    IF e \in DOMAIN services /\ services[e] = p THEN [s \in DOMAIN services \ {e} |-> services[s]]
    ELSE services

UndoLast(p) ==
    /\ Undoing /\ Head(todo) = p /\ state[p] = "disposed" /\ effects[p] # << >>
    /\ LET e == Last(effects[p])
       IN  /\ undone' = [undone EXCEPT ![p] = Append(@, e)]
           /\ services' = Unregistered(p, e)
    /\ effects' = [effects EXCEPT ![p] = Front(@)]
    /\ UNCHANGED <<wiring, state, activated, todo, stage, setUp>>

\* A handle is left behind while some of its effects still stand.
Undone_Early(p) ==
    /\ Undoing /\ Head(todo) = p /\ state[p] = "disposed"
    /\ todo' = Tail(todo)
    /\ UNCHANGED <<wiring, state, services, effects, activated, stage, undone, setUp>>

Undone(p) ==
    /\ Undoing /\ Head(todo) = p /\ state[p] = "disposed" /\ effects[p] = << >>
    /\ todo' = Tail(todo)
    /\ UNCHANGED <<wiring, state, services, effects, activated, stage, undone, setUp>>

Unwound ==
    /\ stage = "unwinding" /\ todo = << >>
    /\ stage' = "failed"
    /\ UNCHANGED <<wiring, state, services, effects, activated, todo, undone, setUp>>

\* dispose() goes through the handles against the order of use().
Dispose ==
    /\ stage \in {"started", "failed"}
    /\ stage' = "disposing" /\ todo' = Reverse(PluginNames)
    /\ UNCHANGED <<wiring, state, services, effects, activated, undone, setUp>>

Disposed ==
    /\ stage = "disposing" /\ todo = << >>
    /\ stage' = "disposed"
    /\ UNCHANGED <<wiring, state, services, effects, activated, todo, undone, setUp>>

Step(p) ==
    \/ \E s \in Row(p).provide : Provide(p, s)
    \/ Listen(p)
    \/ ApplyFails(p)
    \/ \E cleanup \in BOOLEAN : ApplyReturns(p, cleanup)
    \/ Mark(p) \/ UndoLast(p) \/ Undone(p)

Next ==
    \/ Start \/ Activate \/ DependencyError \/ AllActive
    \/ \E p \in ToSet(PluginNames) : Step(p)
    \/ Unwound \/ Dispose \/ Disposed

Spec == Init /\ [][Next]_vars

-----------------------------------------------------------------------------
TypeOK ==
    /\ state \in [Plugins -> {"absent", "pending", "active", "disposed"}]
    /\ DOMAIN services \subseteq UNION {wiring[i].provide : i \in DOMAIN wiring}
    /\ stage \in {"used", "starting", "applying", "started", "unwinding", "failed",
                  "disposing", "disposed"}

InOrder == \A i \in DOMAIN wiring :
               wiring[i].inject \subseteq UNION {wiring[j].provide : j \in 1 .. i - 1}

\* An active plugin has the services it injects: while plugins start, while a
\* failed start is taken back, and, when the order of use() respects the
\* injections, through the whole of dispose() too.
ProvidersOutlive ==
    (stage # "disposing" \/ InOrder) =>
        \A p \in Plugins : state[p] = "active" => Missing(p) = {}

\* Nothing a plugin set up stands after a failed start or a dispose, and each
\* of its effects was undone once, the last one first.
NothingIsLeft ==
    stage \in {"failed", "disposed"} =>
        /\ services = << >>
        /\ \A p \in Plugins : effects[p] = << >> /\ undone[p] = Reverse(setUp[p])
=============================================================================
