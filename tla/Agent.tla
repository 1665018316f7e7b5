------------------------------- MODULE Agent -------------------------------
(***************************************************************************)
(* The handle callers give their messages to: the volatile inbox, the      *)
(* drain that turns claimed batches into turns one after the other, the    *)
(* stop button (packages/runtime/src/agent.ts).                            *)
(*                                                                         *)
(* The items are numbered in the order they are enqueued.  Each activation *)
(* is one drain: an async function that runs without a pause from one      *)
(* `await drive` to the next, followed by the finally callback that clears *)
(* #active, in a later microtask.  drive() itself is the turn (Turn.tla):  *)
(* here it ends some time, resolved or rejected.                           *)
(***************************************************************************)
EXTENDS Naturals, Sequences, FiniteSets

CONSTANTS MaxItems,   \* bound: messages enqueued
          MaxStops    \* bound: presses of the stop button

VARIABLES
  steers, followups,   \* AgentInbox
  enqueued,            \* AgentInbox.#counter
  kind,                \* the kind each item was enqueued with
  drains,              \* the activations so far: where each one is
  active,              \* #active (and #controller): the drain, or 0
  aborted,             \* drains whose controller was aborted
  driven,              \* the items handed to drive(), in that order
  cleared,             \* items thrown away by interrupt()
  stops                \* presses so far

inbox == <<steers, followups, enqueued, kind>>
vars  == <<inbox, drains, active, aborted, driven, cleared, stops>>

Kinds == {"steer", "followup"}
Items == 1..MaxItems
Pending == {steers[k] : k \in 1..Len(steers)} \cup {followups[k] : k \in 1..Len(followups)}

TypeOK ==
  /\ steers \in Seq(Items) /\ followups \in Seq(Items)
  /\ enqueued \in 0..MaxItems /\ kind \in [1..enqueued -> Kinds]
  /\ drains \in Seq({"driving", "finishing", "rejected", "over"})
  /\ active \in 0..Len(drains) /\ aborted \subseteq 1..Len(drains)
  /\ driven \in Seq(Items) /\ cleared \subseteq Items /\ stops \in 0..MaxStops

Init ==
  /\ steers = <<>> /\ followups = <<>> /\ enqueued = 0 /\ kind = <<>>
  /\ drains = <<>> /\ active = 0 /\ aborted = {}
  /\ driven = <<>> /\ cleared = {} /\ stops = 0

-----------------------------------------------------------------------------
\* Mutant: a claim pops the newest item instead of splicing the queue.
Claimed_Pop(ss, fs) ==
  LET q == IF ss # <<>> THEN ss ELSE fs
      rest == IF q = <<>> THEN q ELSE SubSeq(q, 1, Len(q) - 1)
  IN  [batch |-> IF q = <<>> THEN q ELSE <<q[Len(q)]>>,
       steers |-> IF ss # <<>> THEN rest ELSE ss, followups |-> IF ss # <<>> THEN fs ELSE rest]

\* claim(): all the steers if there is one, else all the followups.
Claimed(ss, fs) == IF ss # <<>> THEN [batch |-> ss, steers |-> <<>>, followups |-> fs]
                   ELSE [batch |-> fs, steers |-> <<>>, followups |-> <<>>]

\* One round of #drain's loop for drain d over the queues ss, fs: nothing is
\* claimed once the controller is aborted; an empty batch ends the loop.
Loop(ds, d, ss, fs) ==
  LET c == Claimed(ss, fs)
  IN  IF d \in aborted \/ c.batch = <<>>
      THEN /\ drains' = [ds EXCEPT ![d] = "finishing"]
           /\ steers' = ss /\ followups' = fs
           /\ UNCHANGED driven
      ELSE /\ drains' = [ds EXCEPT ![d] = "driving"]
           /\ steers' = c.steers /\ followups' = c.followups
           /\ driven' = driven \o c.batch

\* #active is undefined.
Idle == active = 0

\* followup() and steer(): push the item; wake the agent if it is idle, which
\* runs the new drain up to its first await.
Enqueue(k) ==
  /\ enqueued < MaxItems
  /\ enqueued' = enqueued + 1 /\ kind' = Append(kind, k)
  /\ LET ss == IF k = "steer" THEN Append(steers, enqueued + 1) ELSE steers
         fs == IF k = "steer" THEN followups ELSE Append(followups, enqueued + 1)
     IN  IF Idle
         THEN /\ active' = Len(drains) + 1
              /\ Loop(Append(drains, "driving"), Len(drains) + 1, ss, fs)
         ELSE /\ steers' = ss /\ followups' = fs
              /\ UNCHANGED <<drains, active, driven>>
  /\ UNCHANGED <<aborted, cleared, stops>>

\* Mutant: one batch per activation.
DriveEnds_Once(d) ==
  /\ drains[d] = "driving"
  /\ drains' = [drains EXCEPT ![d] = "finishing"]
  /\ UNCHANGED <<inbox, active, aborted, driven, cleared, stops>>

\* drive() resolves: the next round of the loop.
DriveEnds(d) ==
  /\ drains[d] = "driving"
  /\ Loop(drains, d, steers, followups)
  /\ UNCHANGED <<enqueued, kind, active, aborted, cleared, stops>>

\* drive() rejects, and #drain with it.
DriveRejects(d) ==
  /\ drains[d] = "driving"
  /\ drains' = [drains EXCEPT ![d] = "rejected"]
  /\ UNCHANGED <<inbox, active, aborted, driven, cleared, stops>>

\* The finally callback.
Finally(d) ==
  /\ drains[d] \in {"finishing", "rejected"}
  /\ drains' = [drains EXCEPT ![d] = "over"]
  /\ active' = IF active = d THEN 0 ELSE active
  /\ UNCHANGED <<inbox, aborted, driven, cleared, stops>>

\* Mutant: the stop makes the agent idle at once.
Interrupt_Idle ==
  /\ stops < MaxStops /\ stops' = stops + 1
  /\ cleared' = cleared \cup Pending
  /\ steers' = <<>> /\ followups' = <<>> /\ active' = 0
  /\ aborted' = IF active = 0 THEN aborted ELSE aborted \cup {active}
  /\ UNCHANGED <<enqueued, kind, drains, driven>>

\* interrupt(): empty the inbox, abort the controller if there is one.
Interrupt ==
  /\ stops < MaxStops /\ stops' = stops + 1
  /\ cleared' = cleared \cup Pending
  /\ steers' = <<>> /\ followups' = <<>>
  /\ aborted' = IF active = 0 THEN aborted ELSE aborted \cup {active}
  /\ UNCHANGED <<enqueued, kind, drains, active, driven>>

-----------------------------------------------------------------------------
Drain(d) == DriveEnds(d) \/ DriveRejects(d) \/ Finally(d)

Next == \/ \E k \in Kinds : Enqueue(k)
        \/ \E d \in 1..Len(drains) : Drain(d)
        \/ Interrupt

Spec == Init /\ [][Next]_vars

\* A turn ends some time (Turn!StopEnds and Turn!TurnEnds), and the event loop
\* runs the continuations.
Fairness == WF_vars(\E d \in 1..Len(drains) : Drain(d))
FairSpec == Spec /\ Fairness

-----------------------------------------------------------------------------
(* Properties                                                              *)

\* One turn at a time: however messages, stops and failures interleave with the
\* end of a drain, no two drains are in drive() together (ADR-0056, docs/04 6).
OneTurnAtATime ==
  \A d, e \in 1..Len(drains) : drains[d] = "driving" /\ drains[e] = "driving" => d = e

\* The inbox is at-most-once (ADR-0064, two): no item is driven twice, or driven
\* after a stop discarded it, or driven while it is still queued.
AtMostOnce ==
  /\ \A j, k \in 1..Len(driven) : driven[j] = driven[k] => j = k
  /\ \A k \in 1..Len(driven) : driven[k] \notin cleared \cup Pending

\* Items of a kind are driven in the order they were sent, whatever was stopped
\* between.
SentOrder ==
  \A j, k \in 1..Len(driven) :
    j < k /\ kind[driven[j]] = kind[driven[k]] => driven[j] < driven[k]

\* The inbox delivers at most once and in order, whatever is stopped or rejected.
InboxIsExact == TypeOK /\ AtMostOnce /\ SentOrder

\* An item that waits behind a running, not stopped drain is driven, however
\* many steers arrive after it, unless a stop is pressed later or a turn rejects.
QueuedIsDriven ==
  \A i \in Items, n \in 0..MaxStops :
    /\ i \in Pending /\ stops = n
    /\ \E d \in 1..Len(drains) \ aborted : drains[d] = "driving"
    ~> \/ \E k \in 1..Len(driven) : driven[k] = i
       \/ stops > n
       \/ \E d \in 1..Len(drains) : drains[d] = "rejected"

(* What the documentation says of the code, and the code does not do       *)

\* "followup: enters the model's view at the next claim, wakes an idle agent;
\* steer: at the next claim of the current turn" (ADR-0056): an item sent while
\* a turn runs is eventually claimed, unless a stop that comes later discards it.
QueuedIsSettled ==
  \A i \in Items :
    i \in Pending /\ (\E d \in 1..Len(drains) : drains[d] = "driving") ~> i \notin Pending
=============================================================================
