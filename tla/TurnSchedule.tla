---------------------------- MODULE TurnSchedule ----------------------------
(***************************************************************************)
(* How the tool calls of one model reply are laid out in batches           *)
(* (packages/runtime/src/turn-schedule.ts): the batches run one after the  *)
(* other, the calls of a batch together.                                   *)
(***************************************************************************)
EXTENDS Naturals, Sequences

CONSTANT MaxParallelCalls   \* MAX_PARALLEL_CALLS (8)

ASSUME ScheduleAssumption == MaxParallelCalls \in Nat \ {0}

\* What the schedule looks at: is there such a tool, what concurrency did its
\* author declare, do the arguments parse, what does resources() claim.
ResourceClaims == {"net", "pathRead", "pathWrite", "global", "pty"}
Throws == {"throws"}
Call == [known : BOOLEAN, concurrency : {"parallel", "exclusive"}, args : BOOLEAN,
         resources : SUBSET ResourceClaims \cup {Throws}]

Harmless(claims) == claims \subseteq {"net", "pathRead"}

\* Whatever cannot be told makes the call exclusive.
ParallelSafe(call) == /\ call.known /\ call.concurrency = "parallel" /\ call.args
                      /\ call.resources # Throws /\ Harmless(call.resources)

\* flush()
Flushed(plan) == IF plan.current = <<>> THEN plan
                 ELSE [batches |-> Append(plan.batches, plan.current), current |-> <<>>]

Alone(plan, k) == [Flushed(plan) EXCEPT !.batches = Append(@, <<k>>)]

Collected(plan, k) ==
  LET grown == [plan EXCEPT !.current = Append(@, k)]
  IN  IF Len(grown.current) >= MaxParallelCalls THEN Flushed(grown) ELSE grown

\* planCallBatches, for calls of which safe tells the parallel-safe ones: the
\* batches hold the positions of the calls.  plan[k] is what the loop has made of
\* the first k of them.
PlanBatches(safe) ==
  LET plan[k \in 0..Len(safe)] ==
        IF k = 0 THEN [batches |-> <<>>, current |-> <<>>]
        ELSE IF safe[k] THEN Collected(plan[k - 1], k)
        ELSE Alone(plan[k - 1], k)
  IN  Flushed(plan[Len(safe)]).batches

\* A batch is neither empty nor too long, and holds the positions behind one
\* another; a call that is not safe has one to itself.
IsBatch(batch, safe) ==
  /\ Len(batch) \in 1..MaxParallelCalls
  /\ \A j \in 1..Len(batch) : batch[j] = batch[1] + j - 1
  /\ Len(batch) > 1 => \A j \in 1..Len(batch) : safe[batch[j]]

\* A batch ends only where it must: when it is full, and before and after a call
\* that is not safe.
Follows(batch, next, safe) ==
  LET last == batch[Len(batch)]
  IN  /\ next[1] = last + 1
      /\ Len(batch) = MaxParallelCalls \/ ~safe[last] \/ ~safe[next[1]]

\* Joined, the batches are the positions from the first to the n-th.
Spans(batches, n) ==
  IF batches = <<>> THEN n = 0
  ELSE batches[1][1] = 1 /\ LET last == batches[Len(batches)] IN last[Len(last)] = n

IsLayout(batches, safe) ==
  /\ Spans(batches, Len(safe))
  /\ \A b \in 1..Len(batches) : IsBatch(batches[b], safe)
  /\ \A b \in 1..Len(batches) - 1 : Follows(batches[b], batches[b + 1], safe)
=============================================================================
