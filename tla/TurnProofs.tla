----------------------------- MODULE TurnProofs -----------------------------
(***************************************************************************)
(* Proofs about Turn, for any bounds, when the user settles an orphaned    *)
(* turn before the next one: whatever is stopped, fails, crashes and is    *)
(* settled, and however often, the history a session keeps is whole, a     *)
(* reply's results follow it, what is dispatched is answered, and the      *)
(* history implements the call protocol.                                   *)
(***************************************************************************)
EXTENDS MCTurn, SequenceTheorems, WellFoundedInduction, TLAPS

-----------------------------------------------------------------------------
(* Recursion and search over the numbers *)

\* A set of numbers has a least one.
LEMMA Least ==
  ASSUME NEW T, T \subseteq Nat, T # {}
  PROVE  \E x \in T : \A y \in T : x <= y
<1>1. PICK x \in T : \A y \in T : ~ (<<y, x>> \in OpToRel(<, Nat))
  BY NatLessThanWellFounded, WFMin
<1>2. \A y \in T : ~(y < x)
  BY <1>1 DEF OpToRel
<1> QED
  BY <1>2, SMT

\* Induction, over the set of the numbers for which it holds.
LEMMA Induction ==
  ASSUME NEW S, S \subseteq Nat, 0 \in S, \A n \in S : n + 1 \in S
  PROVE  S = Nat
<1> DEFINE T == Nat \ S
<1>1. SUFFICES ASSUME T # {} PROVE FALSE
  OBVIOUS
<1>2. PICK x \in T : \A y \in T : x <= y
  BY <1>1, Least
<1>3. x - 1 \in S
  BY <1>2
<1> QED
  BY <1>2, <1>3

\* Below a number that has it, there is a least one that has it.
LEMMA Downto ==
  ASSUME NEW n \in Nat, NEW P, n \in P
  PROVE  \E k \in 0..n : k \in P /\ (k > 0 => k - 1 \notin P)
<1> DEFINE T == {k \in 0..n : k \in P}
<1>1. T \subseteq Nat /\ n \in T
  OBVIOUS
<1> HIDE DEF T
<1>2. PICK x \in T : \A y \in T : x <= y
  BY <1>1, Least
<1>3. x \in 0..n /\ x \in P /\ (x > 0 /\ x - 1 \in P => x - 1 \in T)
  BY DEF T
<1> QED
  BY <1>2, <1>3

-----------------------------------------------------------------------------
(* How the calls of a reply are laid out                                   *)

\* The batches made of the first n positions: no position is in two of them, or
\* in none.
Laid(batches, safe, n) ==
  /\ batches \in Seq(Seq(Nat)) /\ Spans(batches, n)
  /\ \A b \in 1..Len(batches) : IsBatch(batches[b], safe)
  /\ \A b \in 1..Len(batches) - 1 : Follows(batches[b], batches[b + 1], safe)
  /\ \A b \in 1..Len(batches) : \A j \in 1..Len(batches[b]) : batches[b][j] \in 1..n
  /\ \A k \in 1..n : \E b \in 1..Len(batches) : \E j \in 1..Len(batches[b]) : batches[b][j] = k
  /\ \A a, b \in 1..Len(batches) : a # b =>
       \A i \in 1..Len(batches[a]), j \in 1..Len(batches[b]) : batches[a][i] # batches[b][j]

\* The last batch may be followed by any other.
Closed(batches, safe) ==
  batches # <<>> => LET last == batches[Len(batches)]
                    IN  Len(last) = MaxParallelCalls \/ ~safe[last[Len(last)]]

\* The next positions.
Behind(batch, n) == \A j \in 1..Len(batch) : batch[j] = n + j

\* One batch more, of the next positions.
LEMMA AppendBatch ==
  ASSUME NEW batches, NEW safe, NEW n \in Nat, Laid(batches, safe, n),
         NEW batch \in Seq(Nat), Behind(batch, n), IsBatch(batch, safe),
         Closed(batches, safe) \/ ~safe[batch[1]]
  PROVE  /\ Laid(Append(batches, batch), safe, n + Len(batch))
         /\ Append(batches, batch)[Len(Append(batches, batch))] = batch
<1> DEFINE N == Len(batches)
           new == Append(batches, batch)
<1>0. /\ batches \in Seq(Seq(Nat)) /\ Spans(batches, n)
      /\ \A b \in 1..N : IsBatch(batches[b], safe)
      /\ \A b \in 1..N - 1 : Follows(batches[b], batches[b + 1], safe)
      /\ \A b \in 1..N : \A j \in 1..Len(batches[b]) : batches[b][j] \in 1..n
      /\ \A k \in 1..n : \E b \in 1..N : \E j \in 1..Len(batches[b]) : batches[b][j] = k
      /\ \A a, b \in 1..N : a # b =>
           \A i \in 1..Len(batches[a]), j \in 1..Len(batches[b]) : batches[a][i] # batches[b][j]
  BY DEF Laid
<1>1. /\ N \in Nat /\ (batches = <<>> => N = 0)
      /\ Len(batch) \in Nat \ {0} /\ \A j \in 1..Len(batch) : batch[j] = n + j
  BY <1>0, EmptySeq, ScheduleAssumption DEF IsBatch, Behind
<1>2. /\ Len(new) = N + 1 /\ new # <<>> /\ new \in Seq(Seq(Nat))
      /\ new[N + 1] = batch /\ \A b \in 1..N : new[b] = batches[b]
  BY <1>0, AppendProperties
<1> HIDE DEF new
<1>3. \A b \in 1..N + 1 : b \in 1..N \/ (b = N + 1 /\ new[b] = batch)
  BY <1>1, <1>2
<1>4. Spans(new, n + Len(batch))
  <2>1. new[1][1] = 1
    <3>1. CASE batches = <<>>
      <4>1. N = 0 /\ n = 0 /\ new[1] = batch
        BY <1>0, <1>1, <1>2, <3>1 DEF Spans
      <4> QED
        BY <1>1, <4>1
    <3>2. CASE batches # <<>>
      <4>1. 1 \in 1..N /\ batches[1][1] = 1
        BY <1>0, <1>1, <3>2, EmptySeq DEF Spans
      <4> QED
        BY <1>2, <4>1
    <3> QED
      BY <3>1, <3>2
  <2> QED
    BY <1>1, <1>2, <2>1 DEF Spans
<1>5. ASSUME NEW b \in 1..N + 1 PROVE IsBatch(new[b], safe)
  BY <1>0, <1>2, <1>3
<1>6. ASSUME NEW b \in 1..N PROVE Follows(new[b], new[b + 1], safe)
  <2>1. CASE b < N
    <3>1. Follows(batches[b], batches[b + 1], safe) /\ b + 1 \in 1..N
      BY <1>0, <1>1, <2>1
    <3> QED
      BY <1>2, <3>1
  <2>2. CASE b = N
    <3>1. /\ new[N] = batches[N] /\ batches # <<>>
          /\ batches[N][Len(batches[N])] = n /\ batch[1] = n + 1
      BY <1>0, <1>1, <1>2, <2>2 DEF Spans
    <3> QED
      BY <1>2, <2>2, <3>1 DEF Follows, Closed
  <2> QED
    BY <1>1, <2>1, <2>2
<1>7. ASSUME NEW b \in 1..N + 1, NEW j \in 1..Len(new[b])
      PROVE  /\ new[b][j] \in 1..n + Len(batch)
             /\ b \in 1..N => (new[b] = batches[b] /\ new[b][j] \in 1..n)
             /\ b = N + 1 => new[b][j] > n
  <2>1. CASE b \in 1..N
    <3>1. new[b] = batches[b] /\ batches[b][j] \in 1..n
      BY <1>0, <1>2, <2>1
    <3> QED
      BY <1>1, <2>1, <3>1
  <2>2. CASE b = N + 1 /\ new[b] = batch
    <3>1. new[b][j] = n + j /\ j \in 1..Len(batch)
      BY <1>1, <2>2
    <3> QED
      BY <1>1, <2>2, <3>1
  <2> QED
    BY <1>3, <2>1, <2>2
<1>8. ASSUME NEW k \in 1..n + Len(batch)
      PROVE  \E b \in 1..N + 1 : \E j \in 1..Len(new[b]) : new[b][j] = k
  <2>1. CASE k <= n
    <3>1. k \in 1..n
      BY <1>1, <2>1
    <3>2. PICK b \in 1..N : \E j \in 1..Len(batches[b]) : batches[b][j] = k
      BY <1>0, <3>1
    <3>3. b \in 1..N + 1 /\ new[b] = batches[b]
      BY <1>1, <1>2
    <3> QED
      BY <3>2, <3>3
  <2>2. CASE k > n
    <3>1. k - n \in 1..Len(batch) /\ n + (k - n) = k
      BY <1>1, <2>2
    <3>2. N + 1 \in 1..N + 1 /\ new[N + 1] = batch
      BY <1>1, <1>2
    <3>3. batch[k - n] = n + (k - n)
      BY <1>1, <3>1
    <3> QED
      BY <3>1, <3>2, <3>3
  <2> QED
    BY <1>1, <2>1, <2>2
<1>9. ASSUME NEW a \in 1..N + 1, NEW b \in 1..N + 1, a # b,
             NEW i \in 1..Len(new[a]), NEW j \in 1..Len(new[b])
      PROVE  new[a][i] # new[b][j]
  <2>1. CASE a \in 1..N /\ b \in 1..N
    <3>1. new[a] = batches[a] /\ new[b] = batches[b]
      BY <1>2, <2>1
    <3>2. \A x \in 1..Len(batches[a]), y \in 1..Len(batches[b]) : batches[a][x] # batches[b][y]
      BY <1>0, <1>9, <2>1
    <3> QED
      BY <3>1, <3>2
  <2>2. CASE ~(a \in 1..N /\ b \in 1..N)
    <3>1. \/ a \in 1..N /\ b = N + 1
          \/ b \in 1..N /\ a = N + 1
      BY <1>3, <1>9, <2>2
    <3>2. /\ a \in 1..N => new[a][i] \in 1..n
          /\ b \in 1..N => new[b][j] \in 1..n
          /\ a = N + 1 => new[a][i] > n
          /\ b = N + 1 => new[b][j] > n
      BY <1>7
    <3> QED
      BY <3>1, <3>2
  <2> QED
    BY <2>1, <2>2
<1>10. /\ \A b \in 1..Len(new) : IsBatch(new[b], safe)
       /\ \A b \in 1..Len(new) - 1 : Follows(new[b], new[b + 1], safe)
       /\ \A b \in 1..Len(new) : \A j \in 1..Len(new[b]) : new[b][j] \in 1..n + Len(batch)
       /\ \A k \in 1..n + Len(batch) : \E b \in 1..Len(new) : \E j \in 1..Len(new[b]) : new[b][j] = k
       /\ \A a, b \in 1..Len(new) : a # b =>
            \A i \in 1..Len(new[a]), j \in 1..Len(new[b]) : new[a][i] # new[b][j]
  BY <1>1, <1>2, <1>5, <1>6, <1>7, <1>8, <1>9
<1> QED
  BY <1>2, <1>4, <1>10 DEF Laid, new

\* What the loop has made of the first k calls: what it still collects are the safe
\* calls behind the last batch.
Planning(plan, safe, k) ==
  /\ plan \in [batches : Seq(Seq(Nat)), current : Seq(Nat)]
  /\ Closed(plan.batches, safe)
  /\ Len(plan.current) < MaxParallelCalls
  /\ \E n \in Nat : /\ Laid(plan.batches, safe, n) /\ n + Len(plan.current) = k
                    /\ Behind(plan.current, n)
  /\ \A j \in 1..Len(plan.current) : safe[plan.current[j]]

\* Safe calls behind one another, of which there are not too many, are a batch.
LEMMA SafeBatch ==
  ASSUME NEW batch \in Seq(Nat), batch # <<>>, NEW n \in Nat, Behind(batch, n), NEW safe,
         Len(batch) <= MaxParallelCalls, \A j \in 1..Len(batch) : safe[batch[j]]
  PROVE  IsBatch(batch, safe)
<1>1. Len(batch) \in Nat \ {0}
  BY EmptySeq
<1> QED
  BY <1>1, ScheduleAssumption DEF IsBatch, Behind

\* flush() leaves nothing behind.
LEMMA FlushedIsLaid ==
  ASSUME NEW plan, NEW safe, NEW k \in Nat, Planning(plan, safe, k)
  PROVE  /\ Laid(Flushed(plan).batches, safe, k)
         /\ Flushed(plan) \in [batches : Seq(Seq(Nat)), current : Seq(Nat)]
         /\ Flushed(plan).current = <<>>
<1>1. PICK n \in Nat : /\ Laid(plan.batches, safe, n) /\ n + Len(plan.current) = k
                       /\ Behind(plan.current, n)
  BY DEF Planning
<1>2. CASE plan.current = <<>>
  BY <1>1, <1>2 DEF Flushed, Planning
<1>3. CASE plan.current # <<>>
  <2>1. plan.current \in Seq(Nat) /\ IsBatch(plan.current, safe)
    BY <1>1, <1>3, SafeBatch, ScheduleAssumption, LenProperties DEF Planning
  <2>2. Laid(Append(plan.batches, plan.current), safe, n + Len(plan.current))
    BY <1>1, <2>1, AppendBatch DEF Planning
  <2>3. /\ Flushed(plan).batches = Append(plan.batches, plan.current)
        /\ Flushed(plan).current = <<>>
        /\ Flushed(plan) = [batches |-> Append(plan.batches, plan.current), current |-> <<>>]
    BY <1>3 DEF Flushed
  <2>4. Append(plan.batches, plan.current) \in Seq(Seq(Nat)) /\ <<>> \in Seq(Nat)
    BY <2>2 DEF Laid
  <2> QED
    BY <1>1, <2>2, <2>3, <2>4
<1> QED
  BY <1>2, <1>3

\* One call more.
LEMMA OneMore ==
  ASSUME NEW plan, NEW safe, NEW k \in Nat, Planning(plan, safe, k), k + 1 \in DOMAIN safe
  PROVE  Planning(IF safe[k + 1] THEN Collected(plan, k + 1) ELSE Alone(plan, k + 1), safe, k + 1)
<1>0. PICK n \in Nat : /\ Laid(plan.batches, safe, n) /\ n + Len(plan.current) = k
                       /\ Behind(plan.current, n)
  BY DEF Planning
<1>1. /\ plan \in [batches : Seq(Seq(Nat)), current : Seq(Nat)] /\ Closed(plan.batches, safe)
      /\ Len(plan.current) < MaxParallelCalls /\ Len(plan.current) \in Nat
      /\ \A j \in 1..Len(plan.current) : safe[plan.current[j]]
  BY LenProperties DEF Planning
<1>2. CASE safe[k + 1]
  <2> DEFINE more == Append(plan.current, k + 1)
             grown == [plan EXCEPT !.current = more]
  <2>1. /\ more \in Seq(Nat) /\ Len(more) = Len(plan.current) + 1 /\ more # <<>>
        /\ \A j \in 1..Len(plan.current) : more[j] = plan.current[j]
        /\ more[Len(plan.current) + 1] = k + 1
    <3>1. plan.current \in Seq(Nat) /\ k + 1 \in Nat
      BY <1>1
    <3> QED
      BY <3>1, AppendProperties
  <2>2. /\ grown \in [batches : Seq(Seq(Nat)), current : Seq(Nat)]
        /\ grown.batches = plan.batches /\ grown.current = more
    BY <1>1, <2>1
  <2> HIDE DEF more
  <2>3. n + Len(more) = k + 1 /\ \A j \in 1..Len(more) : j \in 1..Len(plan.current) \/ j = Len(plan.current) + 1
    BY <1>0, <1>1, <2>1
  <2>4. ASSUME NEW j \in 1..Len(more) PROVE more[j] = n + j /\ safe[more[j]]
    BY <1>0, <1>1, <1>2, <2>1, <2>3 DEF Behind
  <2>5. Behind(more, n)
    BY <2>4 DEF Behind
  <2>6. Collected(plan, k + 1) = IF Len(more) >= MaxParallelCalls THEN Flushed(grown) ELSE grown
    BY DEF Collected, more
  <2> HIDE DEF grown
  <2>7. CASE Len(more) >= MaxParallelCalls
    <3>1. Len(more) = MaxParallelCalls
      BY <1>1, <2>1, <2>7, ScheduleAssumption
    <3>2. IsBatch(more, safe)
      BY <2>1, <2>4, <2>5, <3>1, SafeBatch
    <3>3. /\ Laid(Append(plan.batches, more), safe, k + 1)
          /\ Append(plan.batches, more)[Len(Append(plan.batches, more))] = more
      BY <1>0, <1>1, <2>1, <2>3, <2>5, <3>2, AppendBatch
    <3>4. Flushed(grown) = [batches |-> Append(plan.batches, more), current |-> <<>>]
      BY <2>1, <2>2 DEF Flushed
    <3>5. Closed(Append(plan.batches, more), safe)
      BY <3>1, <3>3 DEF Closed
    <3>6. Append(plan.batches, more) \in Seq(Seq(Nat)) /\ <<>> \in Seq(Nat) /\ Len(<<>>) = 0 /\ Behind(<<>>, k + 1)
      BY <3>3 DEF Laid, Behind
    <3>7. Planning(Flushed(grown), safe, k + 1)
      BY <3>3, <3>4, <3>5, <3>6, ScheduleAssumption DEF Planning
    <3> QED
      BY <1>2, <2>6, <2>7, <3>7
  <2>8. CASE ~(Len(more) >= MaxParallelCalls)
    <3>1. Len(more) < MaxParallelCalls
      BY <1>1, <2>1, <2>8, ScheduleAssumption
    <3>2. Planning(grown, safe, k + 1)
      BY <1>0, <1>1, <2>2, <2>3, <2>4, <2>5, <3>1 DEF Planning
    <3> QED
      BY <1>2, <2>6, <2>8, <3>2
  <2> QED
    BY <2>7, <2>8
<1>3. CASE ~safe[k + 1]
  <2> DEFINE base == Flushed(plan)
             one == <<k + 1>>
  <2>1. /\ Laid(base.batches, safe, k) /\ base.current = <<>>
        /\ base \in [batches : Seq(Seq(Nat)), current : Seq(Nat)]
    BY FlushedIsLaid
  <2> HIDE DEF base
  <2>2. one \in Seq(Nat) /\ Len(one) = 1 /\ one[1] = k + 1
    OBVIOUS
  <2> HIDE DEF one
  <2>3. Behind(one, k) /\ IsBatch(one, safe)
    BY <2>2, ScheduleAssumption DEF Behind, IsBatch
  <2>4. /\ Laid(Append(base.batches, one), safe, k + 1)
        /\ Append(base.batches, one)[Len(Append(base.batches, one))] = one
    BY <1>3, <2>1, <2>2, <2>3, AppendBatch
  <2>5. Alone(plan, k + 1) = [base EXCEPT !.batches = Append(base.batches, one)]
    BY DEF Alone, base, one
  <2>6. Closed(Append(base.batches, one), safe)
    BY <1>3, <2>2, <2>4 DEF Closed
  <2>7. Append(base.batches, one) \in Seq(Seq(Nat)) /\ <<>> \in Seq(Nat) /\ Len(<<>>) = 0 /\ Behind(<<>>, k + 1)
    BY <2>4 DEF Laid, Behind
  <2>8. Alone(plan, k + 1) = [batches |-> Append(base.batches, one), current |-> <<>>]
    BY <2>1, <2>5
  <2> DEFINE all == Append(base.batches, one)
             new == [batches |-> all, current |-> <<>>]
  <2> HIDE DEF all
  <2>9. Laid(all, safe, k + 1) /\ Closed(all, safe) /\ all \in Seq(Seq(Nat))
    BY <2>4, <2>6, <2>7 DEF all
  <2>10. Planning(new, safe, k + 1)
    BY <2>7, <2>9, ScheduleAssumption DEF Planning
  <2> QED
    BY <1>3, <2>8, <2>10 DEF all
<1> QED
  BY <1>2, <1>3

\* The loop of planCallBatches is defined for every list.
LEMMA PlanExists ==
  ASSUME NEW safe, NEW n \in Nat
  PROVE  \E plan : plan = [k \in 0..n |->
           IF k = 0 THEN [batches |-> <<>>, current |-> <<>>]
           ELSE IF safe[k] THEN Collected(plan[k - 1], k) ELSE Alone(plan[k - 1], k)]
<1> DEFINE Of(f, k) == IF k = 0 THEN [batches |-> <<>>, current |-> <<>>]
                       ELSE IF safe[k] THEN Collected(f[k - 1], k) ELSE Alone(f[k - 1], k)
           Is(f, m) == f = [k \in 0..m |-> Of(f, k)]
           S == {m \in Nat : \E f : Is(f, m)}
<1>1. 0 \in S
  <2> DEFINE f == [k \in 0..0 |-> [batches |-> <<>>, current |-> <<>>]]
  <2>1. Is(f, 0)
    OBVIOUS
  <2> QED
    BY <2>1
<1>2. ASSUME NEW m \in S PROVE m + 1 \in S
  <2>1. PICK f : Is(f, m)
    OBVIOUS
  <2> DEFINE g == [k \in 0..m + 1 |-> IF k = m + 1 THEN Of(f, m + 1) ELSE f[k]]
  <2>2. \A k \in 0..m + 1 : g[k] = Of(g, k)
    BY <2>1
  <2>3. Is(g, m + 1)
    BY <2>2
  <2> HIDE DEF g, Is
  <2> QED
    BY <2>3
<1> HIDE DEF S
<1>3. S = Nat
  BY <1>1, <1>2, Induction DEF S
<1> QED
  BY <1>3 DEF S

\* Whatever calls a reply has, every one is laid out once, in the order the model
\* gave them; a batch is full, or ends where a call must be alone; and no call that
\* is not parallel-safe shares its batch (planCallBatches).
THEOREM PlanIsLaid ==
  ASSUME NEW safe \in Seq(BOOLEAN)
  PROVE  /\ Laid(PlanBatches(safe), safe, Len(safe))
         /\ IsLayout(PlanBatches(safe), safe)
<1> DEFINE N == Len(safe)
           Of(f, k) == IF k = 0 THEN [batches |-> <<>>, current |-> <<>>]
                       ELSE IF safe[k] THEN Collected(f[k - 1], k) ELSE Alone(f[k - 1], k)
<1>1. PICK plan : /\ plan = [k \in 0..N |-> Of(plan, k)]
                  /\ PlanBatches(safe) = Flushed(plan[N]).batches
  <2>1. \E plan : plan = [k \in 0..N |-> Of(plan, k)]
    BY PlanExists
  <2> DEFINE chosen == CHOOSE plan : plan = [k \in 0..N |-> Of(plan, k)]
  <2>2. chosen = [k \in 0..N |-> Of(chosen, k)]
    BY <2>1
  <2>3. PlanBatches(safe) = Flushed(chosen[N]).batches
    BY DEF PlanBatches
  <2> QED
    BY <2>2, <2>3
<1> DEFINE S == {k \in Nat : k <= N => Planning(plan[k], safe, k)}
<1>2. 0 \in S
  <2> DEFINE none == [batches |-> <<>>, current |-> <<>>]
  <2>1. plan[0] = none
    BY <1>1
  <2>2. Laid(<<>>, safe, 0) /\ Behind(<<>>, 0) /\ Closed(<<>>, safe)
    BY DEF Laid, Spans, Behind, Closed
  <2>3. Planning(none, safe, 0)
    BY <2>2, ScheduleAssumption DEF Planning
  <2> QED
    BY <2>1, <2>3
<1>3. ASSUME NEW k \in S PROVE k + 1 \in S
  <2>1. SUFFICES ASSUME k + 1 <= N PROVE Planning(plan[k + 1], safe, k + 1)
    OBVIOUS
  <2>2. k \in Nat /\ k \in 0..N /\ k + 1 \in DOMAIN safe /\ k + 1 \in 0..N /\ k + 1 # 0 /\ k + 1 - 1 = k
    BY <2>1
  <2>3. plan[k + 1] = IF safe[k + 1] THEN Collected(plan[k], k + 1) ELSE Alone(plan[k], k + 1)
    BY <1>1, <2>2
  <2>4. Planning(plan[k], safe, k)
    BY <2>2
  <2> QED
    BY <2>2, <2>3, <2>4, OneMore
<1> HIDE DEF S
<1>4. S = Nat
  BY <1>2, <1>3, Induction DEF S
<1>5. Planning(plan[N], safe, N)
  BY <1>4 DEF S
<1>6. Laid(PlanBatches(safe), safe, N)
  BY <1>1, <1>5, FlushedIsLaid
<1> QED
  BY <1>6 DEF Laid, IsLayout

-----------------------------------------------------------------------------
(* The inductive invariant                                                 *)

\* The parts of the state that this is about.
Fields == /\ {"turn", "msg", "running", "messages"} \subseteq DOMAIN s
          /\ {"pc", "synth", "resume"} \subseteq DOMAIN d
          /\ "message" \in DOMAIN d.synth
          /\ "turns" \in DOMAIN used /\ used.turns \in Nat

\* What each place of the driver knows of the open turn and the open message: a
\* message is open in the stream, and since a crash until the recovery has
\* recorded its end.
Places == /\ s.turn = 0 => ~s.msg /\ d.pc \in {"idle", "dead"}
          /\ d.pc = "idle" => s.turn = 0
          /\ s.msg => d.pc \in {"stream", "dead", "orphaned", "synth"}
          /\ d.pc = "synth" /\ s.msg => d.synth.message

Closing == Fields /\ Places

\* Calls that are dispatched and not over, calls that wait for their batch, and
\* calls that have no answer yet.
Active == {c \in DOMAIN calls : calls[c] # "done"}
Waiting == UNION {ElementsOf(d.batches[b]) : b \in 1..Len(d.batches)}
Owing == Asked(s) \ Answered(s)
Repairing == d.synth.running \cup d.synth.dangling

\* What the bounds have been spent on bounds what there is.
Counted ==
  /\ used \in [turns : 0..MaxTurns, replies : 0..MaxReplies, injections : 0..MaxInjections,
               crashes : 0..MaxCrashes, stops : 0..MaxStops, rejections : 0..MaxRejections]
  /\ Len(s.messages) + (IF LastIsUser(s) \/ s.messages = <<>> THEN 0 ELSE 1)
       <= used.turns + 2 * used.replies + used.injections
  /\ \A m \in 1..Len(s.messages) :
       /\ Len(s.messages[m].uses) <= MaxCallsPer
       /\ s.messages[m].role = "user" => s.messages[m].uses = <<>>

\* Whoever may answer a call finds it without an answer.
Owed ==
  /\ DOMAIN calls \cup bodies \cup Answered(s) \subseteq Asked(s)
  /\ Active \cup s.running \cup Repairing \subseteq Owing
  /\ d.synth.running \cap d.synth.dangling = {}
  /\ ~At("synth") => d.synth = NoSynth
  /\ d.pc \in {"dead", "orphaned", "synth"} => DOMAIN calls = {} /\ bodies = {}
  /\ \A c \in Active : calls[c] \in {"judging", "starting"} => c \notin s.running

\* A batch is part of the reply that is being dispatched, and no call is in two.
Planned ==
  At("dispatch") =>
    /\ d.reply > 0 /\ Waiting \subseteq Owing \ (DOMAIN calls \cup s.running)
    /\ \A a, b \in 1..Len(d.batches) :
         a # b => ElementsOf(d.batches[a]) \cap ElementsOf(d.batches[b]) = {}
    /\ \A c \in d.batch \cup Waiting : c[1] = d.reply

\* Where a reply is recorded and its calls are not dispatched yet.
Replied == d.pc \in {"interrupted", "failed", "stepError", "stopping"}

\* Nothing has happened yet to the calls of a reply that is not dispatched.
Fresh == Replied => \A c \in DOMAIN calls \cup Answered(s) \cup s.running : c[1] # d.reply

\* No other reply came after it, and all behind it is one message.
Recent(m) == /\ m \in {Len(s.messages) - 1, Len(s.messages)}
             /\ m # Len(s.messages) => s.messages[Len(s.messages)].role = "user"

\* The calls of a batch are all parallel-safe, or there is one.
Together(batch) == \A b, c \in batch : b # c => s.messages[b[1]].uses[b[2]]

\* As long as every tool.end could be recorded, the driver waits for its calls:
\* elsewhere none is on its way, and what runs without being on its way is what a
\* dead process left for the recovery.
Still ==
  /\ s.turn = 0 \/ s.msg \/ d.pc \notin {"dead", "orphaned", "synth", "dispatch"} => s.running = {}
  /\ At("dispatch") => s.running \subseteq Active
  /\ ~At("dispatch") => Active = {}
  /\ At("synth") => s.running \subseteq d.synth.running

\* The calls on their way are of one batch.
InBatch ==
  At("dispatch") => /\ Active \subseteq d.batch /\ d.batch \subseteq DOMAIN calls /\ Together(d.batch)
                    /\ \A b \in 1..Len(d.batches) : Together(ElementsOf(d.batches[b]))

\* Whatever may still be answered is of the last reply.
Late ==
  /\ \A c \in Active \cup s.running \cup Repairing : Recent(c[1])
  /\ At("dispatch") => \A c \in Waiting : Recent(c[1])
  /\ Replied /\ d.reply > 0 => Recent(d.reply)

\* A call that is over is answered, and a body belongs to a call that is over or
\* waits for it.
Over ==
  /\ \A c \in DOMAIN calls \ Active : c \in Answered(s)
  /\ \A c \in bodies : c \in Answered(s) \/ (c \in Active /\ calls[c] = "running")

Calm == Still /\ InBatch /\ Late /\ Over /\ ResultsFollowReply

\* Before the first crash, too, a call without an answer is dispatched, or will be,
\* or never was.
Dispatched ==
  \A c \in Owing : \/ c[1] \in unsent
                   \/ At("stopping") /\ d.reason # "error" /\ c[1] = d.reply
                   \/ At("dispatch") /\ c \in Active \cup Waiting

IInv == /\ TypeOK /\ Counted /\ Closing /\ AnsweredOnce
        /\ Owed /\ Planned /\ Fresh
        /\ used.rejections = 0 => Calm
        /\ used.rejections = 0 /\ used.crashes = 0 => Dispatched

-----------------------------------------------------------------------------
(* The open turn and the open message                                      *)

\* What a result and an injected text leave alone.
LEMMA OnlyMessages ==
  ASSUME NEW st, {"turn", "msg", "running", "messages"} \subseteq DOMAIN st, NEW c, NEW ok,
         NEW new \in {ToolEnded(st, c, ok), Injected(st)}
  PROVE  /\ {"turn", "msg", "running", "messages"} \subseteq DOMAIN new
         /\ new.turn = st.turn /\ new.msg = st.msg
  BY DEF ToolEnded, Injected, SetLast

\* Steps that move the driver and leave what is recorded alone, or record what
\* neither opens nor closes anything.
Records == \E c, ok : s' \in {s, ToolStarted(s, c), ToolEnded(s, c, ok), Injected(s)}

\* Such records leave the open turn and the open message as they are.
LEMMA RecordsKeep ==
  ASSUME Closing, Records
  PROVE  /\ {"turn", "msg", "running", "messages"} \subseteq DOMAIN s'
         /\ s'.turn = s.turn /\ s'.msg = s.msg
<1>1. PICK c, ok : s' \in {s, ToolStarted(s, c), ToolEnded(s, c, ok), Injected(s)}
  BY DEF Records
<1>2. CASE s' \in {s, ToolStarted(s, c)}
  BY <1>2 DEF Closing, Fields, ToolStarted
<1>3. CASE s' \in {ToolEnded(s, c, ok), Injected(s)}
  BY <1>3, OnlyMessages DEF Closing, Fields
<1> QED
  BY <1>1, <1>2, <1>3

\* Between the start of a turn and its end.
Inside == {"top", "request", "interrupted", "failed", "stepError", "stopping", "dispatch",
           "afterTools", "ending"}

\* A driver that moves inside its turn has nothing to close yet.
LEMMA DriverMoves ==
  ASSUME Closing, Records, d.pc \in Inside, d'.pc \in Inside, {"pc", "synth", "resume"} \subseteq DOMAIN d',
         d'.synth = d.synth, used'.turns = used.turns, DOMAIN used' = DOMAIN used
  PROVE  Closing'
  BY RecordsKeep DEF Closing, Fields, Places, Inside

\* A step beside the driver closes and opens nothing.
LEMMA DriverStays ==
  ASSUME Closing, Records, d' = d, used'.turns = used.turns, DOMAIN used' = DOMAIN used
  PROVE  Closing'
  BY RecordsKeep DEF Closing, Fields, Places

\* The loop of the driver.
LEMMA LoopStep ==
  ASSUME Closing,
         \/ Top \/ RequestFails \/ RecordError \/ StepError \/ StoppingAfterStream
         \/ DispatchBatch \/ AfterTools
  PROVE  Closing'
<1>1. s' = s /\ used' = used /\ d.pc \in Inside
  BY DEF Top, RequestFails, RecordError, StepError, StoppingAfterStream, DispatchBatch, AfterTools, At,
         Inside
<1>2. Records
  BY <1>1 DEF Records
<1>3. d'.pc \in Inside /\ d'.synth = d.synth /\ {"pc", "synth", "resume"} \subseteq DOMAIN d'
  BY DEF Top, RequestFails, RecordError, StepError, StoppingAfterStream, DispatchBatch, AfterTools, At,
         Inside, Goto, Stop, Throw, Judge, Closing, Fields
<1> QED
  BY <1>1, <1>2, <1>3, DriverMoves

\* What opens and closes a message or a turn.
LEMMA RecordStep ==
  ASSUME Closing, AnswersPrompt,
         StartTurn \/ RequestReady \/ StreamEnds \/ RecordInterrupted \/ TurnEnds
  PROVE  Closing'
<1>1. CASE StartTurn
  BY <1>1 DEF StartTurn, TurnStarted, Spend, Idle, NoSynth, At, Closing, Fields, Places
<1>2. CASE RequestReady
  BY <1>2 DEF RequestReady, MessageStarted, Goto, At, Closing, Fields, Places
<1>3. CASE StreamEnds
  <2>1. /\ {"turn", "msg", "running", "messages"} \subseteq DOMAIN s'
        /\ s'.turn = s.turn /\ ~s'.msg /\ d.pc = "stream"
    BY <1>3 DEF StreamEnds, MessageEnded, At, Closing, Fields
  <2>2. /\ d'.pc \in Inside /\ d'.synth = d.synth /\ {"pc", "synth", "resume"} \subseteq DOMAIN d'
    BY <1>3 DEF StreamEnds, Closing, Fields, Inside
  <2>3. used'.turns = used.turns /\ "turns" \in DOMAIN used'
    BY <1>3 DEF StreamEnds, Spend, Closing, Fields
  <2> QED
    BY <2>1, <2>2, <2>3 DEF Closing, Fields, Places, Inside
<1>4. CASE RecordInterrupted
  BY <1>4 DEF RecordInterrupted, MessageInterrupted, Stop, At, Closing, Fields, Places
<1>5. CASE TurnEnds
  BY <1>5 DEF TurnEnds, TurnEnded, Idle, NoSynth, At, Closing, Fields, Places
<1> QED
  BY <1>1, <1>2, <1>3, <1>4, <1>5

\* The calls of a batch and what their bodies do.
LEMMA CallsStep ==
  ASSUME Closing, NEW c, CallStep(c) \/ BodyEnds(c) \/ EndRejects(c)
  PROVE  Closing'
<1>1. CASE CallStep(c) \/ BodyEnds(c)
  <2>1. Records /\ d' = d /\ used' = used
    BY <1>1 DEF CallStep, CallAllowed, ToolStarts, CallEnds, CallFails, BodyEnds, Records
  <2> QED
    BY <2>1, DriverStays
<1>2. CASE EndRejects(c)
  BY <1>2, DriverMoves DEF EndRejects, Throw, Spend, At, Inside, Records, Closing, Fields
<1> QED
  BY <1>1, <1>2

\* The stop button, steers and injections, a crash and what follows it.
LEMMA AroundStep ==
  ASSUME Closing, StopButton \/ Steer \/ Inject \/ Crash \/ Restart \/ \E resume \in BOOLEAN : Settle(resume)
  PROVE  Closing'
<1>1. CASE StopButton \/ Steer \/ Inject
  <2>1. Records /\ d' = d /\ used'.turns = used.turns /\ DOMAIN used' = DOMAIN used
    BY <1>1 DEF StopButton, Steer, Inject, Spend, Records, Closing, Fields
  <2> QED
    BY <2>1, DriverStays
<1>2. CASE Crash
  BY <1>2 DEF Crash, Spend, Idle, NoSynth, Closing, Fields, Places
<1>3. CASE Restart
  BY <1>3 DEF Restart, Goto, At, Closing, Fields, Places
<1>4. ASSUME NEW resume \in BOOLEAN, Settle(resume) PROVE Closing'
  BY <1>4 DEF Settle, Interruption, At, Closing, Fields, Places
<1> QED
  BY <1>1, <1>2, <1>3, <1>4

\* The recovery of a turn a dead process left open.
LEMMA RecoveryStep ==
  ASSUME Closing, SynthMessage \/ SynthDone \/ \E c : SynthCall(c)
  PROVE  Closing'
<1>1. CASE SynthMessage
  BY <1>1 DEF SynthMessage, MessageInterrupted, At, Closing, Fields, Places
<1>2. CASE SynthDone
  <2>1. d.pc = "synth" /\ ~d.synth.message /\ s' = s /\ used' = used
    BY <1>2 DEF SynthDone, NoSynth, At
  <2>2. d'.pc \in {"top", "ending"} /\ d'.synth = d.synth /\ {"pc", "synth", "resume"} \subseteq DOMAIN d'
    BY <1>2 DEF SynthDone, Goto, Stop, Closing, Fields
  <2> QED
    BY <2>1, <2>2 DEF Closing, Fields, Places
<1>3. ASSUME NEW c, SynthCall(c) PROVE Closing'
  <2>1. Records
    BY <1>3 DEF SynthCall, Records
  <2>2. /\ d'.pc = d.pc /\ d'.synth.message = d.synth.message /\ "message" \in DOMAIN d'.synth
        /\ {"pc", "synth", "resume"} \subseteq DOMAIN d' /\ used' = used
    BY <1>3 DEF SynthCall, Closing, Fields
  <2> QED
    BY <2>1, <2>2, RecordsKeep DEF Closing, Fields, Places
<1> QED
  BY <1>1, <1>2, <1>3

\* Every step leaves closed what it should.
LEMMA ClosingStep ==
  ASSUME Closing, AnswersPrompt, Next
  PROVE  Closing'
<1>1. CASE Driver
  BY <1>1, LoopStep, RecordStep, CallsStep, RecoveryStep DEF Driver
<1>2. CASE World
  BY <1>2, RecordStep, CallsStep DEF World
<1> QED
  BY <1>1, <1>2, RecordStep, CallsStep, AroundStep DEF Next

-----------------------------------------------------------------------------
(* What the projection does to the history                                 *)

\* Every event adds at most one block: s' has r behind the first at blocks of the
\* message m, and m may be new, with these uses.
BlocksOf(m) == IF m <= Len(s.messages) THEN s.messages[m].blocks ELSE <<>>
Inserted(m, at, r, uses) ==
  /\ s'.messages \in Seq(Message) /\ Len(s'.messages) = m
  /\ m \in {Len(s.messages), Len(s.messages) + 1} /\ m > 0 /\ at \in 0..Len(BlocksOf(m))
  /\ \A n \in 1..Len(s.messages) :
       /\ s'.messages[n].uses = s.messages[n].uses /\ s'.messages[n].role = s.messages[n].role
       /\ n # m => s'.messages[n].blocks = s.messages[n].blocks
  /\ m = Len(s.messages) + 1 => s'.messages[m].uses = uses
  /\ Len(s'.messages[m].blocks) = Len(BlocksOf(m)) + 1
  /\ \A k \in 1..at : s'.messages[m].blocks[k] = BlocksOf(m)[k]
  /\ s'.messages[m].blocks[at + 1] = r
  /\ \A k \in at + 2..Len(BlocksOf(m)) + 1 : s'.messages[m].blocks[k] = BlocksOf(m)[k - 1]

\* A message of one block behind the others.
LEMMA NewMessage ==
  ASSUME s.messages \in Seq(Message), NEW message \in Message, NEW r, message.blocks = <<r>>,
         s'.messages = Append(s.messages, message)
  PROVE  Inserted(Len(s.messages) + 1, 0, r, message.uses)
<1>1. /\ s'.messages \in Seq(Message) /\ Len(s'.messages) = Len(s.messages) + 1
      /\ \A n \in 1..Len(s.messages) : s'.messages[n] = s.messages[n]
      /\ s'.messages[Len(s.messages) + 1] = message
      /\ Len(s.messages) \in Nat
  BY AppendProperties
<1>2. BlocksOf(Len(s.messages) + 1) = <<>> /\ Len(<<>>) = 0
  BY <1>1 DEF BlocksOf
<1>3. Len(message.blocks) = 1 /\ message.blocks[1] = r
  OBVIOUS
<1> DEFINE M == Len(s.messages) + 1
<1>4. /\ s'.messages \in Seq(Message) /\ Len(s'.messages) = M /\ s'.messages[M] = message
      /\ \A n \in 1..Len(s.messages) : s'.messages[n] = s.messages[n]
      /\ M \in Nat /\ M = Len(s.messages) + 1 /\ Len(BlocksOf(M)) = 0
  BY <1>1, <1>2
<1> HIDE DEF M
<1>7. Inserted(M, 0, r, message.uses)
  <2>1. /\ s'.messages[M].blocks[0 + 1] = r /\ Len(s'.messages[M].blocks) = Len(BlocksOf(M)) + 1
        /\ s'.messages[M].uses = message.uses
    <3>1. s'.messages[M] = message
      BY <1>4
    <3>2. message.blocks[0 + 1] = r
      BY <1>3
    <3>3. Len(message.blocks) = Len(BlocksOf(M)) + 1
      BY <1>3, <1>4
    <3> QED
      BY <3>1, <3>2, <3>3
  <2>2. /\ \A k \in 1..0 : s'.messages[M].blocks[k] = BlocksOf(M)[k]
        /\ \A k \in 0 + 2..Len(BlocksOf(M)) + 1 : s'.messages[M].blocks[k] = BlocksOf(M)[k - 1]
    BY <1>4
  <2> QED
    BY <1>4, <2>1, <2>2 DEF Inserted
<1> QED
  BY <1>7 DEF M

\* Another block in the last message.
LEMMA SameMessage ==
  ASSUME s.messages \in Seq(Message), s.messages # <<>>, NEW blocks \in Seq(Blocks), NEW r,
         s'.messages = [s.messages EXCEPT ![Len(s.messages)].blocks = blocks],
         NEW at \in 0..Len(LastBlocks(s)), Len(blocks) = Len(LastBlocks(s)) + 1,
         \A k \in 1..at : blocks[k] = LastBlocks(s)[k],
         blocks[at + 1] = r,
         \A k \in at + 2..Len(LastBlocks(s)) + 1 : blocks[k] = LastBlocks(s)[k - 1]
  PROVE  Inserted(Len(s.messages), at, r, <<>>)
<1> DEFINE N == Len(s.messages)
           last == [s.messages[N] EXCEPT !.blocks = blocks]
<1>1. N \in Nat \ {0} /\ s.messages[N] \in Message
  BY EmptySeq, ElementOfSeq
<1>2. last \in Message /\ last.blocks = blocks /\ last.uses = s.messages[N].uses /\ last.role = s.messages[N].role
  BY <1>1 DEF Message
<1>3. s'.messages = [s.messages EXCEPT ![N] = last]
  OBVIOUS
<1>4. /\ s'.messages \in Seq(Message) /\ Len(s'.messages) = N
      /\ \A n \in 1..N : s'.messages[n] = IF n = N THEN last ELSE s.messages[n]
  BY <1>1, <1>2, <1>3, ExceptSeq
<1>5. BlocksOf(N) = LastBlocks(s)
  BY <1>1 DEF BlocksOf, LastBlocks
<1> QED
  BY <1>1, <1>2, <1>4, <1>5 DEF Inserted

\* Where a result goes among the blocks of a message: behind the results it has.
LEMMA ResultPlace ==
  ASSUME NEW blocks \in Seq(Blocks), NEW r \in Blocks
  PROVE  \E at \in 0..Len(blocks) :
           /\ at > 0 => IsResult(blocks[at])
           /\ \A j \in at + 1..Len(blocks) : ~IsResult(blocks[j])
           /\ InsertResult(blocks, r) \in Seq(Blocks)
           /\ Len(InsertResult(blocks, r)) = Len(blocks) + 1
           /\ \A k \in 1..at : InsertResult(blocks, r)[k] = blocks[k]
           /\ InsertResult(blocks, r)[at + 1] = r
           /\ \A k \in at + 2..Len(blocks) + 1 : InsertResult(blocks, r)[k] = blocks[k - 1]
<1> DEFINE N == Len(blocks)
           Place(k) == /\ k > 0 => IsResult(blocks[k])
                       /\ \A j \in k + 1..N : ~IsResult(blocks[j])
           P == {k \in 0..N : \A j \in k + 1..N : ~IsResult(blocks[j])}
<1>1. N \in Nat /\ N \in P
  OBVIOUS
<1> HIDE DEF P
<1>2. PICK k \in 0..N : k \in P /\ (k > 0 => k - 1 \notin P)
  BY <1>1, Downto
<1>3. Place(k)
  BY <1>1, <1>2 DEF P
<1> DEFINE at == CHOOSE n \in 0..N : Place(n)
<1>4. at \in 0..N /\ Place(at)
  BY <1>3
<1>5. InsertResult(blocks, r) = SubSeq(blocks, 1, at) \o <<r>> \o SubSeq(blocks, at + 1, N)
  BY DEF InsertResult
<1> HIDE DEF at
<1> DEFINE front == SubSeq(blocks, 1, at)
           back == SubSeq(blocks, at + 1, N)
<1>6. /\ front \in Seq(Blocks) /\ Len(front) = at /\ \A i \in 1..at : front[i] = blocks[i]
      /\ back \in Seq(Blocks) /\ Len(back) = N - at /\ \A i \in 1..N - at : back[i] = blocks[at + i]
  <2>1. at \in Int /\ N \in Int /\ at <= N /\ at >= 0
    BY <1>1, <1>4
  <2>2. \A i \in 1..N : blocks[i] \in Blocks
    BY ElementOfSeq
  <2> QED
    BY <2>1, <2>2, SubSeqProperties
<1> HIDE DEF front, back
<1> DEFINE both == front \o <<r>>
<1>7. /\ both \in Seq(Blocks) /\ Len(both) = at + 1 /\ both[at + 1] = r
      /\ \A i \in 1..at : both[i] = blocks[i]
  BY <1>1, <1>4, <1>6
<1> HIDE DEF both
<1>8. /\ both \o back \in Seq(Blocks) /\ Len(both \o back) = N + 1
      /\ \A i \in 1..N + 1 : (both \o back)[i] = IF i <= at + 1 THEN both[i] ELSE blocks[i - 1]
  <2>1. Len(both) = at + 1 /\ Len(back) = N - at /\ at \in 0..N /\ N \in Nat
    BY <1>1, <1>4, <1>6, <1>7
  <2>2. /\ both \o back \in Seq(Blocks) /\ Len(both \o back) = N + 1
        /\ \A i \in 1..N + 1 : (both \o back)[i] = IF i <= at + 1 THEN both[i] ELSE back[i - (at + 1)]
    BY <2>1, <1>6, <1>7, ConcatProperties
  <2>3. ASSUME NEW i \in 1..N + 1, i > at + 1
        PROVE  back[i - (at + 1)] = blocks[i - 1]
    <3>1. i - (at + 1) \in 1..N - at /\ at + (i - (at + 1)) = i - 1
      BY <2>1, <2>3
    <3> QED
      BY <3>1, <1>6
  <2> QED
    BY <2>1, <2>2, <2>3
<1>9. InsertResult(blocks, r) = both \o back
  BY <1>5 DEF both, front, back
<1> DEFINE all == InsertResult(blocks, r)
<1>10. /\ all \in Seq(Blocks) /\ Len(all) = N + 1
       /\ \A i \in 1..N + 1 : all[i] = IF i <= at + 1 THEN both[i] ELSE blocks[i - 1]
  BY <1>8, <1>9
<1> HIDE DEF all
<1>11. /\ \A i \in 1..at : all[i] = blocks[i]
       /\ all[at + 1] = r
       /\ \A i \in at + 2..N + 1 : all[i] = blocks[i - 1]
  BY <1>1, <1>4, <1>7, <1>10
<1> QED
  BY <1>4, <1>10, <1>11 DEF all

\* The block at a place of the new history was there before, or is the new one,
\* and what was there still is.
LEMMA InsertedPlaces ==
  ASSUME s.messages \in Seq(Message), NEW m, NEW at, NEW r, NEW uses, Inserted(m, at, r, uses)
  PROVE  /\ \A n \in 1..Len(s'.messages) : \A j \in 1..Len(s'.messages[n].blocks) :
              \/ n = m /\ j = at + 1 /\ s'.messages[n].blocks[j] = r
              \/ LET i == IF n = m /\ j > at + 1 THEN j - 1 ELSE j
                 IN  /\ n \in 1..Len(s.messages) /\ i \in 1..Len(s.messages[n].blocks)
                     /\ s'.messages[n].blocks[j] = s.messages[n].blocks[i]
                     /\ n = m => (j = i /\ j <= at) \/ (j = i + 1 /\ j > at + 1)
                     /\ n # m => j = i
         /\ \A n \in 1..Len(s.messages) : \A i \in 1..Len(s.messages[n].blocks) :
              LET j == IF n = m /\ i > at THEN i + 1 ELSE i
              IN  /\ n \in 1..Len(s'.messages) /\ j \in 1..Len(s'.messages[n].blocks)
                  /\ s'.messages[n].blocks[j] = s.messages[n].blocks[i]
         /\ m \in 1..Len(s'.messages) /\ at + 1 \in 1..Len(s'.messages[m].blocks)
         /\ s'.messages[m].blocks[at + 1] = r
<1> DEFINE N == Len(s.messages)
           old == BlocksOf(m)
           new == s'.messages[m].blocks
<1>1. /\ N \in Nat /\ m \in {N, N + 1} /\ m > 0 /\ Len(s'.messages) = m
      /\ \A n \in 1..N : Len(s.messages[n].blocks) \in Nat
  <2>1. \A n \in 1..N : s.messages[n] \in Message
    BY ElementOfSeq
  <2> QED
    BY <2>1, LenProperties DEF Inserted, Message
<1>2. /\ Len(old) \in Nat /\ (m = N => old = s.messages[m].blocks) /\ (m = N + 1 => Len(old) = 0)
  BY <1>1, EmptySeq DEF BlocksOf
<1>3. /\ Len(new) = Len(old) + 1 /\ at \in 0..Len(old)
      /\ \A k \in 1..at : new[k] = old[k]
      /\ new[at + 1] = r
      /\ \A k \in at + 2..Len(old) + 1 : new[k] = old[k - 1]
  BY DEF Inserted
<1>4. \A n \in 1..N : n # m => s'.messages[n].blocks = s.messages[n].blocks
  BY DEF Inserted
<1> HIDE DEF old, new
<1>5. ASSUME NEW j \in 1..Len(new)
      PROVE  \/ j = at + 1 /\ new[j] = r
             \/ j <= at /\ j \in 1..Len(old) /\ new[j] = old[j]
             \/ j > at + 1 /\ j - 1 \in 1..Len(old) /\ new[j] = old[j - 1]
  BY <1>2, <1>3
<1>6. ASSUME NEW i \in 1..Len(old)
      PROVE  /\ i > at => i + 1 \in 1..Len(new) /\ new[i + 1] = old[i]
             /\ i <= at => i \in 1..Len(new) /\ new[i] = old[i]
  <2>1. i > at => new[i + 1] = old[(i + 1) - 1] /\ (i + 1) - 1 = i
    BY <1>2, <1>3
  <2> QED
    BY <2>1, <1>2, <1>3
<1>7. ASSUME NEW n \in 1..Len(s'.messages), NEW j \in 1..Len(s'.messages[n].blocks)
      PROVE  \/ n = m /\ j = at + 1 /\ s'.messages[n].blocks[j] = r
             \/ LET i == IF n = m /\ j > at + 1 THEN j - 1 ELSE j
                IN  /\ n \in 1..N /\ i \in 1..Len(s.messages[n].blocks)
                    /\ s'.messages[n].blocks[j] = s.messages[n].blocks[i]
                    /\ n = m => (j = i /\ j <= at) \/ (j = i + 1 /\ j > at + 1)
                    /\ n # m => j = i
  <2>1. CASE n # m
    BY <2>1, <1>1, <1>4
  <2>2. CASE n = m
    <3>1. j \in 1..Len(new) /\ new = s'.messages[n].blocks
      BY <2>2 DEF new
    <3>2. Len(old) > 0 => n \in 1..N /\ old = s.messages[n].blocks
      BY <2>2, <1>1, <1>2
    <3>3. CASE j = at + 1 /\ new[j] = r
      BY <2>2, <3>1, <3>3
    <3>4. CASE j <= at /\ j \in 1..Len(old) /\ new[j] = old[j]
      <4>1. ~(j > at + 1) /\ Len(old) > 0
        BY <3>4, <1>2, <1>3
      <4> QED
        BY <2>2, <3>1, <3>2, <3>4, <4>1
    <3>5. CASE j > at + 1 /\ j - 1 \in 1..Len(old) /\ new[j] = old[j - 1]
      <4>1. Len(old) > 0 /\ j = (j - 1) + 1
        BY <3>5, <1>2, <3>1
      <4> QED
        BY <2>2, <3>1, <3>2, <3>5, <4>1
    <3> QED
      BY <3>1, <3>3, <3>4, <3>5, <1>5
  <2> QED
    BY <2>1, <2>2
<1>8. ASSUME NEW n \in 1..N, NEW i \in 1..Len(s.messages[n].blocks)
      PROVE  LET j == IF n = m /\ i > at THEN i + 1 ELSE i
             IN  /\ n \in 1..Len(s'.messages) /\ j \in 1..Len(s'.messages[n].blocks)
                 /\ s'.messages[n].blocks[j] = s.messages[n].blocks[i]
  <2>1. CASE n # m
    BY <2>1, <1>1, <1>4
  <2>2. CASE n = m
    <3>1. i \in 1..Len(old) /\ old = s.messages[n].blocks /\ new = s'.messages[n].blocks
      BY <2>2, <1>1, <1>2 DEF new
    <3> QED
      BY <2>2, <3>1, <1>1, <1>2, <1>3, <1>6
  <2> QED
    BY <2>1, <2>2
<1>9. m \in 1..Len(s'.messages) /\ at + 1 \in 1..Len(new) /\ new[at + 1] = r
  BY <1>1, <1>2, <1>3
<1> QED
  BY <1>7, <1>8, <1>9 DEF new

\* A call is asked for by its place, and answered by a result.
LEMMA AskedAt ==
  ASSUME NEW st, NEW c
  PROVE  /\ c \in Asked(st) <=> \E m \in 1..Len(st.messages) :
                                  \E i \in 1..Len(st.messages[m].uses) : c = <<m, i>>
         /\ c \in Answered(st) <=> \E m \in 1..Len(st.messages) :
                                     \E k \in 1..Len(st.messages[m].blocks) :
                                       /\ IsResult(st.messages[m].blocks[k])
                                       /\ st.messages[m].blocks[k].call = c
  BY DEF Asked, Answered, Uses, ResultsIn

\* No event takes an answer away, and only a result adds one.
LEMMA InsertedAnswers ==
  ASSUME s.messages \in Seq(Message), NEW m, NEW at, NEW r, NEW uses, Inserted(m, at, r, uses)
  PROVE  Answered(s') = Answered(s) \cup (IF IsResult(r) THEN {r.call} ELSE {})
<1>1. ASSUME NEW c \in Answered(s') PROVE c \in Answered(s) \/ (IsResult(r) /\ c = r.call)
  <2>1. PICK n \in 1..Len(s'.messages) : \E k \in 1..Len(s'.messages[n].blocks) :
               IsResult(s'.messages[n].blocks[k]) /\ s'.messages[n].blocks[k].call = c
    BY AskedAt
  <2>2. PICK k \in 1..Len(s'.messages[n].blocks) :
               IsResult(s'.messages[n].blocks[k]) /\ s'.messages[n].blocks[k].call = c
    BY <2>1
  <2>3. \/ s'.messages[n].blocks[k] = r
        \/ n \in 1..Len(s.messages) /\ \E i \in 1..Len(s.messages[n].blocks) :
                                          s'.messages[n].blocks[k] = s.messages[n].blocks[i]
    BY InsertedPlaces
  <2> QED
    BY <2>2, <2>3, AskedAt
<1>2. ASSUME NEW c \in Answered(s) PROVE c \in Answered(s')
  <2>1. PICK n \in 1..Len(s.messages) : \E k \in 1..Len(s.messages[n].blocks) :
               IsResult(s.messages[n].blocks[k]) /\ s.messages[n].blocks[k].call = c
    BY AskedAt
  <2>2. PICK k \in 1..Len(s.messages[n].blocks) :
               IsResult(s.messages[n].blocks[k]) /\ s.messages[n].blocks[k].call = c
    BY <2>1
  <2> DEFINE j == IF n = m /\ k > at THEN k + 1 ELSE k
  <2>3. /\ n \in 1..Len(s'.messages) /\ j \in 1..Len(s'.messages[n].blocks)
        /\ s'.messages[n].blocks[j] = s.messages[n].blocks[k]
    <3>1. \A h \in 1..Len(s.messages) : \A i \in 1..Len(s.messages[h].blocks) :
            LET l == IF h = m /\ i > at THEN i + 1 ELSE i
            IN  /\ h \in 1..Len(s'.messages) /\ l \in 1..Len(s'.messages[h].blocks)
                /\ s'.messages[h].blocks[l] = s.messages[h].blocks[i]
      BY InsertedPlaces
    <3> QED
      BY <3>1
  <2> HIDE DEF j
  <2>4. IsResult(s'.messages[n].blocks[j]) /\ s'.messages[n].blocks[j].call = c
    BY <2>2, <2>3
  <2> QED
    BY <2>3, <2>4, AskedAt
<1>3. ASSUME IsResult(r) PROVE r.call \in Answered(s')
  <2> DEFINE j == at + 1
  <2>1. m \in 1..Len(s'.messages) /\ j \in 1..Len(s'.messages[m].blocks) /\ s'.messages[m].blocks[j] = r
    BY InsertedPlaces
  <2> HIDE DEF j
  <2>2. IsResult(s'.messages[m].blocks[j]) /\ s'.messages[m].blocks[j].call = r.call
    BY <2>1, <1>3
  <2> QED
    BY <2>1, <2>2, AskedAt
<1> QED
  BY <1>1, <1>2, <1>3

\* Only a new message asks for something.
LEMMA InsertedAsks ==
  ASSUME s.messages \in Seq(Message), NEW m, NEW at, NEW r, NEW uses, Inserted(m, at, r, uses)
  PROVE  Asked(s') = Asked(s) \cup (IF m = Len(s.messages) + 1
                                    THEN {<<m, i>> : i \in 1..Len(uses)} ELSE {})
<1> DEFINE N == Len(s.messages)
<1>1. /\ N \in Nat /\ m \in {N, N + 1} /\ m > 0 /\ Len(s'.messages) = m
      /\ \A n \in 1..N : s'.messages[n].uses = s.messages[n].uses
      /\ m = N + 1 => s'.messages[m].uses = uses
  BY LenProperties DEF Inserted
<1>2. ASSUME NEW c \in Asked(s')
      PROVE  c \in Asked(s) \/ (m = N + 1 /\ c \in {<<m, i>> : i \in 1..Len(uses)})
  <2>1. PICK n \in 1..Len(s'.messages) : \E i \in 1..Len(s'.messages[n].uses) : c = <<n, i>>
    BY AskedAt
  <2>2. CASE n \in 1..N
    BY <2>1, <2>2, <1>1, AskedAt
  <2>3. CASE n \notin 1..N
    <3>1. n = N + 1 /\ m = N + 1
      BY <2>3, <1>1
    <3> QED
      BY <2>1, <3>1, <1>1
  <2> QED
    BY <2>2, <2>3
<1>3. ASSUME NEW c \in Asked(s) PROVE c \in Asked(s')
  <2>1. PICK n \in 1..N : \E i \in 1..Len(s.messages[n].uses) : c = <<n, i>>
    BY AskedAt
  <2>2. n \in 1..Len(s'.messages) /\ s'.messages[n].uses = s.messages[n].uses
    BY <1>1
  <2> QED
    BY <2>1, <2>2, AskedAt
<1>4. ASSUME m = N + 1, NEW i \in 1..Len(uses) PROVE <<m, i>> \in Asked(s')
  <2>1. m \in 1..Len(s'.messages) /\ i \in 1..Len(s'.messages[m].uses)
    BY <1>1, <1>4
  <2> QED
    BY <2>1, AskedAt
<1> QED
  BY <1>2, <1>3, <1>4

\* A result of a call that has none yet is its only one.
LEMMA InsertedOnce ==
  ASSUME s.messages \in Seq(Message), NEW m, NEW at, NEW r, NEW uses, Inserted(m, at, r, uses),
         AnsweredOnce, IsResult(r) => r.call \notin Answered(s)
  PROVE  AnsweredOnce'
<1> DEFINE Here(n, j) == n \in 1..Len(s'.messages) /\ j \in 1..Len(s'.messages[n].blocks)
           Old(n, j) == IF n = m /\ j > at + 1 THEN j - 1 ELSE j
           New(n, j) == n = m /\ j = at + 1 /\ s'.messages[n].blocks[j] = r
           Kept(n, j) == /\ n \in 1..Len(s.messages) /\ Old(n, j) \in 1..Len(s.messages[n].blocks)
                         /\ s'.messages[n].blocks[j] = s.messages[n].blocks[Old(n, j)]
                         /\ n = m => (j = Old(n, j) /\ j <= at) \/ (j = Old(n, j) + 1 /\ j > at + 1)
                         /\ n # m => j = Old(n, j)
<1> SUFFICES ASSUME NEW n \in 1..Len(s'.messages), NEW p \in 1..Len(s'.messages),
                    NEW j \in 1..Len(s'.messages[n].blocks), NEW k \in 1..Len(s'.messages[p].blocks),
                    IsResult(s'.messages[n].blocks[j]),
                    s'.messages[n].blocks[j].call = s'.messages[p].blocks[k].call
             PROVE  n = p /\ j = k
  BY DEF AnsweredOnce
<1>1. New(n, j) \/ Kept(n, j)
  BY InsertedPlaces
<1>2. New(p, k) \/ Kept(p, k)
  BY InsertedPlaces
<1>3. IsResult(s'.messages[p].blocks[k])
  BY DEF IsResult
<1>4. ASSUME NEW a, NEW b, Kept(a, b), IsResult(s'.messages[a].blocks[b])
      PROVE  s'.messages[a].blocks[b].call \in Answered(s)
  BY <1>4, AskedAt
<1>5. CASE New(n, j) /\ New(p, k)
  BY <1>5
<1>6. CASE New(n, j) /\ Kept(p, k)
  BY <1>6, <1>4, <1>3
<1>7. CASE Kept(n, j) /\ New(p, k)
  BY <1>7, <1>4, <1>3
<1>8. CASE Kept(n, j) /\ Kept(p, k)
  <2> DEFINE i == Old(n, j)
             l == Old(p, k)
  <2>1. /\ n \in 1..Len(s.messages) /\ i \in 1..Len(s.messages[n].blocks)
        /\ p \in 1..Len(s.messages) /\ l \in 1..Len(s.messages[p].blocks)
        /\ s'.messages[n].blocks[j] = s.messages[n].blocks[i]
        /\ s'.messages[p].blocks[k] = s.messages[p].blocks[l]
        /\ n = m => (j = i /\ j <= at) \/ (j = i + 1 /\ j > at + 1)
        /\ n # m => j = i
        /\ p = m => (k = l /\ k <= at) \/ (k = l + 1 /\ k > at + 1)
        /\ p # m => k = l
    BY <1>8
  <2>2. at \in Nat
    BY LenProperties DEF Inserted
  <2> HIDE DEF i, l, Old, New, Kept
  <2>3. /\ IsResult(s.messages[n].blocks[i])
        /\ s.messages[n].blocks[i].call = s.messages[p].blocks[l].call
    BY <2>1
  <2>4. <<n, i>> = <<p, l>>
    BY <2>1, <2>3 DEF AnsweredOnce
  <2> QED
    BY <2>1, <2>2, <2>4
<1> QED
  BY <1>1, <1>2, <1>5, <1>6, <1>7, <1>8

\* Results stay in front if one is put behind the others and a text at the end.
Follow(st) ==
  \A m \in 1..Len(st.messages) : \A k \in 1..Len(st.messages[m].blocks) :
    IsResult(st.messages[m].blocks[k]) =>
      /\ st.messages[m].blocks[k].call[1] = m - 1
      /\ \A j \in 1..k : IsResult(st.messages[m].blocks[j])

\* A result put behind the results of its reply follows it.
LEMMA InsertedFollow ==
  ASSUME s.messages \in Seq(Message), NEW m, NEW at, NEW r, NEW uses, Inserted(m, at, r, uses),
         Follow(s), at > 0 /\ IsResult(r) => IsResult(BlocksOf(m)[at]),
         IsResult(r) => r.call[1] = m - 1,
         ~IsResult(r) => at = Len(BlocksOf(m))
  PROVE  Follow(s')
<1> DEFINE N == Len(s.messages)
           old == BlocksOf(m)
           new == s'.messages[m].blocks
<1>1. /\ N \in Nat /\ m \in {N, N + 1} /\ m > 0 /\ Len(s'.messages) = m
      /\ Len(old) \in Nat /\ (m = N => old = s.messages[m].blocks) /\ (m = N + 1 => Len(old) = 0)
  <2>1. N \in Nat /\ m \in {N, N + 1} /\ m > 0 /\ Len(s'.messages) = m
    BY LenProperties DEF Inserted
  <2>2. m = N => s.messages[m] \in Message
    BY <2>1, ElementOfSeq
  <2> QED
    BY <2>1, <2>2, LenProperties, EmptySeq DEF BlocksOf, Message
<1>2. /\ Len(new) = Len(old) + 1 /\ at \in 0..Len(old)
      /\ \A k \in 1..at : new[k] = old[k]
      /\ new[at + 1] = r
      /\ \A k \in at + 2..Len(old) + 1 : new[k] = old[k - 1]
      /\ \A n \in 1..N : n # m => s'.messages[n].blocks = s.messages[n].blocks
  BY DEF Inserted
<1>3. \A k \in 1..Len(old) : IsResult(old[k]) =>
         /\ old[k].call[1] = m - 1
         /\ \A j \in 1..k : IsResult(old[j])
  BY <1>1 DEF Follow
<1> HIDE DEF old, new
<1>4. ASSUME NEW k \in 1..Len(new), IsResult(new[k])
      PROVE  new[k].call[1] = m - 1 /\ \A j \in 1..k : IsResult(new[j])
  <2>1. ASSUME IsResult(r) PROVE \A j \in 1..at : IsResult(old[j])
    <3>1. CASE at > 0
      <4>1. IsResult(old[at])
        BY <2>1, <3>1 DEF old
      <4>2. at \in 1..Len(old)
        BY <1>1, <1>2, <3>1
      <4> QED
        BY <4>1, <4>2, <1>3
    <3>2. CASE ~(at > 0)
      BY <1>1, <1>2, <3>2
    <3> QED
      BY <3>1, <3>2
  <2>2. CASE k <= at
    <3>1. IsResult(old[k]) /\ k \in 1..Len(old)
      BY <1>1, <1>2, <1>4, <2>2
    <3>2. old[k].call[1] = m - 1 /\ \A j \in 1..k : IsResult(old[j])
      BY <3>1, <1>3
    <3> QED
      BY <3>2, <1>1, <1>2, <2>2
  <2>3. CASE k = at + 1
    <3>1. IsResult(r) /\ new[k] = r
      BY <1>2, <1>4, <2>3
    <3> QED
      BY <3>1, <2>1, <2>3, <1>1, <1>2
  <2>4. CASE k > at + 1
    <3>1. IsResult(old[k - 1]) /\ k - 1 \in 1..Len(old) /\ new[k] = old[k - 1]
      BY <1>1, <1>2, <1>4, <2>4
    <3>2. old[k - 1].call[1] = m - 1 /\ \A j \in 1..k - 1 : IsResult(old[j])
      BY <3>1, <1>3
    <3>3. IsResult(r)
      BY <3>1, <1>1, <1>2, <2>4 DEF old
    <3>4. ASSUME NEW j \in 1..k PROVE IsResult(new[j])
      <4>1. \/ j \in 1..at \/ j = at + 1
            \/ j \in at + 2..Len(old) + 1 /\ j - 1 \in 1..k - 1
        BY <1>1, <1>2
      <4>2. CASE j \in 1..at
        BY <4>2, <3>3, <2>1, <1>2
      <4>3. CASE j = at + 1
        BY <4>3, <3>3, <1>2
      <4>4. CASE j \in at + 2..Len(old) + 1 /\ j - 1 \in 1..k - 1
        BY <4>4, <3>2, <1>2
      <4> QED
        BY <4>1, <4>2, <4>3, <4>4
    <3> QED
      BY <3>1, <3>2, <3>4
  <2> QED
    BY <1>1, <1>2, <2>2, <2>3, <2>4
<1>5. ASSUME NEW n \in 1..Len(s'.messages), n # m
      PROVE  n \in 1..N /\ s'.messages[n].blocks = s.messages[n].blocks
  BY <1>1, <1>2, <1>5
<1> QED
  BY <1>4, <1>5 DEF Follow, new

-----------------------------------------------------------------------------
(* The events: what each makes of the history                              *)

\* What is asked for stays, and a new message has these uses.
Extended(uses) ==
  /\ s'.messages \in Seq(Message) /\ Len(s'.messages) > 0
  /\ Len(s'.messages) \in {Len(s.messages), Len(s.messages) + 1}
  /\ \A n \in 1..Len(s.messages) :
       s'.messages[n].uses = s.messages[n].uses /\ s'.messages[n].role = s.messages[n].role
  /\ Len(s'.messages) = Len(s.messages) + 1 => s'.messages[Len(s'.messages)].uses = uses

\* The last message is the user's now, and was if it is the same one.
UsersTurn == LastIsUser(s') /\ (Len(s'.messages) = Len(s.messages) => LastIsUser(s))

\* The blocks and messages that are recorded are of their types.
LEMMA BlockTypes ==
  /\ Text \in Blocks /\ ~IsResult(Text)
  /\ \A c \in CallId : \A ok \in BOOLEAN :
       Result(c, ok) \in Blocks /\ IsResult(Result(c, ok)) /\ Result(c, ok).call = c
  /\ \A b \in Blocks : UserMessage(<<b>>) \in Message /\ UserMessage(<<b>>).blocks = <<b>>
                       /\ UserMessage(<<b>>).uses = <<>> /\ UserMessage(<<b>>).role = "user"
  /\ \A uses \in Seq(BOOLEAN) : Reply(uses) \in Message /\ Reply(uses).blocks = <<Text>>
                                /\ Reply(uses).uses = uses /\ Reply(uses).role = "assistant"
<1>1. Text \in Blocks /\ ~IsResult(Text)
  BY DEF Text, Blocks, IsResult
<1>2. ASSUME NEW c \in CallId, NEW ok \in BOOLEAN
      PROVE  Result(c, ok) \in Blocks /\ IsResult(Result(c, ok)) /\ Result(c, ok).call = c
  <2>1. c # <<0, 0>>
    BY DEF CallId
  <2> QED
    BY <2>1 DEF Result, Blocks, IsResult
<1>3. ASSUME NEW b \in Blocks
      PROVE  UserMessage(<<b>>) \in Message /\ UserMessage(<<b>>).blocks = <<b>>
             /\ UserMessage(<<b>>).uses = <<>> /\ UserMessage(<<b>>).role = "user"
  <2>1. <<b>> \in Seq(Blocks) /\ <<>> \in Seq(BOOLEAN)
    OBVIOUS
  <2> QED
    BY <2>1 DEF UserMessage, Message
<1>4. ASSUME NEW uses \in Seq(BOOLEAN)
      PROVE  Reply(uses) \in Message /\ Reply(uses).blocks = <<Text>>
             /\ Reply(uses).uses = uses /\ Reply(uses).role = "assistant"
  <2>1. <<Text>> \in Seq(Blocks)
    BY <1>1
  <2> QED
    BY <2>1 DEF Reply, Message
<1> QED
  BY <1>1, <1>2, <1>3, <1>4

\* A user's message behind the others.
LEMMA UserMessageAdded ==
  ASSUME s.messages \in Seq(Message), NEW r \in Blocks,
         s'.messages = Append(s.messages, UserMessage(<<r>>))
  PROVE  /\ Inserted(Len(s.messages) + 1, 0, r, <<>>)
         /\ s'.messages[Len(s.messages) + 1].role = "user"
<1>1. UserMessage(<<r>>) \in Message /\ UserMessage(<<r>>).blocks = <<r>>
      /\ UserMessage(<<r>>).uses = <<>> /\ UserMessage(<<r>>).role = "user"
  BY BlockTypes
<1>2. Inserted(Len(s.messages) + 1, 0, r, UserMessage(<<r>>).uses)
  BY <1>1, NewMessage
<1>3. s'.messages[Len(s.messages) + 1] = UserMessage(<<r>>)
  BY <1>1, AppendProperties
<1> QED
  BY <1>1, <1>2, <1>3

\* Whatever is inserted extends the history.
LEMMA InsertedExtends ==
  ASSUME s.messages \in Seq(Message), NEW m, NEW at, NEW r, NEW uses, Inserted(m, at, r, uses)
  PROVE  Extended(uses) /\ Len(s'.messages) = m
  BY LenProperties DEF Inserted, Extended

\* A new turn's message, or an injected text.
LEMMA TextEvent ==
  ASSUME s \in Session,
         \/ \E n : s'.messages = TurnStarted(s, n).messages
         \/ s'.messages = Injected(s).messages
  PROVE  /\ Extended(<<>>) /\ UsersTurn
         /\ Asked(s') = Asked(s) /\ Answered(s') = Answered(s)
         /\ AnsweredOnce => AnsweredOnce'
         /\ Follow(s) => Follow(s')
<1> DEFINE N == Len(s.messages)
<1>1. s.messages \in Seq(Message) /\ N \in Nat
  BY LenProperties DEF Session
<1>2. Text \in Blocks /\ ~IsResult(Text)
  BY BlockTypes
<1> SUFFICES \E m : /\ Inserted(m, Len(BlocksOf(m)), Text, <<>>)
                    /\ s'.messages[m].role = "user" /\ (m = N => LastIsUser(s))
  <2> PICK m : /\ Inserted(m, Len(BlocksOf(m)), Text, <<>>)
               /\ s'.messages[m].role = "user" /\ (m = N => LastIsUser(s))
    OBVIOUS
  <2>1. Extended(<<>>) /\ Len(s'.messages) = m
    BY <1>1, InsertedExtends
  <2>2. UsersTurn
    BY <2>1, <1>1, EmptySeq DEF UsersTurn, LastIsUser, Extended
  <2>3. Asked(s') = Asked(s)
    <3>1. {<<m, i>> : i \in 1..Len(<<>>)} = {}
      OBVIOUS
    <3> QED
      <4>1. Asked(s') = Asked(s) \cup (IF m = N + 1 THEN {<<m, i>> : i \in 1..Len(<<>>)} ELSE {})
        BY <1>1, InsertedAsks
      <4> QED
        BY <3>1, <4>1
  <2>4. Answered(s') = Answered(s)
    BY <1>1, <1>2, InsertedAnswers
  <2>5. AnsweredOnce => AnsweredOnce'
    BY <1>1, <1>2, InsertedOnce
  <2>6. Follow(s) => Follow(s')
    BY <1>1, <1>2, InsertedFollow
  <2> QED
    BY <2>1, <2>2, <2>3, <2>4, <2>5, <2>6
<1>3. CASE s'.messages = Append(s.messages, UserMessage(<<Text>>))
  <2>1. Len(BlocksOf(N + 1)) = 0
    BY <1>1, EmptySeq DEF BlocksOf
  <2> QED
    BY <1>1, <1>2, <1>3, <2>1, UserMessageAdded
<1>4. CASE LastIsUser(s) /\ s'.messages = [s.messages EXCEPT ![N].blocks = Append(LastBlocks(s), Text)]
  <2> DEFINE old == LastBlocks(s)
  <2>1. s.messages # <<>> /\ N \in 1..N /\ s.messages[N] \in Message /\ s.messages[N].role = "user"
    BY <1>1, <1>4, EmptySeq, ElementOfSeq DEF LastIsUser
  <2>2. old \in Seq(Blocks) /\ BlocksOf(N) = old
    BY <1>1, <2>1 DEF LastBlocks, Message, BlocksOf
  <2> HIDE DEF old
  <2>3. /\ Append(old, Text) \in Seq(Blocks) /\ Len(Append(old, Text)) = Len(old) + 1
        /\ Append(old, Text)[Len(old) + 1] = Text
        /\ \A k \in 1..Len(old) : Append(old, Text)[k] = old[k]
        /\ Len(old) \in 0..Len(old)
        /\ \A k \in Len(old) + 2..Len(old) + 1 : Append(old, Text)[k] = old[k - 1]
    BY <2>2, <1>2, AppendProperties
  <2> DEFINE new == Append(old, Text)
             at == Len(old)
  <2> HIDE DEF new, at
  <2>4. /\ new \in Seq(Blocks) /\ at \in 0..Len(LastBlocks(s)) /\ Len(new) = Len(LastBlocks(s)) + 1
        /\ \A k \in 1..at : new[k] = LastBlocks(s)[k]
        /\ new[at + 1] = Text
        /\ \A k \in at + 2..Len(LastBlocks(s)) + 1 : new[k] = LastBlocks(s)[k - 1]
        /\ s'.messages = [s.messages EXCEPT ![N].blocks = new]
    BY <2>3, <1>4 DEF new, at, old
  <2>5. Inserted(N, at, Text, <<>>)
    BY <1>1, <2>1, <2>4, SameMessage
  <2>6. s'.messages[N].role = "user"
    BY <2>1, <2>5 DEF Inserted
  <2> QED
    BY <2>2, <2>5, <2>6, <1>4 DEF at
<1>5. CASE \E n : s'.messages = TurnStarted(s, n).messages
  BY <1>3, <1>5 DEF TurnStarted, Session
<1>6. CASE s'.messages = Injected(s).messages
  BY <1>3, <1>4, <1>6 DEF Injected, SetLast, Session
<1> QED
  BY <1>5, <1>6

\* A model reply.
LEMMA ReplyEvent ==
  ASSUME s \in Session, NEW uses \in Seq(BOOLEAN), s'.messages = MessageEnded(s, uses).messages
  PROVE  /\ Extended(uses) /\ Len(s'.messages) = Len(s.messages) + 1
         /\ s'.messages[Len(s'.messages)].role = "assistant"
         /\ Asked(s') = Asked(s) \cup {<<Len(s.messages) + 1, i>> : i \in 1..Len(uses)}
         /\ Answered(s') = Answered(s)
         /\ AnsweredOnce => AnsweredOnce'
         /\ Follow(s) => Follow(s')
<1> DEFINE N == Len(s.messages)
<1>1. s.messages \in Seq(Message) /\ N \in Nat
  BY LenProperties DEF Session
<1>2. ~IsResult(Text) /\ Reply(uses) \in Message /\ Reply(uses).blocks = <<Text>>
      /\ Reply(uses).uses = uses /\ Reply(uses).role = "assistant"
  BY BlockTypes
<1>3. s'.messages = Append(s.messages, Reply(uses))
  BY DEF MessageEnded, Session
<1>4. Inserted(N + 1, 0, Text, uses)
  BY <1>1, <1>2, <1>3, NewMessage
<1>5. Extended(uses) /\ Len(s'.messages) = N + 1
  BY <1>1, <1>4, InsertedExtends
<1>6. s'.messages[N + 1].role = "assistant"
  BY <1>1, <1>2, <1>3, AppendProperties
<1>7. Asked(s') = Asked(s) \cup {<<N + 1, i>> : i \in 1..Len(uses)}
  BY <1>1, <1>4, InsertedAsks
<1>8. Answered(s') = Answered(s)
  BY <1>1, <1>2, <1>4, InsertedAnswers
<1>9. AnsweredOnce => AnsweredOnce'
  BY <1>1, <1>2, <1>4, InsertedOnce
<1>10. Len(BlocksOf(N + 1)) = 0
  BY <1>1, EmptySeq DEF BlocksOf
<1>11. Follow(s) => Follow(s')
  <2>1. ~(0 > 0)
    OBVIOUS
  <2> QED
    BY <1>1, <1>2, <1>4, <1>10, <2>1, InsertedFollow
<1> QED
  BY <1>5, <1>6, <1>7, <1>8, <1>9, <1>11

\* The answer of a call that has none: behind the results of the last message, if
\* that is the user's, and in a message of its own otherwise.
LEMMA ResultEvent ==
  ASSUME s \in Session, NEW c \in CallId, NEW ok \in BOOLEAN, c \notin Answered(s),
         s'.messages = ToolEnded(s, c, ok).messages
  PROVE  /\ Extended(<<>>) /\ UsersTurn
         /\ (Len(s'.messages) = Len(s.messages)) <=> LastIsUser(s)
         /\ Asked(s') = Asked(s) /\ Answered(s') = Answered(s) \cup {c}
         /\ AnsweredOnce => AnsweredOnce'
         /\ Follow(s) /\ c[1] = (IF LastIsUser(s) THEN Len(s.messages) - 1 ELSE Len(s.messages))
            => Follow(s')
<1> DEFINE N == Len(s.messages)
           r == Result(c, ok)
<1>1. s.messages \in Seq(Message) /\ N \in Nat
  BY LenProperties DEF Session
<1>2. r \in Blocks /\ IsResult(r) /\ r.call = c
  BY BlockTypes
<1> HIDE DEF r
<1> DEFINE Ok(m, at) == /\ Inserted(m, at, r, <<>>)
                        /\ at > 0 => IsResult(BlocksOf(m)[at])
                        /\ s'.messages[m].role = "user" /\ (m = N <=> LastIsUser(s))
<1> HIDE DEF Ok
<1> SUFFICES \E m, at : Ok(m, at)
  <2> PICK m, at : Ok(m, at)
    OBVIOUS
  <2>0. /\ Inserted(m, at, r, <<>>)
        /\ at > 0 => IsResult(BlocksOf(m)[at])
        /\ s'.messages[m].role = "user" /\ (m = N <=> LastIsUser(s))
    BY DEF Ok
  <2>1. Extended(<<>>) /\ Len(s'.messages) = m
    BY <1>1, <2>0, InsertedExtends
  <2>2. UsersTurn
    BY <2>0, <2>1, <1>1, EmptySeq DEF UsersTurn, LastIsUser, Extended
  <2>3. Asked(s') = Asked(s)
    <3>1. {<<m, i>> : i \in 1..Len(<<>>)} = {}
      OBVIOUS
    <3> QED
      <4>1. Asked(s') = Asked(s) \cup (IF m = N + 1 THEN {<<m, i>> : i \in 1..Len(<<>>)} ELSE {})
        BY <1>1, <2>0, InsertedAsks
      <4> QED
        BY <3>1, <4>1
  <2>4. Answered(s') = Answered(s) \cup {c}
    BY <1>1, <1>2, <2>0, InsertedAnswers
  <2>5. AnsweredOnce => AnsweredOnce'
    BY <1>1, <1>2, <2>0, InsertedOnce
  <2>6. ASSUME Follow(s), c[1] = (IF LastIsUser(s) THEN N - 1 ELSE N)
        PROVE  Follow(s')
    <3>1. m \in {N, N + 1}
      BY <2>0 DEF Inserted
    <3>2. r.call[1] = m - 1
      BY <3>1, <2>0, <2>6, <1>1, <1>2
    <3> QED
      BY <1>1, <1>2, <2>0, <2>6, <3>2, InsertedFollow
  <2> QED
    BY <2>0, <2>1, <2>2, <2>3, <2>4, <2>5, <2>6
<1>3. CASE ~LastIsUser(s)
  <2>1. s'.messages = Append(s.messages, UserMessage(<<r>>))
    BY <1>3 DEF ToolEnded, Session, r
  <2>2. Inserted(N + 1, 0, r, <<>>) /\ s'.messages[N + 1].role = "user" /\ N + 1 # N
    BY <1>1, <1>2, <2>1, UserMessageAdded
  <2>3. ~(0 > 0)
    OBVIOUS
  <2> QED
    BY <1>3, <2>2, <2>3 DEF Ok
<1>4. CASE LastIsUser(s)
  <2> DEFINE old == LastBlocks(s)
             new == InsertResult(old, r)
  <2>1. s.messages # <<>> /\ N \in 1..N /\ s.messages[N] \in Message /\ s.messages[N].role = "user"
    BY <1>1, <1>4, EmptySeq, ElementOfSeq DEF LastIsUser
  <2>2. old \in Seq(Blocks) /\ BlocksOf(N) = old
    BY <1>1, <2>1 DEF LastBlocks, Message, BlocksOf
  <2>3. s'.messages = [s.messages EXCEPT ![N].blocks = new]
    BY <1>4 DEF ToolEnded, SetLast, LastBlocks, Session, r
  <2> HIDE DEF old
  <2>4. PICK at \in 0..Len(old) :
           /\ at > 0 => IsResult(old[at])
           /\ \A j \in at + 1..Len(old) : ~IsResult(old[j])
           /\ new \in Seq(Blocks)
           /\ Len(new) = Len(old) + 1
           /\ \A k \in 1..at : new[k] = old[k]
           /\ new[at + 1] = r
           /\ \A k \in at + 2..Len(old) + 1 : new[k] = old[k - 1]
    BY <1>2, <2>2, ResultPlace
  <2> HIDE DEF new
  <2>5. Inserted(N, at, r, <<>>)
    BY <1>1, <2>1, <2>3, <2>4, SameMessage DEF old
  <2>6. s'.messages[N].role = "user"
    BY <2>1, <2>5 DEF Inserted
  <2> QED
    BY <1>4, <2>2, <2>4, <2>5, <2>6 DEF Ok
<1> QED
  BY <1>3, <1>4

\* Whatever leaves the messages alone leaves all of this alone.
LEMMA SameHistory ==
  ASSUME s'.messages = s.messages
  PROVE  /\ Asked(s') = Asked(s) /\ Answered(s') = Answered(s)
         /\ AnsweredOnce => AnsweredOnce'
         /\ Follow(s) => Follow(s')
         /\ LastIsUser(s') = LastIsUser(s)
<1>1. Asked(s') = Asked(s)
  BY DEF Asked, Uses
<1>2. Answered(s') = Answered(s)
  BY DEF Answered, ResultsIn
<1>3. AnsweredOnce => AnsweredOnce'
  BY DEF AnsweredOnce
<1>4. (Follow(s) => Follow(s')) /\ LastIsUser(s') = LastIsUser(s)
  BY DEF Follow, LastIsUser
<1> QED
  BY <1>1, <1>2, <1>3, <1>4

-----------------------------------------------------------------------------
(* Types and bounds                                                        *)

\* A call is one of a reply the session has: what is asked for has a name, within
\* the bounds, and the message that asks for it is the assistant's.
LEMMA AskedBound ==
  ASSUME TypeOK, Counted
  PROVE  /\ Asked(s) \subseteq CallId
         /\ \A c \in Asked(s) : /\ c[1] \in 1..Len(s.messages)
                                /\ s.messages[c[1]].role = "assistant"
                                /\ c \in Uses(s, c[1])
<1> SUFFICES ASSUME NEW c \in Asked(s)
             PROVE  /\ c \in CallId /\ c[1] \in 1..Len(s.messages)
                    /\ s.messages[c[1]].role = "assistant" /\ c \in Uses(s, c[1])
  OBVIOUS
<1>1. PICK m \in 1..Len(s.messages) : \E i \in 1..Len(s.messages[m].uses) : c = <<m, i>>
  BY AskedAt
<1>2. PICK i \in 1..Len(s.messages[m].uses) : c = <<m, i>>
  BY <1>1
<1>3. /\ s.messages \in Seq(Message) /\ Len(s.messages) \in Nat
      /\ s.messages[m] \in Message /\ Len(s.messages[m].uses) \in Nat
  <2>1. s.messages \in Seq(Message)
    BY DEF TypeOK, Session
  <2>2. s.messages[m] \in Message /\ Len(s.messages) \in Nat
    BY <2>1, ElementOfSeq, LenProperties
  <2> QED
    BY <2>1, <2>2, LenProperties DEF Message
<1>4. m \in 1..2 * (MaxTurns + MaxReplies) + MaxInjections
  <2> DEFINE more == IF LastIsUser(s) \/ s.messages = <<>> THEN 0 ELSE 1
  <2>1. /\ Len(s.messages) + more <= used.turns + 2 * used.replies + used.injections
        /\ more \in {0, 1}
    BY DEF Counted
  <2> HIDE DEF more
  <2>2. /\ used.turns \in 0..MaxTurns /\ used.replies \in 0..MaxReplies
        /\ used.injections \in 0..MaxInjections
        /\ MaxTurns \in Nat /\ MaxReplies \in Nat /\ MaxInjections \in Nat
    BY TurnAssumption DEF Counted
  <2>3. Len(s.messages) <= used.turns + 2 * used.replies + used.injections
    BY <2>1, <2>2, <1>3
  <2> QED
    BY <2>3, <2>2, <1>3
<1>5. i \in 1..MaxCallsPer
  BY <1>3, TurnAssumption DEF Counted
<1>6. s.messages[m].role = "assistant"
  <2>1. s.messages[m].role = "user" => Len(s.messages[m].uses) = 0
    BY EmptySeq DEF Counted
  <2> QED
    BY <2>1, <1>3 DEF Message
<1> QED
  BY <1>2, <1>4, <1>5, <1>6 DEF CallId, Uses

\* The answer of a recent call goes to the message right behind its reply.
LEMMA RecentIsLast ==
  ASSUME TypeOK, Counted, NEW c \in Asked(s), Recent(c[1])
  PROVE  c[1] = IF LastIsUser(s) THEN Len(s.messages) - 1 ELSE Len(s.messages)
<1>1. c[1] \in 1..Len(s.messages) /\ s.messages[c[1]].role = "assistant"
  BY AskedBound
<1>2. s.messages \in Seq(Message) /\ Len(s.messages) \in Nat
  BY LenProperties DEF TypeOK, Session
<1> QED
  BY <1>1, <1>2, EmptySeq DEF Recent, LastIsUser

\* The bound of the messages, and what it counts.
Room(st, u) ==
  Len(st.messages) + (IF LastIsUser(st) \/ st.messages = <<>> THEN 0 ELSE 1)
    <= u.turns + 2 * u.replies + u.injections
Spent == [turns : 0..MaxTurns, replies : 0..MaxReplies, injections : 0..MaxInjections,
          crashes : 0..MaxCrashes, stops : 0..MaxStops, rejections : 0..MaxRejections]
Asks(st) == \A m \in 1..Len(st.messages) :
              /\ Len(st.messages[m].uses) <= MaxCallsPer
              /\ st.messages[m].role = "user" => st.messages[m].uses = <<>>

\* The bounds, one by one.
LEMMA CountedParts == Counted <=> used \in Spent /\ Room(s, used) /\ Asks(s)
  BY DEF Counted, Spent, Room, Asks

\* The same of the next state.
LEMMA CountedParts2 == Counted' <=> used' \in Spent /\ Room(s', used') /\ Asks(s')
  BY DEF Counted, Spent, Room, Asks

\* Spending what the bound leaves.
LEMMA Spending ==
  ASSUME used \in Spent,
         NEW what \in {"turns", "replies", "injections", "crashes", "stops", "rejections"},
         NEW max, max = [turns |-> MaxTurns, replies |-> MaxReplies, injections |-> MaxInjections,
                         crashes |-> MaxCrashes, stops |-> MaxStops,
                         rejections |-> MaxRejections][what],
         used[what] < max, Spend(what)
  PROVE  /\ used' \in Spent /\ used'[what] = used[what] + 1
         /\ \A other \in {"turns", "replies", "injections", "crashes", "stops", "rejections"} :
              other # what => used'[other] = used[other]
<1>1. /\ MaxTurns \in Nat /\ MaxReplies \in Nat /\ MaxInjections \in Nat /\ MaxCrashes \in Nat
      /\ MaxStops \in Nat /\ MaxRejections \in Nat
  BY TurnAssumption
<1> QED
  BY <1>1 DEF Spent, Spend

\* An event of which the new message, if there is one, asks for little enough.
LEMMA AsksStep ==
  ASSUME s \in Session, Asks(s), NEW uses, Extended(uses), Len(uses) <= MaxCallsPer,
         UsersTurn => uses = <<>>,
         UsersTurn \/ s'.messages[Len(s'.messages)].role = "assistant"
  PROVE  Asks(s')
<1> DEFINE N == Len(s.messages)
<1>1. N \in Nat /\ Len(s'.messages) \in {N, N + 1}
  BY LenProperties DEF Session, Extended
<1>2. ASSUME NEW m \in 1..N, m \in 1..Len(s'.messages)
      PROVE  /\ Len(s'.messages[m].uses) <= MaxCallsPer
             /\ s'.messages[m].role = "user" => s'.messages[m].uses = <<>>
  BY <1>2 DEF Extended, Asks
<1>3. ASSUME Len(s'.messages) = N + 1
      PROVE  /\ Len(s'.messages[N + 1].uses) <= MaxCallsPer
             /\ s'.messages[N + 1].role = "user" => s'.messages[N + 1].uses = <<>>
  BY <1>3 DEF Extended
<1> QED
  BY <1>1, <1>2, <1>3 DEF Asks

\* A driver that does nothing is one.
LEMMA IdleType == Idle \in Driving /\ NoSynth = Idle.synth /\ {} \subseteq CallId
<1>1. 0 \in 0..MaxIterations /\ <<>> \in Seq(Seq(CallId))
  BY TurnAssumption
<1> QED
  BY <1>1 DEF Idle, Driving, NoSynth, Pcs, Reasons

\* What the driver does of itself keeps it well-typed.
LEMMA DrivingMoves ==
  ASSUME d \in Driving, NEW pc \in Pcs, NEW reason \in Reasons
  PROVE  /\ [d EXCEPT !.pc = pc] \in Driving
         /\ [d EXCEPT !.pc = pc, !.reason = reason] \in Driving
         /\ [d EXCEPT !.pc = pc, !.threw = TRUE] \in Driving
         /\ [d EXCEPT !.pc = pc, !.continued = TRUE] \in Driving
         /\ [d EXCEPT !.pc = pc, !.reason = reason, !.reply = 0] \in Driving
         /\ d.iteration < MaxIterations => [d EXCEPT !.pc = pc, !.iteration = @ + 1] \in Driving
         /\ [Idle EXCEPT !.pc = pc] \in Driving
         /\ [Idle EXCEPT !.reason = d.reason, !.threw = d.threw] \in Driving
         /\ [d EXCEPT !.synth.message = FALSE] \in Driving
         /\ \A c : [d EXCEPT !.synth.running = @ \ {c}] \in Driving
                   /\ [d EXCEPT !.synth.dangling = @ \ {c}] \in Driving
<1> USE IdleType, TurnAssumption DEF Driving
<1>1. /\ [d EXCEPT !.pc = pc] \in Driving
      /\ [d EXCEPT !.pc = pc, !.reason = reason] \in Driving
      /\ [d EXCEPT !.pc = pc, !.threw = TRUE] \in Driving
      /\ [d EXCEPT !.pc = pc, !.continued = TRUE] \in Driving
  OBVIOUS
<1>2. [d EXCEPT !.pc = pc, !.reason = reason, !.reply = 0] \in Driving
  OBVIOUS
<1>3. d.iteration < MaxIterations => [d EXCEPT !.pc = pc, !.iteration = @ + 1] \in Driving
  <2>1. d.iteration < MaxIterations => d.iteration + 1 \in 0..MaxIterations
    OBVIOUS
  <2> QED
    BY <2>1
<1>4. /\ [Idle EXCEPT !.pc = pc] \in Driving
      /\ [Idle EXCEPT !.reason = d.reason, !.threw = d.threw] \in Driving
  OBVIOUS
<1>5. /\ [d EXCEPT !.synth.message = FALSE] \in Driving
      /\ \A c : [d EXCEPT !.synth.running = @ \ {c}] \in Driving
                /\ [d EXCEPT !.synth.dangling = @ \ {c}] \in Driving
  OBVIOUS
<1> QED
  BY <1>1, <1>2, <1>3, <1>4, <1>5

\* What is defined from the first number to the n-th is a sequence.
LEMMA FunctionIsSeq ==
  ASSUME NEW S, NEW n \in Nat, NEW f \in [1..n -> S]
  PROVE  f \in Seq(S) /\ Len(f) = n
<1>1. f \in Seq(S)
  BY SeqDef
<1>2. Len(f) \in Nat /\ DOMAIN f = 1..Len(f) /\ DOMAIN f = 1..n
  BY <1>1, LenProperties
<1>3. n <= Len(f) /\ Len(f) <= n
  <2>1. n > 0 => n \in 1..Len(f)
    BY <1>2
  <2>2. Len(f) > 0 => Len(f) \in 1..n
    BY <1>2
  <2> QED
    BY <1>2, <2>1, <2>2
<1> QED
  BY <1>1, <1>2, <1>3

\* The batches of a reply: a call of each position, none in two.
LEMMA BatchesOfReply ==
  ASSUME TypeOK, Counted, NEW m \in 1..Len(s.messages)
  PROVE  LET batches == BatchesOf(m)
         IN  /\ batches \in Seq(Seq(CallId))
             /\ UNION {ElementsOf(batches[b]) : b \in 1..Len(batches)} = Uses(s, m)
             /\ \A a, b \in 1..Len(batches) :
                  a # b => ElementsOf(batches[a]) \cap ElementsOf(batches[b]) = {}
             /\ \A b \in 1..Len(batches) : Together(ElementsOf(batches[b]))
<1> DEFINE safe == s.messages[m].uses
           plan == PlanBatches(safe)
           batches == BatchesOf(m)
<1>1. s.messages \in Seq(Message) /\ safe \in Seq(BOOLEAN) /\ Len(safe) \in Nat
  <2>1. s.messages \in Seq(Message)
    BY DEF TypeOK, Session
  <2>2. s.messages[m] \in Message
    BY <2>1, ElementOfSeq
  <2> QED
    BY <2>1, <2>2, LenProperties DEF Message
<1>2. Laid(plan, safe, Len(safe))
  BY <1>1, PlanIsLaid
<1> HIDE DEF plan
<1>3. /\ plan \in Seq(Seq(Nat)) /\ Len(plan) \in Nat
      /\ \A b \in 1..Len(plan) : plan[b] \in Seq(Nat) /\ Len(plan[b]) \in Nat /\ IsBatch(plan[b], safe)
      /\ \A b \in 1..Len(plan) : \A j \in 1..Len(plan[b]) : plan[b][j] \in 1..Len(safe)
      /\ \A k \in 1..Len(safe) : \E b \in 1..Len(plan) : \E j \in 1..Len(plan[b]) : plan[b][j] = k
      /\ \A a, b \in 1..Len(plan) : a # b =>
           \A i \in 1..Len(plan[a]), j \in 1..Len(plan[b]) : plan[a][i] # plan[b][j]
  <2>1. plan \in Seq(Seq(Nat))
    BY <1>2 DEF Laid
  <2>2. Len(plan) \in Nat /\ \A b \in 1..Len(plan) : plan[b] \in Seq(Nat)
    BY <2>1, LenProperties, ElementOfSeq
  <2> QED
    BY <2>1, <2>2, <1>2, LenProperties DEF Laid
<1>4. batches = [b \in 1..Len(plan) |-> [j \in 1..Len(plan[b]) |-> <<m, plan[b][j]>>]]
  BY DEF BatchesOf, plan
<1> HIDE DEF batches, safe
<1>5. \A i \in 1..Len(safe) : <<m, i>> \in CallId /\ <<m, i>> \in Uses(s, m)
  <2>1. \A i \in 1..Len(safe) : <<m, i>> \in Uses(s, m)
    BY DEF Uses, safe
  <2>2. Uses(s, m) \subseteq Asked(s)
    BY DEF Asked
  <2> QED
    BY <2>1, <2>2, AskedBound
<1>6. ASSUME NEW b \in 1..Len(plan)
      PROVE  /\ batches[b] = [j \in 1..Len(plan[b]) |-> <<m, plan[b][j]>>]
             /\ batches[b] \in Seq(CallId) /\ Len(batches[b]) = Len(plan[b])
             /\ \A c : c \in ElementsOf(batches[b]) <=> \E j \in 1..Len(plan[b]) : c = <<m, plan[b][j]>>
  <2>1. batches[b] = [j \in 1..Len(plan[b]) |-> <<m, plan[b][j]>>]
    BY <1>4
  <2>2. batches[b] \in [1..Len(plan[b]) -> CallId]
    BY <2>1, <1>3, <1>5
  <2>3. batches[b] \in Seq(CallId) /\ Len(batches[b]) = Len(plan[b])
    BY <2>2, <1>3, FunctionIsSeq
  <2> QED
    BY <2>1, <2>3 DEF ElementsOf
<1>7. batches \in Seq(Seq(CallId)) /\ Len(batches) = Len(plan)
  <2>1. batches \in [1..Len(plan) -> Seq(CallId)]
    BY <1>4, <1>6
  <2> QED
    BY <2>1, <1>3, FunctionIsSeq
<1>8. UNION {ElementsOf(batches[b]) : b \in 1..Len(batches)} = Uses(s, m)
  <2>1. ASSUME NEW b \in 1..Len(batches), NEW c \in ElementsOf(batches[b]) PROVE c \in Uses(s, m)
    <3>1. b \in 1..Len(plan)
      BY <1>7
    <3>2. PICK j \in 1..Len(plan[b]) : c = <<m, plan[b][j]>>
      BY <3>1, <1>6
    <3> QED
      BY <3>1, <3>2, <1>3, <1>5
  <2>2. ASSUME NEW c \in Uses(s, m)
        PROVE  \E b \in 1..Len(batches) : c \in ElementsOf(batches[b])
    <3>1. PICK k \in 1..Len(safe) : c = <<m, k>>
      BY DEF Uses, safe
    <3>2. PICK b \in 1..Len(plan) : \E j \in 1..Len(plan[b]) : plan[b][j] = k
      BY <1>3
    <3>3. PICK j \in 1..Len(plan[b]) : plan[b][j] = k
      BY <3>2
    <3>4. c \in ElementsOf(batches[b])
      BY <3>1, <3>3, <1>6
    <3> QED
      BY <3>4, <1>7
  <2> QED
    BY <2>1, <2>2
<1>9. ASSUME NEW a \in 1..Len(batches), NEW b \in 1..Len(batches), a # b
      PROVE  ElementsOf(batches[a]) \cap ElementsOf(batches[b]) = {}
  <2> SUFFICES ASSUME NEW c \in ElementsOf(batches[a]), c \in ElementsOf(batches[b]) PROVE FALSE
    OBVIOUS
  <2>0. a \in 1..Len(plan) /\ b \in 1..Len(plan)
    BY <1>7
  <2>1. PICK i \in 1..Len(plan[a]) : c = <<m, plan[a][i]>>
    BY <2>0, <1>6
  <2>2. PICK j \in 1..Len(plan[b]) : c = <<m, plan[b][j]>>
    BY <2>0, <1>6
  <2>3. plan[a][i] = plan[b][j]
    BY <2>1, <2>2
  <2> QED
    BY <2>0, <2>3, <1>3, <1>9
<1>10. ASSUME NEW b \in 1..Len(batches) PROVE Together(ElementsOf(batches[b]))
  <2> SUFFICES ASSUME NEW x \in ElementsOf(batches[b]), NEW y \in ElementsOf(batches[b]), x # y
               PROVE  s.messages[x[1]].uses[x[2]]
    BY DEF Together
  <2>0. b \in 1..Len(plan)
    BY <1>7
  <2>1. PICK i \in 1..Len(plan[b]) : x = <<m, plan[b][i]>>
    BY <2>0, <1>6
  <2>2. PICK j \in 1..Len(plan[b]) : y = <<m, plan[b][j]>>
    BY <2>0, <1>6
  <2>3. i # j
    BY <2>1, <2>2
  <2>4. Len(plan[b]) > 1
    BY <2>3, <1>3, <1>7
  <2>5. safe[plan[b][i]]
    BY <2>4, <1>3, <1>7 DEF IsBatch
  <2> QED
    BY <2>1, <2>5 DEF safe
<1> QED
  BY <1>7, <1>8, <1>9, <1>10 DEF batches

\* The last reply, which the recovery looks at.
LEMMA LastReplyFound ==
  ASSUME TypeOK
  PROVE  /\ LastReply \in 0..Len(s.messages)
         /\ LastReply > 0 => s.messages[LastReply].role = "assistant"
         /\ \A k \in LastReply + 1..Len(s.messages) : s.messages[k].role = "user"
<1> DEFINE N == Len(s.messages)
           Place(m) == /\ m > 0 => s.messages[m].role = "assistant"
                       /\ \A k \in m + 1..N : s.messages[k].role = "user"
           P == {m \in 0..N : \A k \in m + 1..N : s.messages[k].role = "user"}
<1>1. s.messages \in Seq(Message)
  BY DEF TypeOK, Session
<1>2. N \in Nat /\ \A m \in 1..N : s.messages[m].role \in {"user", "assistant"}
  <2>1. N \in Nat /\ \A m \in 1..N : s.messages[m] \in Message
    BY <1>1, LenProperties, ElementOfSeq
  <2> QED
    BY <2>1 DEF Message
<1>3. N \in P
  BY <1>2
<1> HIDE DEF P
<1>4. PICK m \in 0..N : m \in P /\ (m > 0 => m - 1 \notin P)
  BY <1>2, <1>3, Downto
<1>5. Place(m)
  BY <1>2, <1>4 DEF P
<1>6. LastReply = CHOOSE k \in 0..N : Place(k)
  BY DEF LastReply
<1>7. LastReply \in 0..N /\ Place(LastReply)
  BY <1>5, <1>6
<1> QED
  BY <1>7

\* The types of everything beside the session.
Beside == /\ d \in Driving
          /\ DOMAIN calls \subseteq CallId /\ calls \in [DOMAIN calls -> Stages]
          /\ bodies \subseteq CallId /\ aborted \in BOOLEAN /\ steer \in BOOLEAN
          /\ unsent \subseteq Nat

\* The type invariant, part by part.
LEMMA TypeParts == TypeOK <=> s \in Session /\ Beside /\ d.reply <= Len(s.messages)
  BY DEF TypeOK, Beside

\* The same of the next state.
LEMMA TypeParts2 == TypeOK' <=> s' \in Session /\ Beside' /\ d'.reply <= Len(s'.messages)
  BY DEF TypeOK, Beside

\* The calls that wait are those of the first batch and those of the others.
LEMMA FirstBatch ==
  ASSUME d.batches \in Seq(Seq(CallId)), d.batches # <<>>
  PROVE  /\ Head(d.batches) = d.batches[1] /\ Tail(d.batches) \in Seq(Seq(CallId))
         /\ Len(d.batches) \in Nat \ {0} /\ Len(Tail(d.batches)) = Len(d.batches) - 1
         /\ \A b \in 1..Len(d.batches) - 1 : Tail(d.batches)[b] = d.batches[b + 1]
         /\ ElementsOf(Head(d.batches)) \subseteq CallId
<1>1. Len(d.batches) \in Nat \ {0} /\ Head(d.batches) = d.batches[1]
  BY EmptySeq
<1>2. d.batches[1] \in Seq(CallId)
  BY <1>1, ElementOfSeq
<1>3. \A k \in 1..Len(d.batches[1]) : d.batches[1][k] \in CallId
  BY <1>2, ElementOfSeq
<1>4. ElementsOf(Head(d.batches)) \subseteq CallId
  BY <1>1, <1>3 DEF ElementsOf
<1>5. /\ Tail(d.batches) \in Seq(Seq(CallId)) /\ Len(Tail(d.batches)) = Len(d.batches) - 1
      /\ \A b \in 1..Len(d.batches) - 1 : Tail(d.batches)[b] = d.batches[b + 1]
  BY <1>1, HeadTailProperties
<1> QED
  BY <1>1, <1>4, <1>5

\* A call that is taken further.
LEMMA Advances ==
  ASSUME Beside, NEW c \in DOMAIN calls, NEW stage \in Stages, Advance(c, stage)
  PROVE  DOMAIN calls' = DOMAIN calls /\ calls' \in [DOMAIN calls' -> Stages]
  BY DEF Beside, Advance

\* The driver by itself.
LEMMA DriverTypes ==
  ASSUME TypeOK, Counted,
         \/ Top \/ RequestReady \/ RequestFails \/ StreamEnds \/ RecordInterrupted \/ RecordError
         \/ StepError \/ StoppingAfterStream \/ DispatchBatch \/ AfterTools \/ TurnEnds
  PROVE  Beside'
<1> USE DEF Beside
<1>1. Beside /\ Len(s.messages) \in Nat /\ d.reason \in Reasons
  BY TypeParts, LenProperties DEF TypeOK, Session, Driving
<1>2. CASE Top
  BY <1>1, <1>2, DrivingMoves DEF Top, Stop, Goto, Pcs, Reasons
<1>3. CASE RequestReady \/ RequestFails \/ RecordError
  BY <1>1, <1>3, DrivingMoves DEF RequestReady, RequestFails, RecordError, Goto, Pcs, Reasons
<1>4. CASE StreamEnds
  <2>1. d' \in Driving
    <3>1. PICK how \in {"end_turn", "max_tokens", "error"} :
             d' = [d EXCEPT !.reply = Len(s.messages) + 1,
                            !.reason = IF aborted THEN "aborted" ELSE how,
                            !.pc = IF aborted THEN "interrupted"
                                   ELSE IF how = "error" THEN "failed" ELSE "stopping"]
      BY <1>4 DEF StreamEnds
    <3>2. ASSUME NEW m \in Nat, NEW reason \in Reasons, NEW pc \in Pcs
          PROVE  [d EXCEPT !.reply = m, !.reason = reason, !.pc = pc] \in Driving
      BY <1>1 DEF Driving
    <3> DEFINE r == IF aborted THEN "aborted" ELSE how
               p == IF aborted THEN "interrupted" ELSE IF how = "error" THEN "failed" ELSE "stopping"
    <3>3. r \in Reasons /\ p \in Pcs /\ Len(s.messages) + 1 \in Nat
      BY <1>1 DEF Reasons, Pcs
    <3>4. d' = [d EXCEPT !.reply = Len(s.messages) + 1, !.reason = r, !.pc = p]
      BY <3>1
    <3> HIDE DEF r, p
    <3> QED
      BY <3>2, <3>3, <3>4
  <2>2. unsent' \subseteq Nat
    BY <1>1, <1>4 DEF StreamEnds
  <2> QED
    BY <1>1, <1>4, <2>1, <2>2 DEF StreamEnds
<1>5. CASE RecordInterrupted \/ StepError
  BY <1>1, <1>5, DrivingMoves DEF RecordInterrupted, StepError, Stop, Goto, Throw, Pcs, Reasons
<1>6. CASE StoppingAfterStream
  <2>1. unsent' \subseteq Nat
    BY <1>1, <1>6 DEF StoppingAfterStream, Driving
  <2>2. CASE d' = [d EXCEPT !.pc = "dispatch", !.batch = {}, !.batches = BatchesOf(d.reply)]
             /\ ReplyUses # <<>>
    <3>1. d.reply \in 1..Len(s.messages)
      BY <1>1, <2>2 DEF ReplyUses, TypeOK, Driving
    <3>2. BatchesOf(d.reply) \in Seq(Seq(CallId))
      BY <3>1, BatchesOfReply
    <3>3. d' \in Driving
      BY <1>1, <2>2, <3>2 DEF Driving, Pcs
    <3> QED
      BY <1>1, <1>6, <2>1, <3>3 DEF StoppingAfterStream
  <2>3. CASE Stop("aborted") \/ Goto("ending") \/ d' = [d EXCEPT !.pc = "top", !.continued = TRUE]
    <3>1. d' \in Driving
      BY <1>1, <2>3, DrivingMoves DEF Stop, Goto, Pcs, Reasons
    <3> QED
      BY <1>1, <1>6, <2>1, <3>1 DEF StoppingAfterStream
  <2> QED
    BY <1>6, <2>2, <2>3 DEF StoppingAfterStream
<1>7. CASE DispatchBatch
  <2>1. ElementsOf(Head(d.batches)) \subseteq CallId /\ Tail(d.batches) \in Seq(Seq(CallId))
    BY <1>1, <1>7, FirstBatch DEF DispatchBatch, Driving
  <2>2. d' \in Driving
    BY <1>1, <1>7, <2>1 DEF DispatchBatch, Judge, Driving
  <2>3. DOMAIN calls' \subseteq CallId /\ calls' \in [DOMAIN calls' -> Stages]
    BY <1>1, <1>7, <2>1 DEF DispatchBatch, Judge, Stages
  <2> QED
    BY <1>1, <1>7, <2>2, <2>3 DEF DispatchBatch
<1>8. CASE AfterTools
  BY <1>1, <1>8, DrivingMoves DEF AfterTools, Stop, Goto, Pcs, Reasons
<1>9. CASE TurnEnds
  BY <1>1, <1>9, DrivingMoves DEF TurnEnds, Pcs
<1> QED
  BY <1>2, <1>3, <1>4, <1>5, <1>6, <1>7, <1>8, <1>9

\* The calls and what is around the driver.
LEMMA OtherTypes ==
  ASSUME TypeOK, Counted,
         \/ StartTurn \/ SynthMessage \/ SynthDone \/ StopButton \/ Steer \/ Inject
         \/ Crash \/ Restart \/ \E resume \in BOOLEAN : Settle(resume)
         \/ \E c \in DOMAIN calls : CallStep(c) \/ EndRejects(c)
         \/ \E c : SynthCall(c) \/ BodyEnds(c)
  PROVE  Beside'
<1> USE DEF Beside
<1>1. Beside /\ s \in Session /\ d.reason \in Reasons
  BY TypeParts DEF TypeOK, Driving
<1>2. CASE StartTurn
  BY <1>1, <1>2, DrivingMoves DEF StartTurn, Pcs
<1>3. CASE SynthMessage \/ SynthDone
  BY <1>1, <1>3, DrivingMoves DEF SynthMessage, SynthDone, Goto, Stop, Pcs, Reasons
<1>4. CASE StopButton \/ Steer \/ Inject
  BY <1>1, <1>4 DEF StopButton, Steer, Inject
<1>5. CASE Crash
  BY <1>1, <1>5, DrivingMoves DEF Crash, NoCalls, Pcs
<1>6. CASE Restart
  BY <1>1, <1>6, DrivingMoves DEF Restart, Goto, Pcs
<1>7. ASSUME NEW resume \in BOOLEAN, Settle(resume) PROVE Beside'
  <2>1. Dangling \subseteq CallId
    <3>1. LastReply > 0 => LastReply \in 1..Len(s.messages)
      BY LastReplyFound
    <3>2. LastReply > 0 => Uses(s, LastReply) \subseteq Asked(s)
      BY <3>1 DEF Asked
    <3>3. LastReply # 0 => LastReply > 0
      BY LastReplyFound
    <3> QED
      BY <3>2, <3>3, AskedBound DEF Dangling
  <2>2. Interruption \in [message : BOOLEAN, running : SUBSET CallId, dangling : SUBSET CallId]
    BY <1>1, <2>1 DEF Interruption, Session
  <2>3. d' \in Driving
    BY <1>1, <1>7, <2>2 DEF Settle, Driving, Pcs
  <2> QED
    BY <1>1, <1>7, <2>3 DEF Settle
<1>8. ASSUME NEW c \in DOMAIN calls, CallStep(c) \/ EndRejects(c) PROVE Beside'
  <2>1. \E stage \in Stages : Advance(c, stage)
    BY <1>8 DEF CallStep, CallAllowed, ToolStarts, CallEnds, CallFails, EndRejects, Stages
  <2>2. DOMAIN calls' = DOMAIN calls /\ calls' \in [DOMAIN calls' -> Stages]
    BY <1>1, <2>1, Advances
  <2>3. d' \in Driving
    BY <1>1, <1>8, DrivingMoves
       DEF CallStep, CallAllowed, ToolStarts, CallEnds, CallFails, EndRejects, Throw, Pcs
  <2>4. bodies' \subseteq CallId /\ aborted' = aborted /\ steer' = steer /\ unsent' = unsent
    BY <1>1, <1>8 DEF CallStep, CallAllowed, ToolStarts, CallEnds, CallFails, EndRejects
  <2> QED
    BY <1>1, <2>2, <2>3, <2>4
<1>9. ASSUME NEW c, SynthCall(c) PROVE Beside'
  <2>1. d.pc \in Pcs
    BY <1>1 DEF Driving
  <2>2. d' = [d EXCEPT !.synth.running = @ \ {c}] \/ d' = [d EXCEPT !.synth.dangling = @ \ {c}]
    BY <1>9 DEF SynthCall
  <2>3. d' \in Driving
    BY <1>1, <2>1, <2>2, DrivingMoves
  <2> QED
    BY <1>1, <1>9, <2>3 DEF SynthCall
<1>10. ASSUME NEW c, BodyEnds(c) PROVE Beside'
  <2>1. CASE c \in DOMAIN calls /\ Advance(c, "returned")
    <3>1. DOMAIN calls' = DOMAIN calls /\ calls' \in [DOMAIN calls' -> Stages]
      BY <1>1, <2>1, Advances DEF Stages
    <3> QED
      BY <1>1, <1>10, <3>1 DEF BodyEnds
  <2>2. CASE UNCHANGED calls
    BY <1>1, <1>10, <2>2 DEF BodyEnds
  <2> QED
    BY <1>10, <2>1, <2>2 DEF BodyEnds
<1> QED
  BY <1>2, <1>3, <1>4, <1>5, <1>6, <1>7, <1>8, <1>9, <1>10

\* Well-typed, within the bounds, and every call answered at most once.
Whole == TypeOK /\ Counted /\ AnsweredOnce

\* Steps that leave the messages alone, and spend nothing on any.
LEMMA WholeSame ==
  ASSUME Whole, Beside', s' \in Session, s'.messages = s.messages, d'.reply \in {d.reply, 0},
         used' \in Spent, used'.turns = used.turns, used'.replies = used.replies,
         used'.injections = used.injections
  PROVE  Whole'
<1>1. Room(s, used) /\ Asks(s) /\ d.reply <= Len(s.messages) /\ Len(s.messages) \in Nat
  BY CountedParts, LenProperties DEF Whole, TypeOK, Session
<1>2. Room(s', used') /\ Asks(s')
  BY <1>1 DEF Room, Asks, LastIsUser
<1>3. d'.reply <= Len(s'.messages)
  BY <1>1
<1> QED
  BY <1>2, <1>3, TypeParts2, CountedParts2, SameHistory DEF Whole

\* What the steps do to the session that neither start nor end a message nor
\* answer a call.
LEMMA SessionKeeps ==
  ASSUME s \in Session,
         \/ s' \in {s, MessageStarted(s), MessageInterrupted(s), TurnEnded(s)}
         \/ \E c \in CallId : s' = ToolStarted(s, c)
  PROVE  s' \in Session /\ s'.messages = s.messages
<1>1. s.running \subseteq CallId /\ {} \subseteq CallId /\ 0 \in 0..MaxTurns
  BY TurnAssumption DEF Session
<1>2. CASE s' \in {MessageStarted(s), MessageInterrupted(s)}
  BY <1>1, <1>2 DEF Session, MessageStarted, MessageInterrupted
<1>3. CASE s' = TurnEnded(s)
  BY <1>1, <1>3 DEF Session, TurnEnded
<1>4. ASSUME NEW c \in CallId, s' = ToolStarted(s, c)
      PROVE  s' \in Session /\ s'.messages = s.messages
  BY <1>1, <1>4 DEF Session, ToolStarted
<1> QED
  BY <1>2, <1>3, <1>4

\* A text behind the others.
LEMMA WholeText ==
  ASSUME Whole, Beside', s' \in Session, Extended(<<>>), UsersTurn, AnsweredOnce',
         d'.reply \in {d.reply, 0}, used' \in Spent,
         \/ /\ used'.turns = used.turns /\ used'.injections = used.injections
            /\ Len(s'.messages) = Len(s.messages) \/ ~(LastIsUser(s) \/ s.messages = <<>>)
         \/ used'.turns + used'.injections = used.turns + used.injections + 1,
         used'.replies = used.replies
  PROVE  Whole'
<1>1. Room(s, used) /\ Asks(s) /\ used \in Spent /\ d.reply <= Len(s.messages)
  BY CountedParts DEF Whole, TypeOK
<1>2. s \in Session /\ s.messages \in Seq(Message) /\ Len(s.messages) \in Nat /\ d.reply \in Nat
  BY LenProperties DEF Whole, TypeOK, Session, Driving
<1>3. Len(<<>>) <= MaxCallsPer
  BY EmptySeq, TurnAssumption
<1>4. Asks(s')
  BY <1>1, <1>2, <1>3, AsksStep
<1>5. Len(s'.messages) \in {Len(s.messages), Len(s.messages) + 1} /\ s'.messages # <<>>
  BY <1>2, EmptySeq DEF Extended
<1>6. Room(s', used')
  <2>1. LastIsUser(s') /\ (Len(s'.messages) = Len(s.messages) => LastIsUser(s))
    BY DEF UsersTurn
  <2>2. s.messages = <<>> => Len(s.messages) = 0
    BY EmptySeq
  <2>3. /\ used'.turns \in Nat /\ used'.replies \in Nat /\ used'.injections \in Nat
        /\ used.turns \in Nat /\ used.replies \in Nat /\ used.injections \in Nat
    BY <1>1 DEF Spent
  <2> DEFINE old == used.turns + 2 * used.replies + used.injections
             new == used'.turns + 2 * used'.replies + used'.injections
             open == IF LastIsUser(s) \/ s.messages = <<>> THEN 0 ELSE 1
  <2>4. Len(s.messages) + open <= old
    BY <1>1 DEF Room
  <2>5. /\ open \in {0, 1} /\ old \in Nat /\ new \in Nat
        /\ (new = old /\ (Len(s'.messages) = Len(s.messages) \/ open = 1)) \/ new = old + 1
    <3>1. open \in {0, 1} /\ (~(LastIsUser(s) \/ s.messages = <<>>) => open = 1)
      OBVIOUS
    <3> HIDE DEF open
    <3>0. old \in Nat /\ new \in Nat
      <4>1. \A a, b, c \in Nat : a + 2 * b + c \in Nat
        OBVIOUS
      <4> QED
        BY <2>3, <4>1
    <3>2. CASE /\ used'.turns = used.turns /\ used'.injections = used.injections
               /\ Len(s'.messages) = Len(s.messages) \/ ~(LastIsUser(s) \/ s.messages = <<>>)
      <4>1. new = old
        BY <2>3, <3>2
      <4>2. Len(s'.messages) = Len(s.messages) \/ open = 1
        BY <3>1, <3>2
      <4> HIDE DEF old, new
      <4> QED
        BY <3>0, <3>1, <4>1, <4>2
    <3>3. CASE used'.turns + used'.injections = used.turns + used.injections + 1
      <4>1. new = old + 1
        BY <2>3, <3>3
      <4> HIDE DEF old, new
      <4> QED
        BY <3>0, <3>1, <4>1
    <3> QED
      BY <3>2, <3>3
  <2> HIDE DEF old, new, open
  <2>6. Len(s'.messages) <= new
    BY <2>4, <2>5, <1>2, <1>5
  <2>7. Room(s', used') <=> Len(s'.messages) + 0 <= new
    BY <2>1 DEF Room, new
  <2> QED
    BY <2>6, <2>7, <1>2, <1>5
<1>7. d'.reply <= Len(s'.messages)
  BY <1>1, <1>2, <1>5
<1> QED
  BY <1>4, <1>6, <1>7, TypeParts2, CountedParts2 DEF Whole

\* Types, bounds and single answers through every step.
LEMMA WholeStep ==
  ASSUME Whole, Owed, Next
  PROVE  Whole'
<1>1. /\ TypeOK /\ Counted /\ s \in Session /\ used \in Spent /\ d \in Driving
      /\ d.reply \in Nat /\ d.reply <= Len(s.messages)
  BY CountedParts DEF Whole, TypeOK, Driving
<1>2. /\ used.turns \in 0..MaxTurns /\ used.replies \in 0..MaxReplies
      /\ used.injections \in 0..MaxInjections /\ used.crashes \in 0..MaxCrashes
      /\ used.stops \in 0..MaxStops /\ used.rejections \in 0..MaxRejections
  BY <1>1 DEF Spent
<1>3. s.messages \in Seq(Message) /\ Len(s.messages) \in Nat
  BY <1>1, LenProperties DEF Session
<1>4. /\ Asked(s) \subseteq CallId /\ DOMAIN calls \subseteq Asked(s) /\ Active \cup Repairing \subseteq Owing
      /\ bodies \subseteq Asked(s)
  BY <1>1, AskedBound DEF Owed
<1>5. CASE \/ Top \/ RequestReady \/ RequestFails \/ RecordInterrupted \/ RecordError \/ StepError
           \/ StoppingAfterStream \/ DispatchBatch \/ AfterTools \/ TurnEnds
  <2>1. Beside'
    BY <1>1, <1>5, DriverTypes
  <2>2. s' \in {s, MessageStarted(s), MessageInterrupted(s), TurnEnded(s)} /\ used' = used
    BY <1>5 DEF Top, RequestReady, RequestFails, RecordInterrupted, RecordError, StepError,
                StoppingAfterStream, DispatchBatch, AfterTools, TurnEnds
  <2>3. d'.reply \in {d.reply, 0}
    BY <1>1, <1>5 DEF Top, RequestReady, RequestFails, RecordInterrupted, RecordError, StepError,
         StoppingAfterStream, DispatchBatch, AfterTools, TurnEnds, Goto, Stop, Throw, Judge, Idle, Driving
  <2>4. s' \in Session /\ s'.messages = s.messages
    BY <1>1, <2>2, SessionKeeps
  <2> QED
    BY <1>1, <2>1, <2>2, <2>3, <2>4, WholeSame
<1>6. CASE \/ SynthMessage \/ SynthDone \/ StopButton \/ Steer \/ Crash \/ Restart
           \/ \E resume \in BOOLEAN : Settle(resume)
           \/ \E c \in DOMAIN calls : CallAllowed(c) \/ ToolStarts(c) \/ EndRejects(c)
           \/ \E c \in bodies : BodyEnds(c)
  <2>1. Beside'
    BY <1>1, <1>6, OtherTypes DEF CallStep
  <2>2. \/ s' \in {s, MessageInterrupted(s)}
        \/ \E c \in CallId : s' = ToolStarted(s, c)
    BY <1>4, <1>6 DEF SynthMessage, SynthDone, StopButton, Steer, Crash, Restart, Settle, CallAllowed,
         ToolStarts, EndRejects, BodyEnds
  <2>3. d'.reply \in {d.reply, 0}
    BY <1>1, <1>6 DEF SynthMessage, SynthDone, StopButton, Steer, Crash, Restart, Settle, CallAllowed,
         ToolStarts, EndRejects, BodyEnds, Goto, Stop, Throw, Idle, Driving
  <2>4. s' \in Session /\ s'.messages = s.messages
    BY <1>1, <2>2, SessionKeeps
  <2>5. /\ used' \in Spent /\ used'.turns = used.turns /\ used'.replies = used.replies
        /\ used'.injections = used.injections
    <3>1. CASE StopButton
      BY <1>1, <3>1, Spending DEF StopButton
    <3>2. CASE Crash
      BY <1>1, <3>2, Spending DEF Crash
    <3>3. ASSUME NEW c, EndRejects(c)
          PROVE  /\ used' \in Spent /\ used'.turns = used.turns /\ used'.replies = used.replies
                 /\ used'.injections = used.injections
      BY <1>1, <3>3, Spending DEF EndRejects
    <3>4. CASE used' = used
      BY <1>1, <3>4
    <3> QED
      BY <1>6, <3>1, <3>2, <3>3, <3>4 DEF SynthMessage, SynthDone, Steer, Restart, Settle, CallAllowed,
         ToolStarts, BodyEnds
  <2> QED
    BY <1>1, <2>1, <2>3, <2>4, <2>5, WholeSame
<1>7. CASE StartTurn
  <2>1. Beside' /\ d'.reply = 0
    BY <1>1, <1>7, OtherTypes DEF StartTurn, Idle
  <2>2. /\ used' \in Spent /\ used'.turns = used.turns + 1 /\ used'.replies = used.replies
        /\ used'.injections = used.injections
    BY <1>1, <1>7, Spending DEF StartTurn
  <2>3. Extended(<<>>) /\ UsersTurn /\ AnsweredOnce'
    BY <1>1, <1>7, TextEvent DEF StartTurn, Whole
  <2>4. s' \in Session
    <3>1. s'.messages \in Seq(Message) /\ used.turns + 1 \in 0..MaxTurns
      BY <1>2, <1>7, <2>3, TurnAssumption DEF Extended, StartTurn
    <3> QED
      BY <1>1, <1>7, <3>1 DEF StartTurn, TurnStarted, Session
  <2>5. used'.turns + used'.injections = used.turns + used.injections + 1
    BY <1>2, <2>2
  <2> QED
    BY <1>1, <2>1, <2>2, <2>3, <2>4, <2>5, WholeText
<1>8. CASE Inject
  <2>1. Beside' /\ d'.reply = d.reply
    BY <1>1, <1>8, OtherTypes DEF Inject
  <2>2. /\ used' \in Spent /\ used'.turns = used.turns /\ used'.replies = used.replies
        /\ used'.injections = used.injections + 1
    BY <1>1, <1>8, Spending DEF Inject
  <2>3. Extended(<<>>) /\ UsersTurn /\ AnsweredOnce'
    BY <1>1, <1>8, TextEvent DEF Inject, Whole
  <2>4. s' \in Session
    <3>1. s'.messages \in Seq(Message)
      BY <2>3 DEF Extended
    <3> QED
      BY <1>1, <1>8, <3>1 DEF Inject, Injected, SetLast, Session
  <2>5. used'.turns + used'.injections = used.turns + used.injections + 1
    BY <1>2, <2>2
  <2> QED
    BY <1>1, <2>1, <2>2, <2>3, <2>4, <2>5, WholeText
<1>9. ASSUME NEW c \in Owing, NEW ok \in BOOLEAN, s' = ToolEnded(s, c, ok), used' = used,
             Beside', d'.reply = d.reply
      PROVE  Whole'
  <2>1. c \in CallId /\ c \notin Answered(s) /\ s.messages # <<>>
    BY <1>1, <1>3, <1>4, AskedBound, EmptySeq DEF Owing
  <2>2. /\ Extended(<<>>) /\ UsersTurn /\ AnsweredOnce'
        /\ (Len(s'.messages) = Len(s.messages)) <=> LastIsUser(s)
    BY <1>1, <1>9, <2>1, ResultEvent DEF Whole
  <2>3. s' \in Session
    <3>1. s'.messages \in Seq(Message)
      BY <2>2 DEF Extended
    <3> QED
      BY <1>1, <1>9, <3>1 DEF ToolEnded, SetLast, Session
  <2> QED
    BY <1>1, <1>9, <2>1, <2>2, <2>3, WholeText
<1>10. ASSUME NEW c \in DOMAIN calls, CallEnds(c) \/ CallFails(c)
       PROVE  Whole'
  <2>1. Beside'
    BY <1>1, <1>10, OtherTypes DEF CallStep
  <2>2. c \in Owing
    BY <1>4, <1>10 DEF CallEnds, CallFails, Active
  <2>3. \E ok \in BOOLEAN : s' = ToolEnded(s, c, ok) /\ used' = used /\ d' = d
    BY <1>10 DEF CallEnds, CallFails
  <2> QED
    BY <1>9, <2>1, <2>2, <2>3
<1>11. ASSUME NEW c, SynthCall(c) PROVE Whole'
  <2>1. Beside'
    BY <1>1, <1>11, OtherTypes
  <2>2. c \in Owing
    BY <1>4, <1>11 DEF SynthCall, Repairing
  <2>3. s' = ToolEnded(s, c, FALSE) /\ used' = used /\ d'.reply = d.reply
    BY <1>1, <1>11 DEF SynthCall, Driving
  <2> QED
    BY <1>9, <2>1, <2>2, <2>3
<1>12. CASE StreamEnds
  <2>1. Beside'
    BY <1>1, <1>12, DriverTypes
  <2>2. PICK n \in 0..MaxCallsPer : \E uses \in [1..n -> BOOLEAN] : s' = MessageEnded(s, uses)
    BY <1>12 DEF StreamEnds
  <2>3. PICK uses \in [1..n -> BOOLEAN] : s' = MessageEnded(s, uses)
    BY <2>2
  <2>4. uses \in Seq(BOOLEAN) /\ Len(uses) <= MaxCallsPer
    <3>1. n \in Nat /\ n <= MaxCallsPer
      BY TurnAssumption
    <3> QED
      BY <3>1, FunctionIsSeq
  <2>5. /\ Extended(uses) /\ Len(s'.messages) = Len(s.messages) + 1 /\ AnsweredOnce'
        /\ s'.messages[Len(s'.messages)].role = "assistant"
    BY <1>1, <2>3, <2>4, ReplyEvent DEF Whole
  <2>6. s' \in Session
    BY <1>1, <2>3, <2>5 DEF MessageEnded, Session, Extended
  <2>7. /\ used' \in Spent /\ used'.turns = used.turns /\ used'.replies = used.replies + 1
        /\ used'.injections = used.injections
    BY <1>1, <1>12, Spending DEF StreamEnds
  <2>8. d'.reply = Len(s'.messages)
    BY <1>1, <1>12, <2>5 DEF StreamEnds, Driving
  <2>9. ~UsersTurn
    BY <2>5 DEF UsersTurn, LastIsUser
  <2>10. Asks(s')
    BY <1>1, <2>4, <2>5, <2>9, AsksStep, CountedParts
  <2>11. Room(s', used')
    <3> DEFINE old == used.turns + 2 * used.replies + used.injections
               new == used'.turns + 2 * used'.replies + used'.injections
               open == IF LastIsUser(s) \/ s.messages = <<>> THEN 0 ELSE 1
               more == IF LastIsUser(s') \/ s'.messages = <<>> THEN 0 ELSE 1
    <3>1. Len(s.messages) + open <= old /\ open \in {0, 1} /\ more \in {0, 1}
      BY <1>1, CountedParts DEF Room
    <3>2. old \in Nat /\ new = old + 2
      <4>1. \A a, b, e \in Nat : a + 2 * b + e \in Nat /\ a + 2 * (b + 1) + e = (a + 2 * b + e) + 2
        OBVIOUS
      <4>2. used.turns \in Nat /\ used.replies \in Nat /\ used.injections \in Nat
        BY <1>2
      <4>3. new = used.turns + 2 * (used.replies + 1) + used.injections
        BY <2>7
      <4> QED
        BY <4>1, <4>2, <4>3
    <3>3. Room(s', used') <=> Len(s'.messages) + more <= new
      BY DEF Room
    <3> HIDE DEF old, new, open, more
    <3> QED
      BY <1>3, <2>5, <3>1, <3>2, <3>3
  <2>12. d'.reply <= Len(s'.messages)
    BY <1>3, <2>5, <2>8
  <2> QED
    BY <2>1, <2>5, <2>6, <2>7, <2>10, <2>11, <2>12, TypeParts2, CountedParts2 DEF Whole
<1> QED
  BY <1>5, <1>6, <1>7, <1>8, <1>10, <1>11, <1>12 DEF Next, Driver, World, CallStep

-----------------------------------------------------------------------------
(* Who owes an answer                                                      *)

\* Where the loop of the driver goes by itself.
Loop == \/ Top \/ RequestReady \/ RequestFails \/ RecordInterrupted \/ RecordError \/ StepError
        \/ StoppingAfterStream \/ AfterTools \/ TurnEnds \/ SynthDone

\* It leaves the history and the calls alone.
LEMMA LoopKeeps ==
  ASSUME Whole, Owed, Loop
  PROVE  /\ s' \in Session /\ s'.messages = s.messages /\ s'.running \in {s.running, {}}
         /\ calls' = calls /\ bodies' = bodies /\ used' = used
         /\ d'.synth = NoSynth /\ d'.pc \notin {"dead", "orphaned", "synth"}
         /\ d.synth = NoSynth /\ d.pc \notin {"dead", "orphaned"}
<1>1. s \in Session /\ d \in Driving
  BY DEF Whole, TypeOK
<1>2. s' \in {s, MessageStarted(s), MessageInterrupted(s), TurnEnded(s)}
  BY DEF Loop, Top, RequestReady, RequestFails, RecordInterrupted, RecordError, StepError,
         StoppingAfterStream, AfterTools, TurnEnds, SynthDone
<1>3. s' \in Session /\ s'.messages = s.messages
  BY <1>1, <1>2, SessionKeeps
<1>4. s'.running \in {s.running, {}}
  BY <1>1, <1>2 DEF MessageStarted, MessageInterrupted, TurnEnded, Session
<1>5. calls' = calls /\ bodies' = bodies /\ used' = used
  BY DEF Loop, Top, RequestReady, RequestFails, RecordInterrupted, RecordError, StepError,
         StoppingAfterStream, AfterTools, TurnEnds, SynthDone
<1>6. d.synth = NoSynth /\ d.pc \notin {"dead", "orphaned"}
  BY DEF Owed, Loop, Top, RequestReady, RequestFails, RecordInterrupted, RecordError, StepError,
         StoppingAfterStream, AfterTools, TurnEnds, SynthDone, At
<1>7. d'.synth = NoSynth /\ d'.pc \notin {"dead", "orphaned", "synth"}
  BY <1>1, <1>6 DEF Loop, Top, RequestReady, RequestFails, RecordInterrupted, RecordError, StepError,
         StoppingAfterStream, AfterTools, TurnEnds, SynthDone, Goto, Stop, Throw, Driving, Idle
<1> QED
  BY <1>3, <1>4, <1>5, <1>6, <1>7

\* What is owed stays owed, as long as no message comes and no call is answered.
LEMMA OwedSame ==
  ASSUME Owed, s'.messages = s.messages, s'.running \subseteq s.running,
         DOMAIN calls' = DOMAIN calls, bodies' \subseteq bodies,
         \A c \in DOMAIN calls : calls'[c] = calls[c] \/ (calls'[c] \notin {"judging", "starting"} /\ calls[c] # "done"),
         d'.synth.running = d.synth.running, d'.synth.dangling = d.synth.dangling,
         d'.pc = "synth" \/ d'.synth = NoSynth,
         d'.pc \in {"dead", "orphaned", "synth"} => d.pc \in {"dead", "orphaned", "synth"}
  PROVE  Owed'
<1>1. Asked(s') = Asked(s) /\ Answered(s') = Answered(s)
  BY SameHistory
<1>2. Owing' = Owing /\ Repairing' = Repairing
  BY <1>1 DEF Owing, Repairing
<1>3. Active' \subseteq Active
  BY DEF Active
<1>4. ASSUME NEW c \in Active', calls'[c] \in {"judging", "starting"} PROVE c \notin s'.running
  BY <1>4, <1>3 DEF Owed, Active
<1>5. DOMAIN calls' \cup bodies' \cup Answered(s') \subseteq Asked(s')
  BY <1>1 DEF Owed
<1>6. Active' \cup s'.running \cup Repairing' \subseteq Owing'
  BY <1>2, <1>3 DEF Owed
<1>7. /\ d'.synth.running \cap d'.synth.dangling = {}
      /\ d'.pc \in {"dead", "orphaned", "synth"} => DOMAIN calls' = {} /\ bodies' = {}
  BY DEF Owed
<1> QED
  BY <1>4, <1>5, <1>6, <1>7 DEF Owed, At

\* A call that is answered is over: it neither runs nor waits for the recovery.
LEMMA OwedAnswer ==
  ASSUME Whole, Owed, NEW c \in Owing, NEW ok \in BOOLEAN, s' = ToolEnded(s, c, ok),
         DOMAIN calls' = DOMAIN calls, bodies' = bodies,
         c \in DOMAIN calls => calls'[c] = "done",
         \A b \in DOMAIN calls : b # c => calls'[b] = calls[b],
         d'.synth.running = d.synth.running \ {c}, d'.synth.dangling = d.synth.dangling \ {c},
         d'.pc = d.pc, d'.pc = "synth" \/ d'.synth = NoSynth
  PROVE  Owed'
<1>1. TypeOK /\ Counted /\ s \in Session
  BY DEF Whole, TypeOK
<1>2. c \in CallId /\ c \notin Answered(s) /\ c \in Asked(s)
  BY <1>1, AskedBound DEF Owing
<1>3. Asked(s') = Asked(s) /\ Answered(s') = Answered(s) \cup {c}
  BY <1>1, <1>2, ResultEvent
<1>4. s'.running = s.running \ {c}
  BY <1>1 DEF ToolEnded, SetLast, Session
<1>5. Owing' = Owing \ {c} /\ Repairing' = Repairing \ {c}
  BY <1>3 DEF Owing, Repairing
<1>6. Active' \subseteq Active \ {c}
  BY DEF Active
<1>7. ASSUME NEW b \in Active', calls'[b] \in {"judging", "starting"} PROVE b \notin s'.running
  BY <1>4, <1>6, <1>7 DEF Owed, Active
<1>8. DOMAIN calls' \cup bodies' \cup Answered(s') \subseteq Asked(s')
  BY <1>2, <1>3 DEF Owed
<1>9. Active' \cup s'.running \cup Repairing' \subseteq Owing'
  BY <1>4, <1>5, <1>6 DEF Owed
<1>10. /\ d'.synth.running \cap d'.synth.dangling = {}
       /\ d'.pc \in {"dead", "orphaned", "synth"} => DOMAIN calls' = {} /\ bodies' = {}
  BY DEF Owed
<1> QED
  BY <1>7, <1>8, <1>9, <1>10 DEF Owed, At

\* More may be asked for.
LEMMA OwedMore ==
  ASSUME Owed, Asked(s) \subseteq Asked(s'), Answered(s') = Answered(s), s'.running = s.running,
         calls' = calls, bodies' = bodies, d'.synth = d.synth,
         d'.pc = d.pc \/ (d.pc \notin {"dead", "orphaned", "synth"} /\ d'.pc \notin {"dead", "orphaned", "synth"})
  PROVE  Owed'
  BY DEF Owed, Active, Owing, Repairing, At

\* The calls of the next batch.
LEMMA Judged ==
  ASSUME Whole, Owed, Planned, DispatchBatch
  PROVE  /\ d.batches # <<>> /\ d.batches \in Seq(Seq(CallId)) /\ d.pc = "dispatch"
         /\ DOMAIN calls' = ElementsOf(Head(d.batches)) \cup Active
         /\ \A c \in DOMAIN calls' : calls'[c] = IF c \in ElementsOf(Head(d.batches)) THEN "judging"
                                                 ELSE calls[c]
         /\ ElementsOf(Head(d.batches)) \subseteq Waiting
         /\ ElementsOf(Head(d.batches)) \subseteq Owing \ (DOMAIN calls \cup s.running)
         /\ Active' = ElementsOf(Head(d.batches)) \cup Active
         /\ d' = [d EXCEPT !.batch = ElementsOf(Head(d.batches)), !.batches = Tail(@)]
         /\ s' = s /\ bodies' = bodies /\ used' = used /\ unsent' = unsent
<1>1. d.batches # <<>> /\ d.batches \in Seq(Seq(CallId)) /\ d.pc = "dispatch"
  BY DEF DispatchBatch, Whole, TypeOK, Driving, At
<1>2. Head(d.batches) = d.batches[1] /\ 1 \in 1..Len(d.batches)
  BY <1>1, FirstBatch
<1>3. /\ DOMAIN calls' = ElementsOf(Head(d.batches)) \cup Active
      /\ \A c \in DOMAIN calls' : calls'[c] = IF c \in ElementsOf(Head(d.batches)) THEN "judging"
                                              ELSE calls[c]
  BY DEF DispatchBatch, Judge, Active
<1>4. ElementsOf(Head(d.batches)) \subseteq Waiting
  BY <1>2 DEF Waiting
<1>5. ElementsOf(Head(d.batches)) \subseteq Owing \ (DOMAIN calls \cup s.running)
  BY <1>1, <1>4 DEF Planned, At
<1>6. Active' = ElementsOf(Head(d.batches)) \cup Active
  BY <1>3 DEF Active
<1> QED
  BY <1>1, <1>3, <1>4, <1>5, <1>6 DEF DispatchBatch, Judge

\* Every step leaves owed calls to whoever answers them.
LEMMA OwedStep ==
  ASSUME Whole, Closing, Owed, Planned, AnswersPrompt, Next
  PROVE  Owed'
<1>1. TypeOK /\ Counted /\ s \in Session /\ d \in Driving
  BY DEF Whole, TypeOK
<1>2. CASE Loop
  <2>1. /\ s'.messages = s.messages /\ s'.running \subseteq s.running /\ calls' = calls /\ bodies' = bodies
        /\ d'.synth = NoSynth /\ d.synth = NoSynth /\ d'.pc \notin {"dead", "orphaned", "synth"}
    BY <1>2, LoopKeeps
  <2> QED
    BY <2>1, OwedSame
<1>3. CASE StopButton \/ Steer
  BY <1>3, OwedSame DEF StopButton, Steer, Owed, At
<1>4. CASE Restart
  <2>1. d.pc = "dead" /\ d' = [d EXCEPT !.pc = IF s.turn = 0 THEN "idle" ELSE "orphaned"]
    BY <1>4 DEF Restart, Goto, At
  <2>2. d'.synth = d.synth /\ d.synth = NoSynth
    BY <1>1, <2>1 DEF Driving, Owed, At
  <2> QED
    BY <1>4, <2>1, <2>2, OwedSame DEF Restart
<1>5. CASE SynthMessage
  <2>1. s'.messages = s.messages /\ s'.running = s.running
    BY <1>1, <1>5 DEF SynthMessage, MessageInterrupted, Session
  <2>2. /\ d'.synth.running = d.synth.running /\ d'.synth.dangling = d.synth.dangling
        /\ d.pc = "synth" /\ d'.pc = "synth"
    BY <1>1, <1>5 DEF SynthMessage, At, Driving
  <2> QED
    BY <1>5, <2>1, <2>2, OwedSame DEF SynthMessage
<1>6. CASE DispatchBatch
  <2>1. Asked(s') = Asked(s) /\ Answered(s') = Answered(s) /\ Owing' = Owing
    BY <1>6 DEF DispatchBatch, Owing
  <2>2. d'.pc = d.pc /\ d'.synth = d.synth /\ d.pc = "dispatch"
    BY <1>1, <1>6 DEF DispatchBatch, Judge, Driving, At
  <2>3. \A c \in Active' : calls'[c] \in {"judging", "starting"} => c \notin s'.running
    BY <1>6, Judged DEF Owed, Active
  <2>4. DOMAIN calls' \cup bodies' \cup Answered(s') \subseteq Asked(s')
    BY <1>6, <2>1, Judged DEF Owed, Owing
  <2>5. Active' \cup s'.running \cup Repairing' \subseteq Owing'
    BY <1>6, <2>1, <2>2, Judged DEF Owed, Repairing
  <2> QED
    BY <2>2, <2>3, <2>4, <2>5 DEF Owed, At
<1>7. ASSUME NEW c \in DOMAIN calls, CallAllowed(c) PROVE Owed'
  <2>1. /\ s' = s /\ d' = d /\ bodies' = bodies /\ DOMAIN calls' = DOMAIN calls
        /\ calls[c] = "judging" /\ calls'[c] = "starting"
        /\ \A b \in DOMAIN calls : b # c => calls'[b] = calls[b]
    BY <1>7 DEF CallAllowed, Advance
  <2>2. Active' = Active /\ Owing' = Owing /\ Repairing' = Repairing
    BY <2>1 DEF Active, Owing, Repairing
  <2>3. \A b \in Active' : calls'[b] \in {"judging", "starting"} => b \notin s'.running
    BY <2>1, <2>2 DEF Owed, Active
  <2> QED
    BY <2>1, <2>2, <2>3 DEF Owed, At
<1>8. ASSUME NEW c \in DOMAIN calls, ToolStarts(c) PROVE Owed'
  <2>1. /\ d' = d /\ DOMAIN calls' = DOMAIN calls /\ bodies' = bodies \cup {c}
        /\ calls[c] = "starting" /\ calls'[c] = "running"
        /\ \A b \in DOMAIN calls : b # c => calls'[b] = calls[b]
    BY <1>8 DEF ToolStarts, Advance
  <2>2. s'.messages = s.messages /\ s'.running = s.running \cup {c}
    BY <1>1, <1>8 DEF ToolStarts, ToolStarted, Session
  <2>3. Asked(s') = Asked(s) /\ Answered(s') = Answered(s)
    BY <2>2, SameHistory
  <2>4. Active' = Active /\ Owing' = Owing /\ Repairing' = Repairing /\ c \in Active
    BY <2>1, <2>3 DEF Active, Owing, Repairing
  <2>5. d.pc \notin {"dead", "orphaned", "synth"}
    BY DEF Owed
  <2>6. \A b \in Active' : calls'[b] \in {"judging", "starting"} => b \notin s'.running
    <3>1. \A b \in Active : calls[b] \in {"judging", "starting"} => b \notin s.running
      BY DEF Owed
    <3> QED
      BY <2>1, <2>2, <2>4, <3>1 DEF Active
  <2>7. Active' \cup s'.running \cup Repairing' \subseteq Owing'
    BY <2>2, <2>4 DEF Owed
  <2>8. DOMAIN calls' \cup bodies' \cup Answered(s') \subseteq Asked(s')
    BY <2>1, <2>3, <2>4 DEF Owed
  <2> QED
    BY <2>1, <2>5, <2>6, <2>7, <2>8 DEF Owed, At
<1>9. ASSUME NEW c \in DOMAIN calls, EndRejects(c) PROVE Owed'
  <2>1. /\ s' = s /\ bodies' = bodies /\ DOMAIN calls' = DOMAIN calls
        /\ calls[c] = "returned" /\ calls'[c] = "done"
        /\ \A b \in DOMAIN calls : b # c => calls'[b] = calls[b]
    BY <1>9 DEF EndRejects, Advance
  <2>2. d'.synth = d.synth /\ d.synth = NoSynth /\ d'.pc = "ending"
    BY <1>1, <1>9 DEF EndRejects, Throw, Driving, Owed, At
  <2> QED
    BY <2>1, <2>2, OwedSame
<1>10. ASSUME NEW c \in bodies, BodyEnds(c) PROVE Owed'
  <2>1. /\ s' = s /\ d' = d /\ bodies' \subseteq bodies /\ DOMAIN calls' = DOMAIN calls
        /\ \A b \in DOMAIN calls : calls'[b] = calls[b] \/ (calls'[b] = "returned" /\ calls[b] = "running")
    BY <1>10 DEF BodyEnds, Advance
  <2>2. d'.pc = "synth" \/ d'.synth = NoSynth
    BY <2>1 DEF Owed, At
  <2> QED
    BY <2>1, <2>2, OwedSame
<1>11. ASSUME NEW c \in DOMAIN calls, CallEnds(c) \/ CallFails(c) PROVE Owed'
  <2>1. c \in Owing /\ d.synth = NoSynth
    BY <1>11 DEF CallEnds, CallFails, Owed, Active, At
  <2>2. \E ok \in BOOLEAN : s' = ToolEnded(s, c, ok)
    BY <1>11 DEF CallEnds, CallFails
  <2>3. /\ DOMAIN calls' = DOMAIN calls /\ bodies' = bodies /\ calls'[c] = "done" /\ d' = d
        /\ \A b \in DOMAIN calls : b # c => calls'[b] = calls[b]
    BY <1>11 DEF CallEnds, CallFails, Advance
  <2>4. d'.synth.running = d.synth.running \ {c} /\ d'.synth.dangling = d.synth.dangling \ {c}
    BY <2>1, <2>3 DEF NoSynth
  <2> QED
    BY <2>1, <2>2, <2>3, <2>4, OwedAnswer
<1>12. ASSUME NEW c, SynthCall(c) PROVE Owed'
  <2>1. c \in Owing /\ DOMAIN calls = {} /\ d.pc = "synth"
    BY <1>12 DEF SynthCall, Owed, Repairing, At
  <2>2. /\ s' = ToolEnded(s, c, FALSE) /\ calls' = calls /\ bodies' = bodies /\ d'.pc = d.pc
        /\ d'.synth.running = d.synth.running \ {c} /\ d'.synth.dangling = d.synth.dangling \ {c}
    <3>1. s' = ToolEnded(s, c, FALSE) /\ calls' = calls /\ bodies' = bodies
      BY <1>12 DEF SynthCall
    <3>2. d.synth.running \cap d.synth.dangling = {}
      BY DEF Owed
    <3>3. CASE c \in d.synth.running /\ d' = [d EXCEPT !.synth.running = @ \ {c}]
      <4>1. d.synth.dangling = d.synth.dangling \ {c}
        BY <3>2, <3>3
      <4> QED
        BY <1>1, <3>1, <3>3, <4>1 DEF Driving
    <3>4. CASE d.synth.running = {} /\ d' = [d EXCEPT !.synth.dangling = @ \ {c}]
      BY <1>1, <3>1, <3>4 DEF Driving
    <3> QED
      BY <1>12, <3>3, <3>4 DEF SynthCall
  <2> QED
    BY <2>1, <2>2, OwedAnswer
<1>13. CASE StartTurn
  <2>1. Asked(s') = Asked(s) /\ Answered(s') = Answered(s)
    BY <1>1, <1>13, TextEvent DEF StartTurn
  <2>2. s'.running = s.running /\ d.pc = "idle" /\ d'.pc = "top" /\ d'.synth = NoSynth /\ d.synth = NoSynth
    BY <1>1, <1>13 DEF StartTurn, TurnStarted, Session, Idle, At, Owed
  <2> QED
    BY <1>13, <2>1, <2>2, OwedMore DEF StartTurn
<1>14. CASE Inject
  <2>1. Asked(s') = Asked(s) /\ Answered(s') = Answered(s)
    BY <1>1, <1>14, TextEvent DEF Inject
  <2>2. s'.running = s.running /\ d' = d
    BY <1>1, <1>14 DEF Inject, Injected, SetLast, Session
  <2> QED
    BY <1>14, <2>1, <2>2, OwedMore DEF Inject
<1>15. CASE StreamEnds
  <2>1. PICK n \in 0..MaxCallsPer : \E uses \in [1..n -> BOOLEAN] : s' = MessageEnded(s, uses)
    BY <1>15 DEF StreamEnds
  <2>2. PICK uses \in [1..n -> BOOLEAN] : s' = MessageEnded(s, uses)
    BY <2>1
  <2>3. n \in Nat
    BY TurnAssumption
  <2>4. Asked(s) \subseteq Asked(s') /\ Answered(s') = Answered(s)
    BY <1>1, <2>2, <2>3, FunctionIsSeq, ReplyEvent
  <2>5. s'.running = s.running
    BY <1>1, <2>2 DEF MessageEnded, Session
  <2>6. d.pc = "stream" /\ d'.pc \in {"interrupted", "failed", "stopping"} /\ d'.synth = d.synth
    BY <1>1, <1>15 DEF StreamEnds, At, Driving
  <2> QED
    BY <1>15, <2>4, <2>5, <2>6, OwedMore DEF StreamEnds
<1>16. CASE Crash
  <2>1. s' = s /\ DOMAIN calls' = {} /\ bodies' = {} /\ d'.synth = NoSynth /\ d'.pc = "dead"
    BY <1>16 DEF Crash, NoCalls, Idle
  <2>2. Active' = {} /\ Repairing' = {} /\ Owing' = Owing
    BY <2>1 DEF Active, Repairing, NoSynth, Owing
  <2> QED
    BY <2>1, <2>2 DEF Owed, At, NoSynth
<1>17. ASSUME NEW resume \in BOOLEAN, Settle(resume) PROVE Owed'
  <2>1. s' = s /\ calls' = calls /\ bodies' = bodies /\ d.pc = "orphaned" /\ d'.pc = "synth" /\ d'.synth = Interruption
    BY <1>1, <1>17 DEF Settle, At, Driving
  <2>2. Interruption.running \in {{}, s.running} /\ Interruption.dangling \in {{}, Dangling}
    BY DEF Interruption
  <2>3. Dangling \subseteq Owing \ s.running
    <3>1. LastReply \in 0..Len(s.messages) /\ (LastReply # 0 => LastReply \in 1..Len(s.messages))
      BY <1>1, LastReplyFound
    <3>2. LastReply # 0 => Uses(s, LastReply) \subseteq Asked(s)
      BY <3>1 DEF Asked
    <3> QED
      BY <3>2 DEF Dangling, Owing
  <2>4. Active' = Active /\ Owing' = Owing /\ Repairing' \subseteq s.running \cup Dangling
    BY <2>1, <2>2 DEF Active, Owing, Repairing
  <2>5. d'.synth.running \cap d'.synth.dangling = {}
    BY <2>1, <2>2, <2>3
  <2> QED
    BY <2>1, <2>3, <2>4, <2>5 DEF Owed, At
<1> QED
  BY <1>2, <1>3, <1>4, <1>5, <1>6, <1>7, <1>8, <1>9, <1>10, <1>11, <1>12, <1>13, <1>14, <1>15, <1>16, <1>17
     DEF Next, Driver, World, CallStep, Loop

-----------------------------------------------------------------------------
(* What is dispatched                                                      *)

\* A call waits in one of the batches.
LEMMA WaitingIs ==
  \A c : c \in Waiting <=> \E b \in 1..Len(d.batches) : c \in ElementsOf(d.batches[b])
  BY DEF Waiting

\* What the next batch leaves to wait.
LEMMA JudgedRest ==
  ASSUME Whole, Owed, Planned, DispatchBatch
  PROVE  /\ Waiting' = Waiting \ ElementsOf(Head(d.batches))
         /\ Len(d.batches) \in Nat \ {0} /\ Len(d'.batches) = Len(d.batches) - 1
         /\ \A b \in 1..Len(d'.batches) : d'.batches[b] = d.batches[b + 1]
         /\ Head(d.batches) = d.batches[1]
<1>1. /\ d.batches # <<>> /\ d.batches \in Seq(Seq(CallId)) /\ d.pc = "dispatch" /\ d \in Driving
      /\ d' = [d EXCEPT !.batch = ElementsOf(Head(d.batches)), !.batches = Tail(@)]
  BY Judged DEF Whole, TypeOK
<1>2. d'.batches = Tail(d.batches)
  BY <1>1 DEF Driving
<1>3. /\ Len(d.batches) \in Nat \ {0} /\ Len(d'.batches) = Len(d.batches) - 1
      /\ \A b \in 1..Len(d'.batches) : d'.batches[b] = d.batches[b + 1]
      /\ Head(d.batches) = d.batches[1]
  BY <1>1, <1>2, FirstBatch
<1>4. \A a, b \in 1..Len(d.batches) :
         a # b => ElementsOf(d.batches[a]) \cap ElementsOf(d.batches[b]) = {}
  BY <1>1 DEF Planned, At
<1>5. \A c : c \in Waiting' <=> \E b \in 1..Len(d'.batches) : c \in ElementsOf(d'.batches[b])
  BY DEF Waiting
<1>6. ASSUME NEW c \in Waiting' PROVE c \in Waiting /\ c \notin ElementsOf(Head(d.batches))
  <2>1. PICK b \in 1..Len(d'.batches) : c \in ElementsOf(d'.batches[b])
    BY <1>5
  <2>2. b + 1 \in 1..Len(d.batches) /\ c \in ElementsOf(d.batches[b + 1]) /\ 1 \in 1..Len(d.batches) /\ b + 1 # 1
    BY <2>1, <1>3
  <2> DEFINE next == b + 1
  <2> HIDE DEF next
  <2>3. next \in 1..Len(d.batches) /\ c \in ElementsOf(d.batches[next]) /\ 1 \in 1..Len(d.batches) /\ next # 1
    BY <2>2 DEF next
  <2> QED
    BY <2>3, <1>3, <1>4, WaitingIs
<1>7. ASSUME NEW c \in Waiting, c \notin ElementsOf(Head(d.batches)) PROVE c \in Waiting'
  <2>1. PICK b \in 1..Len(d.batches) : c \in ElementsOf(d.batches[b])
    BY WaitingIs
  <2>2. b # 1
    BY <2>1, <1>3, <1>7
  <2> DEFINE a == b - 1
  <2>3. a \in 1..Len(d'.batches) /\ a + 1 = b
    BY <2>2, <1>3
  <2> HIDE DEF a
  <2>4. c \in ElementsOf(d'.batches[a])
    BY <2>1, <2>3, <1>3
  <2> QED
    BY <2>3, <2>4, <1>5
<1> QED
  BY <1>3, <1>6, <1>7

\* What happens to the calls of a batch does not touch those that wait.
LEMMA PlannedSame ==
  ASSUME Planned, d'.pc = d.pc, d'.reply = d.reply, d'.batches = d.batches, d'.batch = d.batch,
         DOMAIN calls' = DOMAIN calls, s'.running \subseteq s.running \cup DOMAIN calls,
         Owing \subseteq Owing' \cup DOMAIN calls
  PROVE  Planned'
<1>1. Waiting' = Waiting
  BY DEF Waiting
<1> QED
  BY <1>1 DEF Planned, At

\* The steps that leave the plan of the driver as it is.
BesidePlan == \/ StopButton \/ Steer \/ Inject
              \/ \E c \in DOMAIN calls : CallStep(c)
              \/ \E c \in bodies : BodyEnds(c)

\* They change no call that is not dispatched.
LEMMA BesidePlanKeeps ==
  ASSUME Whole, Owed, BesidePlan
  PROVE  /\ d' = d /\ DOMAIN calls' = DOMAIN calls
         /\ s'.running \subseteq s.running \cup DOMAIN calls
         /\ Asked(s') = Asked(s) /\ Answered(s') \subseteq Answered(s) \cup DOMAIN calls
<1>1. TypeOK /\ Counted /\ s \in Session
  BY DEF Whole, TypeOK
<1>2. CASE StopButton \/ Steer
  BY <1>2 DEF StopButton, Steer
<1>3. CASE Inject
  <2>1. Asked(s') = Asked(s) /\ Answered(s') = Answered(s)
    BY <1>1, <1>3, TextEvent DEF Inject
  <2>2. s'.running = s.running
    BY <1>1, <1>3 DEF Inject, Injected, SetLast, Session
  <2> QED
    BY <1>3, <2>1, <2>2 DEF Inject
<1>4. ASSUME NEW c \in DOMAIN calls, CallAllowed(c) \/ ToolStarts(c)
      PROVE  /\ d' = d /\ DOMAIN calls' = DOMAIN calls
             /\ s'.running \subseteq s.running \cup DOMAIN calls
             /\ Asked(s') = Asked(s) /\ Answered(s') = Answered(s)
  <2>1. s'.messages = s.messages /\ s'.running \subseteq s.running \cup {c}
    BY <1>1, <1>4 DEF CallAllowed, ToolStarts, ToolStarted, Session
  <2> QED
    BY <1>4, <2>1, SameHistory DEF CallAllowed, ToolStarts, Advance
<1>5. ASSUME NEW c \in DOMAIN calls, CallEnds(c) \/ CallFails(c)
      PROVE  /\ d' = d /\ DOMAIN calls' = DOMAIN calls /\ s'.running \subseteq s.running
             /\ Asked(s') = Asked(s) /\ Answered(s') = Answered(s) \cup {c}
  <2>1. c \in CallId /\ c \notin Answered(s)
    BY <1>1, <1>5, AskedBound DEF CallEnds, CallFails, Owed, Active, Owing
  <2>2. PICK ok \in BOOLEAN : s' = ToolEnded(s, c, ok)
    BY <1>5 DEF CallEnds, CallFails
  <2>3. s'.running \subseteq s.running
    BY <1>1, <2>2 DEF ToolEnded, SetLast, Session
  <2>4. Asked(s') = Asked(s) /\ Answered(s') = Answered(s) \cup {c}
    BY <1>1, <2>1, <2>2, ResultEvent
  <2> QED
    BY <1>5, <2>3, <2>4 DEF CallEnds, CallFails, Advance
<1>6. ASSUME NEW c \in bodies, BodyEnds(c)
      PROVE  d' = d /\ DOMAIN calls' = DOMAIN calls /\ s' = s
  BY <1>6 DEF BodyEnds, Advance
<1> QED
  BY <1>2, <1>3, <1>4, <1>5, <1>6 DEF BesidePlan, CallStep

\* A reply is dispatched: its calls all wait, and nothing has happened to any.
LEMMA Dispatching ==
  ASSUME Whole, Owed, Fresh, StoppingAfterStream, d'.pc = "dispatch"
  PROVE  /\ Waiting' = Uses(s, d.reply) /\ d.reply \in 1..Len(s.messages)
         /\ Waiting' \subseteq Owing \ (DOMAIN calls \cup s.running)
         /\ \A c \in Waiting' : c[1] = d.reply
         /\ \A a, b \in 1..Len(d'.batches) :
              a # b => ElementsOf(d'.batches[a]) \cap ElementsOf(d'.batches[b]) = {}
         /\ \A b \in 1..Len(d'.batches) : Together(ElementsOf(d'.batches[b]))
         /\ d'.reply = d.reply /\ d'.batch = {} /\ d.pc = "stopping" /\ d'.synth = d.synth
<1>1. TypeOK /\ Counted /\ s \in Session /\ d \in Driving /\ d.reply \in Nat /\ d.reply <= Len(s.messages)
  BY DEF Whole, TypeOK, Driving
<1>2. /\ d' = [d EXCEPT !.pc = "dispatch", !.batch = {}, !.batches = BatchesOf(d.reply)]
      /\ ReplyUses # <<>> /\ d.pc = "stopping"
  <2>1. ~Stop("aborted") /\ ~Goto("ending") /\ d' # [d EXCEPT !.pc = "top", !.continued = TRUE]
    BY <1>1 DEF Stop, Goto, Driving
  <2> QED
    BY <2>1 DEF StoppingAfterStream, At
<1>3. d.reply \in 1..Len(s.messages)
  BY <1>1, <1>2, LenProperties DEF ReplyUses, Session
<1>4. d'.batches = BatchesOf(d.reply) /\ d'.reply = d.reply /\ d'.batch = {} /\ d'.synth = d.synth
  BY <1>1, <1>2 DEF Driving
<1>5. Waiting' = Uses(s, d.reply)
  BY <1>1, <1>3, <1>4, BatchesOfReply DEF Waiting
<1>6. /\ \A a, b \in 1..Len(d'.batches) :
              a # b => ElementsOf(d'.batches[a]) \cap ElementsOf(d'.batches[b]) = {}
      /\ \A b \in 1..Len(d'.batches) : Together(ElementsOf(d'.batches[b]))
  BY <1>1, <1>3, <1>4, BatchesOfReply
<1>7. \A c \in Waiting' : c[1] = d.reply
  BY <1>5 DEF Uses
<1>8. Waiting' \subseteq Asked(s)
  BY <1>3, <1>5 DEF Asked
<1>9. \A c \in DOMAIN calls \cup Answered(s) \cup s.running : c[1] # d.reply
  BY <1>2 DEF Fresh, Replied
<1>10. Waiting' \subseteq Owing \ (DOMAIN calls \cup s.running)
  BY <1>7, <1>8, <1>9 DEF Owing
<1> QED
  BY <1>2, <1>3, <1>4, <1>5, <1>6, <1>7, <1>10

\* Only these steps leave the driver among the calls of a reply.
LEMMA OnlyDispatch ==
  ASSUME Whole, Owed, Next, d'.pc = "dispatch"
  PROVE  BesidePlan \/ StoppingAfterStream \/ DispatchBatch
<1>1. d \in Driving
  BY DEF Whole, TypeOK
<1>2. ~(Top \/ RequestReady \/ RequestFails \/ RecordInterrupted \/ RecordError \/ StepError)
  BY <1>1 DEF Top, RequestReady, RequestFails, RecordInterrupted, RecordError, StepError, Goto, Stop, Throw, Driving
<1>3. ~(AfterTools \/ TurnEnds \/ SynthDone \/ SynthMessage \/ StartTurn \/ Crash \/ Restart)
  BY <1>1 DEF AfterTools, TurnEnds, SynthDone, SynthMessage, StartTurn, Crash, Restart, Goto, Stop, At, Driving, Idle
<1>4. ~StreamEnds
  BY <1>1 DEF StreamEnds, Driving
<1>5. /\ \A c : ~SynthCall(c) /\ ~EndRejects(c)
      /\ \A resume \in BOOLEAN : ~Settle(resume)
  BY <1>1 DEF SynthCall, EndRejects, Settle, At, Throw, Driving
<1> QED
  BY <1>2, <1>3, <1>4, <1>5 DEF Next, Driver, World, BesidePlan

\* Every step keeps what is dispatched planned.
LEMMA PlannedStep ==
  ASSUME Whole, Owed, Planned, Fresh, Next
  PROVE  Planned'
<1> SUFFICES ASSUME d'.pc = "dispatch" PROVE Planned'
  BY DEF Planned, At
<1>1. CASE BesidePlan
  <2>1. Owing \subseteq Owing' \cup DOMAIN calls
    BY <1>1, BesidePlanKeeps DEF Owing
  <2> QED
    BY <1>1, <2>1, BesidePlanKeeps, PlannedSame
<1>2. CASE StoppingAfterStream
  <2>1. s' = s /\ calls' = calls
    BY <1>2 DEF StoppingAfterStream
  <2>2. Owing' = Owing
    BY <2>1 DEF Owing
  <2>3. d.reply > 0
    BY <1>2, Dispatching, LenProperties DEF Whole, TypeOK, Session
  <2> QED
    BY <1>2, <2>1, <2>2, <2>3, Dispatching DEF Planned, At
<1>3. CASE DispatchBatch
  <2>1. /\ d.pc = "dispatch" /\ s' = s /\ d'.reply = d.reply /\ d'.batch = ElementsOf(Head(d.batches))
        /\ DOMAIN calls' \subseteq ElementsOf(Head(d.batches)) \cup DOMAIN calls
        /\ ElementsOf(Head(d.batches)) \subseteq Waiting
    <3>1. d \in Driving
      BY DEF Whole, TypeOK
    <3> QED
      BY <1>3, <3>1, Judged DEF Driving, Active
  <2>2. /\ d.reply > 0 /\ Waiting \subseteq Owing \ (DOMAIN calls \cup s.running)
        /\ \A a, b \in 1..Len(d.batches) :
             a # b => ElementsOf(d.batches[a]) \cap ElementsOf(d.batches[b]) = {}
        /\ \A c \in d.batch \cup Waiting : c[1] = d.reply
    BY <2>1 DEF Planned, At
  <2>3. Waiting' = Waiting \ ElementsOf(Head(d.batches)) /\ Owing' = Owing
    BY <1>3, <2>1, JudgedRest DEF Owing
  <2>4. ASSUME NEW a \in 1..Len(d'.batches), NEW b \in 1..Len(d'.batches), a # b
        PROVE  ElementsOf(d'.batches[a]) \cap ElementsOf(d'.batches[b]) = {}
    <3> DEFINE x == a + 1
               y == b + 1
    <3>1. x \in 1..Len(d.batches) /\ y \in 1..Len(d.batches) /\ x # y
      BY <1>3, <2>4, JudgedRest
    <3>2. d'.batches[a] = d.batches[x] /\ d'.batches[b] = d.batches[y]
      BY <1>3, JudgedRest
    <3> HIDE DEF x, y
    <3> QED
      BY <3>1, <3>2, <2>2
  <2>5. Waiting' \subseteq Owing' \ (DOMAIN calls' \cup s'.running)
    BY <2>1, <2>2, <2>3
  <2>6. \A c \in d'.batch \cup Waiting' : c[1] = d'.reply
    BY <2>1, <2>2, <2>3
  <2> QED
    BY <2>1, <2>2, <2>4, <2>5, <2>6 DEF Planned
<1> QED
  BY <1>1, <1>2, <1>3, OnlyDispatch

\* What happens to calls of other replies does not touch one not dispatched yet.
LEMMA FreshSame ==
  ASSUME Fresh, Replied' => Replied /\ d'.reply = d.reply,
         DOMAIN calls' \cup Answered(s') \cup s'.running \subseteq DOMAIN calls \cup Answered(s) \cup s.running
  PROVE  Fresh'
  BY DEF Fresh

\* Only these steps leave the driver with a reply that is not dispatched.
LEMMA OnlyReplied ==
  ASSUME Whole, Owed, Next, Replied'
  PROVE  \/ BesidePlan /\ Replied
         \/ StreamEnds
         \/ (RequestFails \/ RecordError \/ StepError) /\ UNCHANGED <<s, calls>>
<1>1. d \in Driving
  BY DEF Whole, TypeOK
<1>2. BesidePlan => Replied
  BY BesidePlanKeeps DEF Replied
<1>3. ~(Top \/ RequestReady \/ RecordInterrupted \/ StoppingAfterStream \/ DispatchBatch)
  BY <1>1 DEF Top, RequestReady, RecordInterrupted, StoppingAfterStream, DispatchBatch, Judge,
              Goto, Stop, Driving, Replied, At
<1>4. ~(AfterTools \/ TurnEnds \/ SynthDone \/ SynthMessage \/ StartTurn \/ Crash \/ Restart)
  BY <1>1 DEF AfterTools, TurnEnds, SynthDone, SynthMessage, StartTurn, Crash, Restart, Goto, Stop, At,
              Driving, Idle, Replied
<1>5. /\ \A c : ~SynthCall(c) /\ ~EndRejects(c)
      /\ \A resume \in BOOLEAN : ~Settle(resume)
  BY <1>1 DEF SynthCall, EndRejects, Settle, At, Throw, Driving, Replied
<1> QED
  BY <1>2, <1>3, <1>4, <1>5 DEF Next, Driver, World, BesidePlan, RequestFails, RecordError, StepError

\* Every step keeps a reply that is not dispatched fresh.
LEMMA FreshStep ==
  ASSUME Whole, Owed, Fresh, Next
  PROVE  Fresh'
<1> SUFFICES ASSUME Replied' PROVE Fresh'
  BY DEF Fresh
<1>1. TypeOK /\ Counted /\ s \in Session /\ d \in Driving
  BY DEF Whole, TypeOK
<1>2. DOMAIN calls \cup Answered(s) \cup s.running \subseteq Asked(s)
  BY DEF Owed, Owing
<1>3. Len(s.messages) \in Nat /\ \A c \in Asked(s) : c[1] \in 1..Len(s.messages)
  BY <1>1, AskedBound, LenProperties DEF Session
<1>4. CASE BesidePlan /\ Replied
  BY <1>4, BesidePlanKeeps, FreshSame
<1>5. CASE StreamEnds
  <2>1. PICK n \in 0..MaxCallsPer : \E uses \in [1..n -> BOOLEAN] : s' = MessageEnded(s, uses)
    BY <1>5 DEF StreamEnds
  <2>2. PICK uses \in [1..n -> BOOLEAN] : s' = MessageEnded(s, uses)
    BY <2>1
  <2>3. n \in Nat
    BY TurnAssumption
  <2>4. Answered(s') = Answered(s)
    BY <1>1, <2>2, <2>3, FunctionIsSeq, ReplyEvent
  <2>5. s'.running = s.running /\ calls' = calls
    BY <1>1, <1>5, <2>2 DEF MessageEnded, Session, StreamEnds
  <2>6. d'.reply = Len(s.messages) + 1
    BY <1>1, <1>5 DEF StreamEnds, Driving
  <2>7. \A c \in DOMAIN calls \cup Answered(s) \cup s.running : c[1] # Len(s.messages) + 1
    BY <1>2, <1>3
  <2> QED
    BY <2>4, <2>5, <2>6, <2>7 DEF Fresh
<1>6. CASE RequestFails /\ UNCHANGED <<s, calls>>
  <2>1. d'.reply = 0
    BY <1>1, <1>6 DEF RequestFails, Driving
  <2>2. \A c \in DOMAIN calls \cup Answered(s) \cup s.running : c[1] # 0
    BY <1>2, <1>3
  <2> QED
    BY <1>6, <2>1, <2>2 DEF Fresh
<1>7. CASE (RecordError \/ StepError) /\ UNCHANGED <<s, calls>>
  <2>1. Replied /\ d'.reply = d.reply
    BY <1>1, <1>7 DEF RecordError, StepError, Goto, Throw, At, Driving, Replied
  <2> QED
    BY <1>7, <2>1, FreshSame
<1> QED
  BY <1>4, <1>5, <1>6, <1>7, OnlyReplied

-----------------------------------------------------------------------------
(* As long as every tool.end could be recorded                             *)

\* A text or a result leaves the last reply the last one.
LEMMA RecentKept ==
  ASSUME s \in Session, Extended(<<>>), UsersTurn,
         Len(s'.messages) = Len(s.messages) <=> LastIsUser(s),
         NEW m \in 1..Len(s.messages), Recent(m)
  PROVE  Recent(m)'
<1>1. /\ s.messages \in Seq(Message) /\ Len(s.messages) \in Nat
      /\ Len(s'.messages) \in {Len(s.messages), Len(s.messages) + 1}
      /\ s'.messages[Len(s'.messages)].role = "user"
  BY LenProperties DEF Session, Extended, UsersTurn, LastIsUser
<1>2. s.messages # <<>>
  BY <1>1, EmptySeq
<1>3. ~LastIsUser(s) => m = Len(s.messages)
  BY <1>2 DEF Recent, LastIsUser
<1> QED
  BY <1>1, <1>3 DEF Recent

\* An injected text goes to the last message if that is the user's.
LEMMA InjectedText ==
  ASSUME s \in Session, s' = Injected(s)
  PROVE  /\ Extended(<<>>) /\ UsersTurn
         /\ Len(s'.messages) = Len(s.messages) <=> LastIsUser(s)
         /\ Asked(s') = Asked(s) /\ Answered(s') = Answered(s) /\ (Follow(s) => Follow(s'))
         /\ s'.turn = s.turn /\ s'.msg = s.msg /\ s'.running = s.running
<1>1. /\ Extended(<<>>) /\ UsersTurn
      /\ Asked(s') = Asked(s) /\ Answered(s') = Answered(s) /\ (Follow(s) => Follow(s'))
  BY TextEvent
<1>2. s'.turn = s.turn /\ s'.msg = s.msg /\ s'.running = s.running
  BY DEF Injected, SetLast, Session
<1>3. ~LastIsUser(s) => Len(s'.messages) # Len(s.messages)
  <2>1. ~LastIsUser(s) => s'.messages = Append(s.messages, UserMessage(<<Text>>))
    BY DEF Injected, Session
  <2>2. s.messages \in Seq(Message) /\ UserMessage(<<Text>>) \in Message
    BY BlockTypes DEF Session
  <2> QED
    BY <2>1, <2>2, AppendProperties
<1>4. LastIsUser(s) => Len(s'.messages) = Len(s.messages)
  <2>1. ASSUME LastIsUser(s) PROVE Len(s'.messages) # Len(s.messages) + 1
    <3> DEFINE N == Len(s.messages)
               last == [s.messages[N] EXCEPT !.blocks = Append(LastBlocks(s), Text)]
    <3>1. s.messages \in Seq(Message) /\ N \in 1..N /\ s.messages[N] \in Message /\ N \in Nat
      BY <2>1, EmptySeq, ElementOfSeq DEF Session, LastIsUser
    <3>2. s'.messages = [s.messages EXCEPT ![N] = last]
      BY <2>1 DEF Injected, SetLast, Session
    <3>3. last \in Message
      BY <3>1, BlockTypes, AppendProperties DEF Message, LastBlocks
    <3> HIDE DEF last
    <3>4. Len(s'.messages) = N
      BY <3>1, <3>2, <3>3, ExceptSeq
    <3> QED
      BY <3>1, <3>4
  <2> QED
    BY <1>1, <2>1 DEF Extended
<1> QED
  BY <1>1, <1>2, <1>3, <1>4

\* Calls that are not asked for are not on their way.
LEMMA CallsAreAsked ==
  ASSUME Whole, Owed, Planned
  PROVE  /\ \A c \in Active \cup s.running \cup Repairing \cup DOMAIN calls \cup bodies :
              c \in Asked(s) /\ c \in CallId /\ c[1] \in 1..Len(s.messages)
         /\ At("dispatch") => \A c \in Waiting : c \in Asked(s) /\ c[1] \in 1..Len(s.messages)
<1>1. \A c \in Asked(s) : c \in CallId /\ c[1] \in 1..Len(s.messages)
  BY AskedBound DEF Whole
<1> QED
  BY <1>1 DEF Owed, Owing, Planned

\* The driver moves on: nothing is on its way, before and after.
LEMMA CalmLoop ==
  ASSUME Whole, Owed, Calm, used.rejections = 0, Loop, d'.pc # "dispatch"
  PROVE  Calm'
<1>1. d \in Driving /\ s \in Session
  BY DEF Whole, TypeOK
<1>2. /\ s'.messages = s.messages /\ s'.running \in {s.running, {}}
      /\ calls' = calls /\ bodies' = bodies /\ used' = used
      /\ d'.synth = NoSynth /\ d'.pc \notin {"dead", "orphaned", "synth"}
      /\ d.synth = NoSynth /\ d.pc \notin {"dead", "orphaned"}
  BY LoopKeeps
<1>3. Active = {} /\ s.running = {}
  <2>1. CASE d.pc = "dispatch"
    <3>1. BatchDone
      BY <2>1 DEF Loop, Top, RequestReady, RequestFails, RecordInterrupted, RecordError, StepError,
         StoppingAfterStream, AfterTools, TurnEnds, SynthDone, At
    <3>2. Active = {}
      BY <2>1, <3>1 DEF Calm, InBatch, At, BatchDone, Active
    <3> QED
      BY <2>1, <3>2 DEF Calm, Still, At
  <2>2. CASE d.pc = "synth"
    BY <1>2, <2>2 DEF Calm, Still, At, NoSynth
  <2>3. CASE d.pc \notin {"dispatch", "synth"}
    BY <1>2, <2>3 DEF Calm, Still, At
  <2> QED
    BY <2>1, <2>2, <2>3
<1>4. Active' = {} /\ s'.running = {} /\ Repairing' = {}
  BY <1>2, <1>3 DEF Active, Repairing, NoSynth
<1>5. Asked(s') = Asked(s) /\ Answered(s') = Answered(s) /\ (Follow(s) => Follow(s'))
  BY <1>2, SameHistory
<1>6. Replied' /\ d'.reply > 0 => Recent(d.reply)'
  <2>1. CASE Replied /\ d'.reply = d.reply
    BY <1>2, <2>1 DEF Calm, Late, Recent
  <2>2. CASE ~Replied'
    BY <2>2
  <2>3. CASE d'.reply = 0
    BY <2>3
  <2>4. Replied' => d'.reply = 0 \/ (Replied /\ d'.reply = d.reply)
    BY <1>1 DEF Replied, Loop, Top, RequestReady, RequestFails, RecordInterrupted, RecordError, StepError,
         StoppingAfterStream, AfterTools, TurnEnds, SynthDone, At, Goto, Stop, Throw, Driving, Idle
  <2> QED
    BY <2>1, <2>2, <2>3, <2>4
<1>7. ResultsFollowReply'
  BY <1>2, <1>5 DEF Calm, ResultsFollowReply, Follow
<1>8. Still' /\ InBatch'
  BY <1>4 DEF Still, InBatch, At
<1>9. Late' /\ Over'
  <2>1. Late'
    BY <1>4, <1>6 DEF Late, At
  <2>2. Over'
    BY <1>2, <1>3, <1>4, <1>5 DEF Calm, Over
  <2> QED
    BY <2>1, <2>2
<1> QED
  BY <1>7, <1>8, <1>9 DEF Calm

\* A reply is dispatched.
LEMMA CalmDispatching ==
  ASSUME Whole, Owed, Fresh, Calm, used.rejections = 0, StoppingAfterStream, d'.pc = "dispatch"
  PROVE  Calm'
<1>1. /\ Waiting' = Uses(s, d.reply) /\ d.reply \in 1..Len(s.messages)
      /\ \A c \in Waiting' : c[1] = d.reply
      /\ \A b \in 1..Len(d'.batches) : Together(ElementsOf(d'.batches[b]))
      /\ d'.reply = d.reply /\ d'.batch = {} /\ d.pc = "stopping" /\ d'.synth = d.synth
  BY Dispatching
<1>2. s' = s /\ calls' = calls /\ bodies' = bodies /\ used' = used
  BY DEF StoppingAfterStream
<1>3. Active = {} /\ s.running = {} /\ Repairing = {}
  BY <1>1 DEF Calm, Still, At, Owed, Repairing, NoSynth
<1>4. Active' = {} /\ s'.running = {} /\ Repairing' = {}
  BY <1>1, <1>2, <1>3 DEF Active, Repairing
<1>5. Recent(d.reply) /\ \A m : Recent(m)' <=> Recent(m)
  <2>1. d.reply > 0
    BY <1>1, LenProperties DEF Whole, TypeOK, Session
  <2> QED
    BY <1>1, <1>2, <2>1 DEF Calm, Late, Replied, Recent
<1>6. Still' /\ Over' /\ ResultsFollowReply'
  BY <1>2, <1>3, <1>4 DEF Calm, Still, Over, ResultsFollowReply, At
<1>7. Together(d.batch)' /\ \A b \in 1..Len(d'.batches) : Together(ElementsOf(d.batches[b]))'
  BY <1>1, <1>2 DEF Together
<1>8. InBatch'
  BY <1>1, <1>4, <1>7 DEF InBatch, Together
<1>9. Late'
  BY <1>1, <1>4, <1>5 DEF Late, Replied
<1> QED
  BY <1>6, <1>8, <1>9 DEF Calm

\* The next batch, when the one before is over.
LEMMA CalmJudged ==
  ASSUME Whole, Owed, Planned, Calm, used.rejections = 0, DispatchBatch
  PROVE  Calm'
<1> DEFINE next == ElementsOf(Head(d.batches))
<1>1. /\ d.pc = "dispatch" /\ DOMAIN calls' = next \cup Active
      /\ next \subseteq Waiting /\ Active' = next \cup Active
      /\ d' = [d EXCEPT !.batch = next, !.batches = Tail(@)]
      /\ s' = s /\ bodies' = bodies /\ used' = used
      /\ d \in Driving
  BY Judged DEF Whole, TypeOK
<1>2. d'.batch = next /\ d'.pc = "dispatch" /\ d'.synth = d.synth
  BY <1>1 DEF Driving
<1>3. /\ Waiting' \subseteq Waiting /\ Len(d.batches) \in Nat \ {0} /\ Len(d'.batches) = Len(d.batches) - 1
      /\ \A b \in 1..Len(d'.batches) : d'.batches[b] = d.batches[b + 1]
      /\ Head(d.batches) = d.batches[1]
  BY JudgedRest
<1> HIDE DEF next
<1>4. Active = {}
  BY <1>1 DEF Calm, InBatch, At, Active, DispatchBatch, BatchDone
<1>5. s.running = {} /\ \A b \in 1..Len(d.batches) : Together(ElementsOf(d.batches[b]))
  BY <1>1, <1>4 DEF Calm, Still, InBatch, At
<1>6. Together(d.batch)' /\ \A b \in 1..Len(d'.batches) : Together(ElementsOf(d.batches[b]))'
  <2>1. Together(next)
    <3>1. next = ElementsOf(d.batches[1]) /\ 1 \in 1..Len(d.batches)
      BY <1>3 DEF next
    <3> QED
      BY <3>1, <1>5
  <2>2. ASSUME NEW b \in 1..Len(d'.batches) PROVE Together(ElementsOf(d'.batches[b]))
    <3> DEFINE a == b + 1
    <3>1. a \in 1..Len(d.batches) /\ d'.batches[b] = d.batches[a]
      BY <1>3
    <3> HIDE DEF a
    <3> QED
      BY <3>1, <1>5
  <2> QED
    BY <1>1, <1>2, <2>1, <2>2 DEF Together
<1>7. InBatch'
  BY <1>1, <1>2, <1>4, <1>6 DEF InBatch, At
<1>8. Still'
  BY <1>1, <1>2, <1>5 DEF Still, At
<1>9. Late'
  <2>1. \A m : Recent(m)' <=> Recent(m)
    BY <1>1 DEF Recent
  <2>2. Repairing' = Repairing
    BY <1>2 DEF Repairing
  <2> QED
    BY <1>1, <1>2, <1>3, <1>4, <1>5, <2>1, <2>2 DEF Calm, Late, At, Replied
<1>10. \A c \in bodies : c \in Answered(s)
  BY <1>4 DEF Calm, Over
<1>11. Over'
  BY <1>1, <1>4, <1>10 DEF Over
<1>12. ResultsFollowReply'
  BY <1>1 DEF Calm, ResultsFollowReply
<1> QED
  BY <1>7, <1>8, <1>9, <1>11, <1>12 DEF Calm

\* The session waits: a stop, a steer, or a text from outside.
LEMMA CalmOutside ==
  ASSUME Whole, Owed, Planned, Calm, used.rejections = 0, StopButton \/ Steer \/ Inject
  PROVE  Calm'
<1>1. s \in Session
  BY DEF Whole, TypeOK
<1>2. d' = d /\ calls' = calls /\ bodies' = bodies
  BY DEF StopButton, Steer, Inject
<1>3. /\ Asked(s') = Asked(s) /\ Answered(s') = Answered(s) /\ (Follow(s) => Follow(s'))
      /\ s'.turn = s.turn /\ s'.msg = s.msg /\ s'.running = s.running
      /\ \A m \in 1..Len(s.messages) : /\ Recent(m) => Recent(m)'
                                       /\ s'.messages[m].uses = s.messages[m].uses
  <2>1. CASE s' = s
    BY <2>1 DEF Recent
  <2>2. CASE s' = Injected(s)
    <3>1. \A m \in 1..Len(s.messages) : Recent(m) => Recent(m)'
      BY <1>1, <2>2, InjectedText, RecentKept
    <3>2. \A m \in 1..Len(s.messages) : s'.messages[m].uses = s.messages[m].uses
      BY <1>1, <2>2, InjectedText DEF Extended
    <3> QED
      BY <1>1, <2>2, <3>1, <3>2, InjectedText
  <2> QED
    BY <2>1, <2>2 DEF StopButton, Steer, Inject
<1>4. Active' = Active /\ Repairing' = Repairing /\ Waiting' = Waiting
  BY <1>2 DEF Active, Repairing, Waiting
<1>5. Still' /\ Over'
  BY <1>2, <1>3, <1>4 DEF Calm, Still, Over, At
<1>6. /\ \A c \in Active \cup s.running \cup Repairing : c[1] \in 1..Len(s.messages)
      /\ At("dispatch") => \A c \in Waiting : c[1] \in 1..Len(s.messages)
  BY CallsAreAsked
<1>7. Replied /\ d.reply > 0 => d.reply \in 1..Len(s.messages)
  BY LenProperties DEF Whole, TypeOK, Session, Driving
<1>8. Late'
  BY <1>2, <1>3, <1>4, <1>6, <1>7 DEF Calm, Late, At, Replied
<1>9. InBatch'
  <2> SUFFICES ASSUME At("dispatch") PROVE InBatch'
    BY <1>2 DEF InBatch, At
  <2>1. /\ Active \subseteq d.batch /\ d.batch \subseteq DOMAIN calls /\ Together(d.batch)
        /\ \A b \in 1..Len(d.batches) : Together(ElementsOf(d.batches[b]))
    BY DEF Calm, InBatch
  <2>2. \A c \in d.batch : c[1] \in 1..Len(s.messages)
    BY <2>1, CallsAreAsked
  <2>3. \A b \in 1..Len(d.batches) : \A c \in ElementsOf(d.batches[b]) : c[1] \in 1..Len(s.messages)
    BY <1>6, WaitingIs
  <2>4. Together(d.batch)'
    BY <1>2, <1>3, <2>1, <2>2 DEF Together
  <2>5. ASSUME NEW b \in 1..Len(d.batches) PROVE Together(ElementsOf(d.batches[b]))'
    BY <1>2, <1>3, <2>1, <2>3 DEF Together
  <2> QED
    BY <1>2, <1>4, <2>1, <2>4, <2>5 DEF InBatch
<1>10. ResultsFollowReply'
  <2>1. used'.rejections = 0 => Follow(s')
    BY <1>3 DEF Calm, ResultsFollowReply, Follow
  <2> QED
    BY <2>1 DEF ResultsFollowReply, Follow
<1> QED
  BY <1>5, <1>8, <1>9, <1>10 DEF Calm

\* A call goes on, or its body ends.
LEMMA CalmCall ==
  ASSUME Whole, Closing, Owed, Planned, Calm, used.rejections = 0,
         \/ \E c \in DOMAIN calls : CallAllowed(c) \/ ToolStarts(c)
         \/ \E c \in bodies : BodyEnds(c)
  PROVE  Calm'
<1>1. s \in Session
  BY DEF Whole, TypeOK
<1>2. PICK c : \/ c \in DOMAIN calls /\ (CallAllowed(c) \/ ToolStarts(c))
               \/ c \in bodies /\ BodyEnds(c)
  OBVIOUS
<1>3. /\ d' = d /\ used' = used /\ DOMAIN calls' = DOMAIN calls
      /\ \A b \in DOMAIN calls : b # c => calls'[b] = calls[b]
      /\ c \in DOMAIN calls => calls[c] = calls'[c] \/ (calls[c] # "done" /\ calls'[c] # "done")
      /\ s'.messages = s.messages /\ s'.turn = s.turn /\ s'.msg = s.msg
      /\ s' = s \/ (ToolStarts(c) /\ s'.running = s.running \cup {c})
  BY <1>1, <1>2 DEF CallAllowed, ToolStarts, BodyEnds, Advance, ToolStarted, Session
<1>4. Active' = Active /\ Repairing' = Repairing /\ Waiting' = Waiting
  BY <1>3 DEF Active, Repairing, Waiting
<1>5. /\ Answered(s') = Answered(s) /\ (Follow(s) => Follow(s'))
      /\ \A m : Recent(m)' <=> Recent(m)
  BY <1>3, SameHistory DEF Recent
<1>6. ASSUME s' # s PROVE c \in Active /\ s'.running = s.running \cup {c} /\ d.pc = "dispatch"
  <2>1. c \in Active
    BY <1>2, <1>3, <1>6 DEF ToolStarts, Active, CallAllowed, BodyEnds
  <2> QED
    BY <1>3, <1>6, <2>1 DEF Calm, Still, At
<1>7. Still'
  <2>1. CASE s' = s
    BY <1>3, <1>4, <2>1 DEF Calm, Still, At
  <2>2. CASE s' # s
    <3>1. /\ c \in Active /\ s'.running = s.running \cup {c} /\ d.pc = "dispatch"
          /\ s.turn # 0 /\ ~s.msg /\ s'.turn = s.turn /\ s'.msg = s.msg
      BY <1>3, <1>6, <2>2 DEF Closing, Places
    <3>2. s.running \subseteq Active
      BY <3>1 DEF Calm, Still, At
    <3> QED
      BY <1>3, <1>4, <3>1, <3>2 DEF Still, At
  <2> QED
    BY <2>1, <2>2
<1>8. Late'
  BY <1>3, <1>4, <1>5, <1>6 DEF Calm, Late, At, Replied
<1>9. InBatch'
  BY <1>3, <1>4 DEF Calm, InBatch, At, Together
<1>10. \A b \in bodies' : b \in Answered(s) \/ (b \in Active /\ calls'[b] = "running")
  <2>1. CASE c \in bodies /\ BodyEnds(c)
    <3>1. bodies' = bodies \ {c}
      BY <2>1 DEF BodyEnds
    <3> QED
      BY <1>3, <3>1 DEF Calm, Over, Active
  <2>2. CASE c \in DOMAIN calls /\ ToolStarts(c)
    <3>1. bodies' = bodies \cup {c} /\ calls'[c] = "running" /\ c \in Active
      BY <2>2 DEF ToolStarts, Advance, Active
    <3> QED
      BY <1>3, <3>1 DEF Calm, Over, Active
  <2>3. CASE c \in DOMAIN calls /\ CallAllowed(c)
    <3>1. bodies' = bodies /\ calls[c] = "judging" /\ c \in Active
      BY <2>3 DEF CallAllowed, Active
    <3>2. c \in bodies => c \in Answered(s)
      BY <3>1 DEF Calm, Over
    <3> QED
      BY <1>3, <3>1, <3>2 DEF Calm, Over, Active
  <2> QED
    BY <1>2, <2>1, <2>2, <2>3
<1>11. Over'
  BY <1>3, <1>4, <1>5, <1>10 DEF Calm, Over
<1>12. ResultsFollowReply'
  BY <1>3 DEF Calm, ResultsFollowReply
<1> QED
  BY <1>7, <1>8, <1>9, <1>11, <1>12 DEF Calm

\* A recent call is answered.
LEMMA RecentAnswer ==
  ASSUME Whole, Calm, used.rejections = 0, used' = used, NEW c \in Owing, Recent(c[1]),
         NEW ok \in BOOLEAN, s' = ToolEnded(s, c, ok)
  PROVE  /\ Extended(<<>>) /\ Answered(s') = Answered(s) \cup {c} /\ ResultsFollowReply'
         /\ s'.running = s.running \ {c} /\ s'.turn = s.turn /\ s'.msg = s.msg
         /\ \A m \in 1..Len(s.messages) : Recent(m) => Recent(m)'
<1>1. TypeOK /\ Counted /\ s \in Session
  BY DEF Whole, TypeOK
<1>2. c \in CallId /\ c \in Asked(s) /\ c \notin Answered(s)
  BY <1>1, AskedBound DEF Owing
<1>3. c[1] = IF LastIsUser(s) THEN Len(s.messages) - 1 ELSE Len(s.messages)
  BY <1>1, <1>2, RecentIsLast
<1>4. /\ Extended(<<>>) /\ UsersTurn
      /\ (Len(s'.messages) = Len(s.messages)) <=> LastIsUser(s)
      /\ Answered(s') = Answered(s) \cup {c} /\ (Follow(s) => Follow(s'))
  BY <1>1, <1>2, <1>3, ResultEvent
<1>5. ResultsFollowReply'
  BY <1>4 DEF Calm, ResultsFollowReply, Follow
<1>6. s'.running = s.running \ {c} /\ s'.turn = s.turn /\ s'.msg = s.msg
  BY <1>1 DEF ToolEnded, SetLast, Session
<1>7. \A m \in 1..Len(s.messages) : Recent(m) => Recent(m)'
  BY <1>1, <1>4, RecentKept
<1> QED
  BY <1>4, <1>5, <1>6, <1>7

\* A call of the batch is over.
LEMMA CalmAnswer ==
  ASSUME Whole, Owed, Planned, Calm, used.rejections = 0,
         NEW c \in DOMAIN calls, CallEnds(c) \/ CallFails(c)
  PROVE  Calm'
<1>1. c \in Active /\ c \in Owing /\ Recent(c[1])
  BY DEF CallEnds, CallFails, Active, Owed, Calm, Late
<1>2. /\ d' = d /\ used' = used /\ bodies' = bodies /\ DOMAIN calls' = DOMAIN calls
      /\ calls'[c] = "done" /\ \A b \in DOMAIN calls : b # c => calls'[b] = calls[b]
  BY DEF CallEnds, CallFails, Advance
<1>3. \E ok \in BOOLEAN : s' = ToolEnded(s, c, ok)
  BY DEF CallEnds, CallFails
<1>4. /\ Extended(<<>>) /\ Answered(s') = Answered(s) \cup {c} /\ ResultsFollowReply'
      /\ s'.running = s.running \ {c} /\ s'.turn = s.turn /\ s'.msg = s.msg
      /\ \A m \in 1..Len(s.messages) : Recent(m) => Recent(m)'
  BY <1>1, <1>2, <1>3, RecentAnswer
<1>5. Active' = Active \ {c} /\ Repairing' = Repairing /\ Waiting' = Waiting
  BY <1>2 DEF Active, Repairing, Waiting
<1>6. d.pc = "dispatch"
  BY <1>1 DEF Calm, Still, At
<1>7. Still'
  BY <1>2, <1>4, <1>5, <1>6 DEF Calm, Still, At
<1>8. /\ \A b \in Active \cup s.running \cup Repairing : b[1] \in 1..Len(s.messages)
      /\ \A b \in Waiting : b[1] \in 1..Len(s.messages)
  BY <1>6, CallsAreAsked DEF At
<1>9. Late'
  BY <1>2, <1>4, <1>5, <1>6, <1>8 DEF Calm, Late, At, Replied
<1>10. /\ Active \subseteq d.batch /\ d.batch \subseteq DOMAIN calls /\ Together(d.batch)
       /\ \A b \in 1..Len(d.batches) : Together(ElementsOf(d.batches[b]))
  BY <1>6 DEF Calm, InBatch, At
<1>11. InBatch'
  <2>1. \A b \in d.batch : b[1] \in 1..Len(s.messages)
    BY <1>10, CallsAreAsked
  <2>2. \A b \in 1..Len(d.batches) : \A a \in ElementsOf(d.batches[b]) : a[1] \in 1..Len(s.messages)
    BY <1>8, WaitingIs
  <2>3. \A m \in 1..Len(s.messages) : s'.messages[m].uses = s.messages[m].uses
    BY <1>4 DEF Extended
  <2>4. Together(d.batch)'
    BY <1>2, <1>10, <2>1, <2>3 DEF Together
  <2>5. ASSUME NEW b \in 1..Len(d.batches) PROVE Together(ElementsOf(d.batches[b]))'
    BY <1>2, <1>10, <2>2, <2>3 DEF Together
  <2> QED
    BY <1>2, <1>5, <1>10, <2>4, <2>5 DEF InBatch
<1>12. Over'
  BY <1>1, <1>2, <1>4, <1>5 DEF Calm, Over, Active
<1> QED
  BY <1>4, <1>7, <1>9, <1>11, <1>12 DEF Calm

\* The recovery answers a call the dead process left.
LEMMA CalmRecovery ==
  ASSUME Whole, Owed, Planned, Calm, used.rejections = 0, SynthMessage \/ \E c : SynthCall(c)
  PROVE  Calm'
<1>1. s \in Session /\ d \in Driving
  BY DEF Whole, TypeOK
<1>2. DOMAIN calls = {} /\ bodies = {} /\ calls' = calls /\ bodies' = bodies /\ d.pc = "synth" /\ used' = used
      /\ d'.pc = "synth"
  BY <1>1 DEF SynthMessage, SynthCall, At, Owed, Driving
<1>3. Active = {} /\ Active' = {}
  BY <1>2 DEF Active
<1>4. InBatch' /\ Over'
  BY <1>2, <1>3 DEF InBatch, Over, At
<1>5. CASE SynthMessage
  <2>1. s'.messages = s.messages /\ s'.running = s.running /\ s'.turn = s.turn /\ ~s'.msg
    BY <1>1, <1>5 DEF SynthMessage, MessageInterrupted, Session
  <2>2. d'.synth.running = d.synth.running /\ d'.synth.dangling = d.synth.dangling
    BY <1>1, <1>5 DEF SynthMessage, Driving
  <2>3. Repairing' = Repairing /\ \A m : Recent(m)' <=> Recent(m)
    BY <2>1, <2>2 DEF Repairing, Recent
  <2>4. Still'
    BY <1>2, <1>3, <2>1, <2>2 DEF Calm, Still, At
  <2>5. Late'
    BY <1>2, <1>3, <2>1, <2>3 DEF Calm, Late, At, Replied
  <2>6. ResultsFollowReply'
    BY <1>2, <2>1 DEF Calm, ResultsFollowReply
  <2> QED
    BY <1>4, <2>4, <2>5, <2>6 DEF Calm
<1>6. ASSUME NEW c, SynthCall(c) PROVE Calm'
  <2>1. c \in Repairing /\ c \in Owing /\ Recent(c[1]) /\ s' = ToolEnded(s, c, FALSE)
    BY <1>6 DEF SynthCall, Repairing, Owed, Calm, Late
  <2>2. /\ ResultsFollowReply'
        /\ s'.running = s.running \ {c} /\ s'.turn = s.turn /\ s'.msg = s.msg
        /\ \A m \in 1..Len(s.messages) : Recent(m) => Recent(m)'
    BY <1>2, <2>1, RecentAnswer
  <2>3. d'.synth.running \in {d.synth.running, d.synth.running \ {c}}
        /\ d'.synth.dangling \subseteq d.synth.dangling
    BY <1>1, <1>6 DEF SynthCall, Driving
  <2>4. Repairing' \subseteq Repairing
    BY <2>3 DEF Repairing
  <2>5. Still'
    BY <1>2, <1>3, <2>2, <2>3 DEF Calm, Still, At
  <2>6. \A b \in Active \cup s.running \cup Repairing : b[1] \in 1..Len(s.messages)
    BY CallsAreAsked
  <2>7. Late'
    BY <1>2, <1>3, <2>2, <2>4, <2>6 DEF Calm, Late, At, Replied
  <2> QED
    BY <1>4, <2>2, <2>5, <2>7 DEF Calm
<1> QED
  BY <1>5, <1>6

\* A crash leaves what runs to the recovery, and a restart looks for it.
LEMMA CalmCrash ==
  ASSUME Whole, Owed, Planned, Calm, used.rejections = 0,
         Crash \/ Restart \/ \E resume \in BOOLEAN : Settle(resume), Closing
  PROVE  Calm'
<1>1. s \in Session /\ d \in Driving /\ TypeOK
  BY DEF Whole, TypeOK
<1>2. s' = s /\ Asked(s') = Asked(s) /\ Answered(s') = Answered(s)
  BY DEF Crash, Restart, Settle
<1>3. ResultsFollowReply'
  BY <1>2 DEF Calm, ResultsFollowReply
<1>4. DOMAIN calls' = {} /\ bodies' = {} /\ d'.pc \in {"idle", "dead", "orphaned", "synth"}
  <2>1. CASE Crash
    BY <2>1 DEF Crash, NoCalls, Idle
  <2>2. CASE Restart
    BY <1>1, <2>2 DEF Restart, Goto, At, Owed, Driving
  <2>3. ASSUME NEW resume \in BOOLEAN, Settle(resume)
        PROVE  DOMAIN calls' = {} /\ bodies' = {} /\ d'.pc = "synth"
    BY <1>1, <2>3 DEF Settle, At, Owed, Driving
  <2> QED
    BY <2>1, <2>2, <2>3
<1>5. Active' = {} /\ InBatch' /\ Over' /\ ~Replied'
  BY <1>4 DEF Active, InBatch, Over, At, Replied
<1>6. \A m : Recent(m)' <=> Recent(m)
  BY <1>2 DEF Recent
<1>7. CASE Crash
  <2>1. d'.pc = "dead" /\ Repairing' = {}
    BY <1>7 DEF Crash, Idle, Repairing, NoSynth
  <2>2. Still'
    BY <1>2, <1>5, <2>1 DEF Calm, Still, At
  <2>3. Late'
    BY <1>2, <1>5, <1>6, <2>1 DEF Calm, Late, At
  <2> QED
    BY <1>3, <1>5, <2>2, <2>3 DEF Calm
<1>8. CASE Restart
  <2>1. /\ d.pc = "dead" /\ d'.pc = (IF s.turn = 0 THEN "idle" ELSE "orphaned") /\ d'.synth = d.synth
        /\ d.synth = NoSynth
    BY <1>1, <1>8 DEF Restart, Goto, At, Driving, Owed
  <2>2. Still'
    BY <1>2, <1>5, <2>1 DEF Calm, Still, At
  <2>3. Repairing' = {}
    BY <2>1 DEF Repairing, NoSynth
  <2>4. Late'
    BY <1>2, <1>5, <1>6, <2>1, <2>3 DEF Calm, Late, At
  <2> QED
    BY <1>3, <1>5, <2>2, <2>4 DEF Calm
<1>9. ASSUME NEW resume \in BOOLEAN, Settle(resume) PROVE Calm'
  <2>1. d.pc = "orphaned" /\ d'.pc = "synth" /\ d'.synth = Interruption
    BY <1>1, <1>9 DEF Settle, At, Driving
  <2>2. Still'
    BY <1>2, <1>5, <2>1 DEF Calm, Still, At, Interruption
  <2>3. ASSUME NEW c \in Dangling, s.running # {} PROVE Recent(c[1])
    <3>1. PICK b \in s.running : TRUE
      BY <2>3
    <3>2. Recent(b[1]) /\ b \in Asked(s)
      BY CallsAreAsked DEF Calm, Late
    <3>3. b[1] \in 1..Len(s.messages) /\ s.messages[b[1]].role = "assistant" /\ Len(s.messages) \in Nat
      BY <1>1, <3>2, AskedBound, LenProperties DEF Whole, Session
    <3>4. /\ LastReply \in 0..Len(s.messages)
          /\ \A k \in LastReply + 1..Len(s.messages) : s.messages[k].role = "user"
      BY <1>1, LastReplyFound
    <3>5. b[1] <= LastReply
      BY <3>3, <3>4
    <3>6. c[1] = LastReply
      BY DEF Dangling, Uses
    <3> QED
      BY <3>2, <3>3, <3>4, <3>5, <3>6 DEF Recent
  <2>4. Repairing' \subseteq s.running \cup (IF s.running = {} THEN {} ELSE Dangling)
    BY <2>1 DEF Repairing, Interruption
  <2>5. \A c \in s.running : Recent(c[1])
    BY DEF Calm, Late
  <2>6. Late'
    BY <1>2, <1>5, <1>6, <2>1, <2>3, <2>4, <2>5 DEF Late, At
  <2> QED
    BY <1>3, <1>5, <2>2, <2>6 DEF Calm
<1> QED
  BY <1>7, <1>8, <1>9

\* A turn begins, or a reply comes: nothing of an earlier one is on its way.
LEMMA CalmMessage ==
  ASSUME Whole, Closing, Owed, Calm, used.rejections = 0, AnswersPrompt, StartTurn \/ StreamEnds
  PROVE  Calm'
<1>1. s \in Session /\ d \in Driving
  BY DEF Whole, TypeOK
<1>2. calls' = calls /\ bodies' = bodies /\ d.pc \in {"idle", "stream"}
  BY DEF StartTurn, StreamEnds, At
<1>3. Active = {} /\ s.running = {} /\ d.synth = NoSynth
  BY <1>2 DEF Calm, Still, Owed, At
<1>4. \A c \in DOMAIN calls \cup bodies : c \in Answered(s)
  BY <1>3 DEF Calm, Over
<1>5. ASSUME Answered(s') = Answered(s), Follow(s) => Follow(s'), s'.running = {}, d'.synth = NoSynth,
             d'.pc \notin {"dispatch", "synth"}, Replied' /\ d'.reply > 0 => Recent(d.reply)'
      PROVE  Calm'
  <2>1. Active' = {} /\ Repairing' = {}
    BY <1>2, <1>3, <1>5 DEF Active, Repairing, NoSynth
  <2>2. Still' /\ InBatch'
    BY <1>5, <2>1 DEF Still, InBatch, At
  <2>3. Late'
    BY <1>5, <2>1 DEF Late, At
  <2>4. Over'
    BY <1>2, <1>4, <1>5 DEF Over
  <2>5. ResultsFollowReply'
    BY <1>5 DEF Calm, ResultsFollowReply, Follow
  <2> QED
    BY <2>2, <2>3, <2>4, <2>5 DEF Calm
<1>6. CASE StartTurn
  <2>1. Answered(s') = Answered(s) /\ (Follow(s) => Follow(s'))
    BY <1>1, <1>6, TextEvent DEF StartTurn
  <2>2. s'.running = {} /\ d'.pc = "top" /\ d'.synth = NoSynth
    BY <1>1, <1>3, <1>6 DEF StartTurn, TurnStarted, Session, Idle
  <2> QED
    BY <1>5, <2>1, <2>2 DEF Replied
<1>7. CASE StreamEnds
  <2>1. PICK n \in 0..MaxCallsPer : \E uses \in [1..n -> BOOLEAN] : s' = MessageEnded(s, uses)
    BY <1>7 DEF StreamEnds
  <2>2. PICK uses \in [1..n -> BOOLEAN] : s' = MessageEnded(s, uses)
    BY <2>1
  <2>3. n \in Nat
    BY TurnAssumption
  <2>4. /\ Answered(s') = Answered(s) /\ (Follow(s) => Follow(s'))
        /\ Len(s'.messages) = Len(s.messages) + 1
    BY <1>1, <2>2, <2>3, FunctionIsSeq, ReplyEvent
  <2>5. s'.running = {}
    BY <1>1, <1>3, <2>2 DEF MessageEnded, Session
  <2>6. /\ d'.reply = Len(s'.messages) /\ d'.synth = NoSynth
        /\ d'.pc \in {"interrupted", "failed", "stopping"}
    BY <1>1, <1>3, <1>7, <2>4 DEF StreamEnds, Driving
  <2>7. Recent(d.reply)'
    BY <2>6 DEF Recent
  <2> QED
    BY <1>5, <2>4, <2>5, <2>6, <2>7
<1> QED
  BY <1>6, <1>7

\* Every step keeps the driver with its calls, if each tool.end could be recorded.
LEMMA CalmStep ==
  ASSUME Whole, Closing, Owed, Planned, Fresh, used.rejections = 0 => Calm, AnswersPrompt, Next,
         used'.rejections = 0
  PROVE  Calm'
<1>1. used \in Spent
  BY CountedParts DEF Whole
<1>2. ~(\E c \in DOMAIN calls : EndRejects(c))
  BY <1>1, Spending DEF EndRejects, Spent
<1>3. used.rejections = 0 /\ Calm
  <2>1. CASE StartTurn \/ StreamEnds \/ StopButton \/ Inject \/ Crash
    <3>1. used'.rejections = used.rejections
      BY <1>1, <2>1, Spending DEF StartTurn, StreamEnds, StopButton, Inject, Crash
    <3> QED
      BY <3>1
  <2>2. CASE Loop
    BY <2>2, LoopKeeps
  <2>3. CASE \/ DispatchBatch \/ Steer \/ Restart \/ SynthMessage
             \/ \E resume \in BOOLEAN : Settle(resume)
             \/ \E c \in DOMAIN calls : CallStep(c)
             \/ \E c \in bodies : BodyEnds(c)
             \/ \E c : SynthCall(c)
    BY <2>3 DEF DispatchBatch, Steer, Restart, SynthMessage, Settle, CallStep, CallAllowed, ToolStarts,
                CallEnds, CallFails, BodyEnds, SynthCall
  <2> QED
    BY <1>2, <2>1, <2>2, <2>3 DEF Next, Driver, World, Loop
<1>4. Loop /\ d'.pc = "dispatch" => StoppingAfterStream
  <2>1. d \in Driving
    BY DEF Whole, TypeOK
  <2> SUFFICES ASSUME Loop, ~StoppingAfterStream PROVE d'.pc # "dispatch"
    OBVIOUS
  <2>2. CASE Top \/ RequestReady \/ RequestFails \/ RecordInterrupted \/ RecordError
    BY <2>1, <2>2 DEF Top, RequestReady, RequestFails, RecordInterrupted, RecordError, Goto, Stop, Driving
  <2>3. CASE StepError \/ AfterTools \/ TurnEnds \/ SynthDone
    BY <2>1, <2>3 DEF StepError, AfterTools, TurnEnds, SynthDone, Goto, Stop, Throw, Driving, Idle
  <2> QED
    BY <2>2, <2>3 DEF Loop
<1>5. CASE Loop
  BY <1>3, <1>4, <1>5, CalmLoop, CalmDispatching
<1>6. CASE DispatchBatch
  BY <1>3, <1>6, CalmJudged
<1>7. CASE \E c \in DOMAIN calls : CallStep(c)
  BY <1>3, <1>7, CalmCall, CalmAnswer DEF CallStep
<1>8. CASE \E c \in bodies : BodyEnds(c)
  BY <1>3, <1>8, CalmCall
<1>9. CASE StopButton \/ Steer \/ Inject
  BY <1>3, <1>9, CalmOutside
<1>10. CASE SynthMessage \/ \E c : SynthCall(c)
  BY <1>3, <1>10, CalmRecovery
<1>11. CASE Crash \/ Restart \/ \E resume \in BOOLEAN : Settle(resume)
  BY <1>3, <1>11, CalmCrash
<1>12. CASE StartTurn \/ StreamEnds
  BY <1>3, <1>12, CalmMessage
<1> QED
  BY <1>2, <1>5, <1>6, <1>7, <1>8, <1>9, <1>10, <1>11, <1>12 DEF Next, Driver, World, Loop

-----------------------------------------------------------------------------
(* Before the first crash                                                  *)

\* A bound once spent stays spent.
LEMMA Unspent ==
  ASSUME Whole, Owed, Next, used'.rejections = 0, used'.crashes = 0
  PROVE  /\ used.rejections = 0 /\ used.crashes = 0 /\ ~Crash
         /\ ~(\E c \in DOMAIN calls : EndRejects(c))
<1>1. used \in Spent
  BY CountedParts DEF Whole
<1>2. ~(\E c \in DOMAIN calls : EndRejects(c))
  BY <1>1, Spending DEF EndRejects, Spent
<1>3. ~Crash
  BY <1>1, Spending DEF Crash, Spent
<1>4. used.rejections = 0 /\ used.crashes = 0
  <2>1. CASE StartTurn \/ StreamEnds \/ StopButton \/ Inject
    <3>1. used'.rejections = used.rejections /\ used'.crashes = used.crashes
      BY <1>1, <2>1, Spending DEF StartTurn, StreamEnds, StopButton, Inject
    <3> QED
      BY <3>1
  <2>2. CASE Loop
    BY <2>2, LoopKeeps
  <2>3. CASE \/ DispatchBatch \/ Steer \/ Restart \/ SynthMessage
             \/ \E resume \in BOOLEAN : Settle(resume)
             \/ \E c \in DOMAIN calls : CallStep(c)
             \/ \E c \in bodies : BodyEnds(c)
             \/ \E c : SynthCall(c)
    BY <2>3 DEF DispatchBatch, Steer, Restart, SynthMessage, Settle, CallStep, CallAllowed, ToolStarts,
                CallEnds, CallFails, BodyEnds, SynthCall
  <2> QED
    BY <1>2, <1>3, <2>1, <2>2, <2>3 DEF Next, Driver, World, Loop
<1> QED
  BY <1>2, <1>3, <1>4

\* Where nothing is dispatched, the calls without an answer are of unsent replies.
LEMMA UnsentKept ==
  ASSUME Dispatched, ~At("stopping"), ~At("dispatch"), Owing' \subseteq Owing, unsent' = unsent
  PROVE  Dispatched'
  BY DEF Dispatched

\* A reply is decided on: its calls are dispatched, or it has none, or it is left
\* unsent.
LEMMA DecidedOn ==
  ASSUME Whole, Owed, Fresh, Dispatched, StoppingAfterStream
  PROVE  Dispatched'
<1>1. d.pc = "stopping" /\ s' = s /\ Owing' = Owing /\ unsent \subseteq unsent' /\ d \in Driving
      /\ TypeOK /\ Counted
  BY DEF StoppingAfterStream, Owing, At, Whole, TypeOK
<1> SUFFICES ASSUME NEW c \in Owing, c[1] \notin unsent
             PROVE  c[1] \in unsent' \/ (d'.pc = "dispatch" /\ c \in Waiting')
  BY <1>1 DEF Dispatched, At
<1>2. d.reason # "error" /\ c[1] = d.reply
  BY <1>1 DEF Dispatched, At
<1>3. c \in Uses(s, d.reply) /\ d.reply > 0 /\ Len(s.messages) \in Nat
  BY <1>1, <1>2, AskedBound, LenProperties DEF Owing, TypeOK, Session
<1>4. CASE aborted
  BY <1>2, <1>4 DEF StoppingAfterStream
<1>5. CASE ~aborted
  <2>1. ReplyUses # <<>>
    BY <1>3, EmptySeq DEF ReplyUses, Uses
  <2>2. d' = [d EXCEPT !.pc = "dispatch", !.batch = {}, !.batches = BatchesOf(d.reply)]
    BY <1>2, <1>5, <2>1 DEF StoppingAfterStream
  <2>3. d'.pc = "dispatch"
    BY <1>1, <2>2 DEF Driving
  <2> QED
    BY <1>3, <2>3, Dispatching
<1> QED
  BY <1>4, <1>5

\* A reply comes.
LEMMA ReplyComes ==
  ASSUME Whole, Dispatched, StreamEnds
  PROVE  Dispatched'
<1>1. TypeOK /\ s \in Session /\ d \in Driving /\ d.pc = "stream"
  BY DEF Whole, TypeOK, StreamEnds, At
<1> DEFINE new == Len(s.messages) + 1
<1>2. PICK n \in 0..MaxCallsPer : \E uses \in [1..n -> BOOLEAN] :
        \E how \in {"end_turn", "max_tokens", "error"} :
          /\ s' = MessageEnded(s, uses)
          /\ unsent' = IF aborted \/ how = "error" THEN unsent \cup {new} ELSE unsent
          /\ d' = [d EXCEPT !.reply = new, !.reason = IF aborted THEN "aborted" ELSE how,
                            !.pc = IF aborted THEN "interrupted"
                                   ELSE IF how = "error" THEN "failed" ELSE "stopping"]
  BY DEF StreamEnds
<1>3. PICK uses \in [1..n -> BOOLEAN], how \in {"end_turn", "max_tokens", "error"} :
          /\ s' = MessageEnded(s, uses)
          /\ unsent' = IF aborted \/ how = "error" THEN unsent \cup {new} ELSE unsent
          /\ d' = [d EXCEPT !.reply = new, !.reason = IF aborted THEN "aborted" ELSE how,
                            !.pc = IF aborted THEN "interrupted"
                                   ELSE IF how = "error" THEN "failed" ELSE "stopping"]
  BY <1>2
<1>4. n \in Nat
  BY TurnAssumption
<1>5. /\ Asked(s') = Asked(s) \cup {<<new, i>> : i \in 1..Len(uses)}
      /\ Answered(s') = Answered(s)
  BY <1>1, <1>3, <1>4, FunctionIsSeq, ReplyEvent
<1>6. new \in unsent' \/ (d'.pc = "stopping" /\ d'.reason # "error" /\ d'.reply = new)
  BY <1>1, <1>3 DEF Driving
<1>7. \A c \in Owing' : c \in Owing \/ c[1] = new
  BY <1>5 DEF Owing
<1>8. \A c \in Owing : c[1] \in unsent'
  BY <1>1, <1>3 DEF Dispatched, At
<1> QED
  BY <1>6, <1>7, <1>8 DEF Dispatched, At

\* Every step before the first crash dispatches what it should.
LEMMA DispatchedStep ==
  ASSUME Whole, Owed, Planned, Fresh, Calm, Dispatched, Next,
         used'.rejections = 0, used'.crashes = 0
  PROVE  Dispatched'
<1>1. TypeOK /\ Counted /\ s \in Session /\ d \in Driving
  BY DEF Whole, TypeOK
<1>2. ~Crash /\ ~(\E c \in DOMAIN calls : EndRejects(c))
  BY Unspent
<1>3. CASE StoppingAfterStream
  BY <1>3, DecidedOn
<1>4. CASE Loop /\ ~StoppingAfterStream
  <2>1. Owing' = Owing /\ unsent' = unsent
    <3>1. s'.messages = s.messages
      BY <1>4, LoopKeeps
    <3>2. Owing' = Owing
      BY <3>1, SameHistory DEF Owing
    <3> QED
      BY <1>4, <3>2 DEF Loop, Top, RequestReady, RequestFails, RecordInterrupted, RecordError, StepError,
                        AfterTools, TurnEnds, SynthDone
  <2>2. CASE AfterTools
    <3>1. d.pc = "dispatch" /\ Active = {} /\ d.batches = <<>>
      BY <2>2 DEF AfterTools, BatchDone, Calm, InBatch, Active, At
    <3>2. Waiting = {}
      BY <3>1, EmptySeq DEF Waiting
    <3> QED
      BY <2>1, <3>1, <3>2 DEF Dispatched, At
  <2>3. CASE ~AfterTools
    <3>1. ~At("dispatch") /\ ~At("stopping")
      BY <1>4, <2>3 DEF Loop, Top, RequestReady, RequestFails, RecordInterrupted, RecordError, StepError,
                        TurnEnds, SynthDone, At
    <3> QED
      BY <2>1, <3>1, UnsentKept
  <2> QED
    BY <2>2, <2>3
<1>5. CASE StreamEnds
  BY <1>5, ReplyComes
<1>6. CASE DispatchBatch
  <2>1. Waiting' \cup Active' = Waiting \cup Active
    BY <1>6, Judged, JudgedRest
  <2>2. Owing' = Owing /\ unsent' = unsent /\ d.pc = "dispatch" /\ d'.pc = "dispatch"
    BY <1>1, <1>6 DEF DispatchBatch, Judge, Owing, At, Driving
  <2> QED
    BY <2>1, <2>2 DEF Dispatched, At
<1>7. CASE StopButton \/ Steer
  BY <1>7 DEF StopButton, Steer, Dispatched, Owing, Active, Waiting, At
<1>8. CASE Inject
  <2>1. Owing' = Owing
    BY <1>1, <1>8, TextEvent DEF Inject, Owing
  <2>2. d' = d /\ calls' = calls /\ unsent' = unsent
    BY <1>8 DEF Inject
  <2> QED
    BY <2>1, <2>2 DEF Dispatched, Active, Waiting, At
<1>9. CASE \/ \E c \in DOMAIN calls : CallAllowed(c) \/ ToolStarts(c)
           \/ \E c \in bodies : BodyEnds(c)
  <2>1. PICK c : \/ c \in DOMAIN calls /\ (CallAllowed(c) \/ ToolStarts(c))
                 \/ c \in bodies /\ BodyEnds(c)
    BY <1>9
  <2>2. /\ d' = d /\ unsent' = unsent /\ DOMAIN calls' = DOMAIN calls
        /\ \A b \in DOMAIN calls : b # c => calls'[b] = calls[b]
        /\ c \in DOMAIN calls => calls[c] = calls'[c] \/ (calls[c] # "done" /\ calls'[c] # "done")
        /\ s'.messages = s.messages
    BY <1>1, <2>1 DEF CallAllowed, ToolStarts, BodyEnds, Advance, ToolStarted, Session
  <2>3. Owing' = Owing
    BY <2>2, SameHistory DEF Owing
  <2>4. Active' = Active /\ Waiting' = Waiting
    BY <2>2 DEF Active, Waiting
  <2> QED
    BY <2>2, <2>3, <2>4 DEF Dispatched, At
<1>10. ASSUME NEW c \in DOMAIN calls, CallEnds(c) \/ CallFails(c) PROVE Dispatched'
  <2>1. c \in Owing /\ c \in CallId /\ c \notin Answered(s)
    BY <1>1, <1>10, AskedBound DEF CallEnds, CallFails, Owed, Active, Owing
  <2>2. \E ok \in BOOLEAN : s' = ToolEnded(s, c, ok)
    BY <1>10 DEF CallEnds, CallFails
  <2>3. Owing' = Owing \ {c}
    BY <1>1, <2>1, <2>2, ResultEvent DEF Owing
  <2>4. /\ d' = d /\ unsent' = unsent /\ DOMAIN calls' = DOMAIN calls
        /\ \A b \in DOMAIN calls : b # c => calls'[b] = calls[b]
    BY <1>10 DEF CallEnds, CallFails, Advance
  <2>5. Active \ {c} \subseteq Active' /\ Waiting' = Waiting
    BY <2>4 DEF Active, Waiting
  <2> QED
    BY <2>3, <2>4, <2>5 DEF Dispatched, At
<1>11. CASE SynthMessage
  <2>1. s'.messages = s.messages
    BY <1>1, <1>11 DEF SynthMessage, MessageInterrupted, Session
  <2>2. Owing' = Owing
    BY <2>1, SameHistory DEF Owing
  <2> QED
    BY <1>11, <2>2, UnsentKept DEF SynthMessage, At
<1>12. ASSUME NEW c, SynthCall(c) PROVE Dispatched'
  <2>1. c \in Owing /\ c \in CallId /\ c \notin Answered(s)
    BY <1>1, <1>12, AskedBound DEF SynthCall, Owed, Repairing, Owing
  <2>2. Owing' = Owing \ {c}
    BY <1>1, <1>12, <2>1, ResultEvent DEF Owing, SynthCall
  <2> QED
    BY <1>12, <2>2, UnsentKept DEF SynthCall, At
<1>13. CASE Restart \/ \E resume \in BOOLEAN : Settle(resume)
  BY <1>13, UnsentKept DEF Restart, Settle, Owing, At
<1>14. CASE StartTurn
  <2>1. Owing' = Owing
    BY <1>1, <1>14, TextEvent DEF StartTurn, Owing
  <2> QED
    BY <1>14, <2>1, UnsentKept DEF StartTurn, At
<1> QED
  BY <1>2, <1>3, <1>4, <1>5, <1>6, <1>7, <1>8, <1>9, <1>10, <1>11, <1>12, <1>13, <1>14
     DEF Next, Driver, World, CallStep, Loop

-----------------------------------------------------------------------------
(* The invariant                                                           *)

\* Nothing is recorded yet, and nothing runs.
LEMMA InvInit == Init => IInv
<1> SUFFICES ASSUME Init PROVE IInv
  OBVIOUS
<1>1. /\ s = Empty /\ d = Idle /\ calls = NoCalls /\ bodies = {} /\ aborted = FALSE /\ steer = FALSE
      /\ unsent = {}
      /\ used = [turns |-> 0, replies |-> 0, injections |-> 0, crashes |-> 0, stops |-> 0, rejections |-> 0]
  BY DEF Init
<1>2. s.messages = <<>> /\ Len(s.messages) = 0 /\ s.running = {} /\ s.turn = 0 /\ ~s.msg
  BY <1>1 DEF Empty
<1>3. d.pc = "idle" /\ d.synth = NoSynth /\ d.reply = 0 /\ d.batches = <<>>
  BY <1>1 DEF Idle
<1>4. DOMAIN calls = {}
  BY <1>1 DEF NoCalls
<1>5. TypeOK
  <2>1. s \in Session
    BY <1>1, EmptySeq, TurnAssumption DEF Session, Empty
  <2>2. d \in Driving
    BY <1>1, IdleType
  <2>3. calls \in [DOMAIN calls -> Stages]
    BY <1>1 DEF NoCalls
  <2>4. d.reply <= Len(s.messages)
    BY <1>2, <1>3
  <2>5. DOMAIN calls \subseteq CallId /\ bodies \subseteq CallId /\ unsent \subseteq Nat
        /\ aborted \in BOOLEAN /\ steer \in BOOLEAN
    BY <1>1, <1>4
  <2> QED
    BY <2>1, <2>2, <2>3, <2>4, <2>5 DEF TypeOK
<1>6. Counted
  BY <1>1, <1>2, TurnAssumption DEF Counted
<1>7. Asked(s) = {} /\ Answered(s) = {}
  BY <1>2 DEF Asked, Answered
<1>8. Closing
  BY <1>1 DEF Init, Empty, Idle, NoSynth, Closing, Fields, Places
<1>9. AnsweredOnce
  BY <1>2 DEF AnsweredOnce
<1>10. Active = {} /\ Owing = {} /\ Repairing = {}
  BY <1>3, <1>4, <1>7 DEF Active, Owing, Repairing, NoSynth
<1>11. Owed
  BY <1>1, <1>2, <1>3, <1>4, <1>7, <1>10 DEF Owed, At, NoSynth
<1>12. Planned /\ Fresh
  BY <1>3 DEF Planned, Fresh, Replied, At
<1>13. Calm
  <2>1. Still /\ InBatch
    BY <1>2, <1>3, <1>10 DEF Still, InBatch, At
  <2>2. Late /\ Over
    BY <1>1, <1>2, <1>3, <1>4, <1>10 DEF Late, Over, Replied, At
  <2>3. ResultsFollowReply
    BY <1>2 DEF ResultsFollowReply
  <2> QED
    BY <2>1, <2>2, <2>3 DEF Calm
<1>14. Dispatched
  BY <1>10 DEF Dispatched
<1> QED
  BY <1>5, <1>6, <1>8, <1>9, <1>11, <1>12, <1>13, <1>14 DEF IInv

\* A step that changes nothing.
LEMMA InvStutters ==
  ASSUME IInv, UNCHANGED vars
  PROVE  IInv'
<1>1. /\ s' = s /\ d' = d /\ calls' = calls /\ bodies' = bodies /\ aborted' = aborted
      /\ steer' = steer /\ unsent' = unsent /\ used' = used
  BY DEF vars
<1>2. TypeOK' /\ Counted' /\ AnsweredOnce' /\ Fresh'
  <2>1. TypeOK'
    BY <1>1 DEF IInv, TypeOK
  <2>2. Counted'
    BY <1>1 DEF IInv, Counted, LastIsUser
  <2>3. AnsweredOnce'
    BY <1>1, SameHistory DEF IInv
  <2>4. Fresh'
    BY <1>1 DEF IInv, Fresh, Replied, Answered
  <2> QED
    BY <2>1, <2>2, <2>3, <2>4
<1>3. Closing'
  BY <1>1 DEF IInv, Closing, Fields, Places
<1>4. Active' = Active /\ Waiting' = Waiting /\ Owing' = Owing /\ Repairing' = Repairing
  BY <1>1 DEF Active, Waiting, Owing, Repairing
<1>5. Owed' /\ Planned'
  BY <1>1, <1>4 DEF IInv, Owed, Planned, At
<1>6. \A m : Recent(m)' <=> Recent(m)
  BY <1>1 DEF Recent
<1>7. Calm => Calm'
  <2> SUFFICES ASSUME Calm PROVE Calm'
    OBVIOUS
  <2>1. Still' /\ Over'
    BY <1>1, <1>4 DEF Calm, Still, Over, At
  <2>2. InBatch'
    BY <1>1, <1>4 DEF Calm, InBatch, At, Together
  <2>3. Late'
    BY <1>1, <1>4, <1>6 DEF Calm, Late, At, Replied
  <2>4. ResultsFollowReply'
    BY <1>1 DEF Calm, ResultsFollowReply
  <2> QED
    BY <2>1, <2>2, <2>3, <2>4 DEF Calm
<1>8. Dispatched => Dispatched'
  BY <1>1, <1>4 DEF Dispatched, At
<1> QED
  BY <1>1, <1>2, <1>3, <1>5, <1>7, <1>8 DEF IInv

\* What has not happened yet need not be looked at.
LEMMA InvStep ==
  ASSUME AnswersPrompt, IInv, Next
  PROVE  IInv'
<1>1. Whole /\ Closing /\ Owed /\ Planned /\ Fresh
  BY DEF IInv, Whole
<1>2. Whole'
  BY <1>1, WholeStep
<1>3. Closing'
  BY <1>1, ClosingStep
<1>4. Owed' /\ Planned' /\ Fresh'
  BY <1>1, OwedStep, PlannedStep, FreshStep
<1>5. used.rejections = 0 => Calm
  BY DEF IInv
<1>6. used'.rejections = 0 => Calm'
  BY <1>1, <1>5, CalmStep
<1>7. used'.rejections = 0 /\ used'.crashes = 0 => Dispatched'
  <2> SUFFICES ASSUME used'.rejections = 0, used'.crashes = 0 PROVE Dispatched'
    OBVIOUS
  <2>1. used.rejections = 0 /\ used.crashes = 0
    BY <1>1, Unspent
  <2> QED
    BY <1>1, <2>1, DispatchedStep DEF IInv
<1> QED
  BY <1>2, <1>3, <1>4, <1>6, <1>7 DEF IInv, Whole

\* The inductive invariant holds, whatever the bounds.
THEOREM TurnInvariant ==
  ASSUME AnswersPrompt
  PROVE  Spec => []IInv
<1>1. IInv /\ [Next]_vars => IInv'
  BY InvStep, InvStutters
<1> QED
  BY <1>1, InvInit, PTL DEF Spec

-----------------------------------------------------------------------------
(* What follows from it                                                    *)

\* However the loop ends, by itself, stopped, by an error thrown out of it, resumed
\* or abandoned, and wherever the process crashes, the turn is closed when the
\* driver is done with it, and no message stays open between two turns
\* (the finally of turn.ts; synthesizeInterruption of crash-recovery.ts).
THEOREM NothingLeftOpen ==
  ASSUME AnswersPrompt
  PROVE  Spec => [](TurnIsClosed /\ NoMessageLeftOpen)
<1>1. Closing => TurnIsClosed /\ NoMessageLeftOpen
  BY DEF Closing, Places, TurnIsClosed, NoMessageLeftOpen, At
<1>2. IInv => Closing
  BY DEF IInv
<1> QED
  BY <1>1, <1>2, TurnInvariant, PTL

\* What a turn leaves behind, however it ends, is well-formed, and each call has
\* at most one answer, whatever is stopped, given up, recovered or recovered again.
THEOREM HistoryCorrect ==
  ASSUME AnswersPrompt
  PROVE  Spec => []HistoryIsWhole
<1>1. IInv => HistoryIsWhole
  BY DEF IInv, HistoryIsWhole, Closing, Places, TurnIsClosed, NoMessageLeftOpen, At
<1> QED
  BY <1>1, TurnInvariant, PTL

\* The results of a reply lead the message behind it, whatever is injected, stopped
\* or recovered meanwhile (appendToolResult, appendInjectedMessage, ADR-0064).
THEOREM ResultsCorrect ==
  ASSUME AnswersPrompt
  PROVE  Spec => []ResultsFollowReply
<1>1. IInv => ResultsFollowReply
  BY DEF IInv, Calm, ResultsFollowReply
<1> QED
  BY <1>1, TurnInvariant, PTL

\* Whoever dispatches a reply answers all its calls, and the body of a call that is
\* not parallel-safe runs alone.
LEMMA DispatchCorrect == IInv => DispatchAnswersAll /\ ExclusiveRunsAlone
<1> SUFFICES ASSUME IInv PROVE DispatchAnswersAll /\ ExclusiveRunsAlone
  OBVIOUS
<1>1. DispatchAnswersAll
  <2> SUFFICES ASSUME s.turn = 0, used.crashes = 0, used.rejections = 0, NEW c \in Owing
               PROVE  c[1] \in unsent
    BY DEF DispatchAnswersAll, Owing
  <2>1. d.pc \in {"idle", "dead"}
    BY DEF IInv, Closing, Places
  <2> QED
    BY <2>1 DEF IInv, Dispatched, At
<1>2. ExclusiveRunsAlone
  <2> SUFFICES ASSUME used.rejections = 0, NEW b \in bodies, NEW c \in bodies, b # c,
                      {b, c} \cap Answered(s) = {}
               PROVE  s.messages[b[1]].uses[b[2]]
    BY DEF ExclusiveRunsAlone
  <2>1. Calm
    BY DEF IInv
  <2>2. b \in Active /\ c \in Active
    BY <2>1 DEF Calm, Over
  <2>3. d.pc = "dispatch"
    BY <2>1, <2>2 DEF Calm, Still, At
  <2> QED
    BY <2>1, <2>2, <2>3 DEF Calm, InBatch, Together, At
<1> QED
  BY <1>1, <1>2

-----------------------------------------------------------------------------
(* The call protocol                                                       *)

\* What leaves the history and what runs alone is no step of the protocol.
LEMMA Stutter ==
  ASSUME Asked(s') = Asked(s), Answered(s') = Answered(s), s'.running = s.running
  PROVE  [Protocol!Next]_(Protocol!vars)
  BY DEF Protocol!vars

\* A call that waits for its answer gets it.
LEMMA AnswerStep ==
  ASSUME Whole, NEW c \in Owing, NEW ok \in BOOLEAN, s' = ToolEnded(s, c, ok)
  PROVE  Protocol!Next
<1>1. TypeOK /\ Counted /\ s \in Session /\ c \in Asked(s) /\ c \notin Answered(s)
  BY DEF Whole, TypeOK, Owing
<1>2. c \in CallId
  BY <1>1, AskedBound
<1>3. Asked(s') = Asked(s) /\ Answered(s') = Answered(s) \cup {c}
  BY <1>1, <1>2, ResultEvent
<1>4. s'.running = s.running \ {c}
  BY <1>1 DEF ToolEnded, SetLast, Session
<1>5. Protocol!Answer(c)
  BY <1>1, <1>3, <1>4 DEF Protocol!Answer
<1> QED
  BY <1>1, <1>5 DEF Protocol!Next

AskedInBounds == Asked(s) \subseteq CallId

\* Every step of the driver is a step of the protocol, or none.
LEMMA ProtocolStep ==
  ASSUME Whole, Whole', Owed, Planned, Next,
         Whole' => AskedInBounds'
  PROVE  [Protocol!Next]_(Protocol!vars)
<1>1. TypeOK /\ Counted /\ s \in Session /\ d \in Driving
  BY DEF Whole, TypeOK
<1>2. ASSUME s'.messages = s.messages, s'.running = s.running PROVE [Protocol!Next]_(Protocol!vars)
  BY <1>2, SameHistory, Stutter
<1>3. CASE Loop
  <2>1. s'.messages = s.messages /\ s'.running \in {s.running, {}}
    BY <1>3, LoopKeeps
  <2>2. CASE s'.running = s.running
    BY <1>2, <2>1, <2>2
  <2>3. CASE s'.running = {}
    <3>1. Protocol!EndTurn
      BY <2>1, <2>3, SameHistory DEF Protocol!EndTurn
    <3> QED
      BY <3>1 DEF Protocol!Next
  <2> QED
    BY <2>1, <2>2, <2>3
<1>4. CASE \/ DispatchBatch \/ StopButton \/ Steer \/ Crash \/ Restart
           \/ \E resume \in BOOLEAN : Settle(resume)
           \/ \E c \in DOMAIN calls : CallAllowed(c) \/ EndRejects(c)
           \/ \E c \in bodies : BodyEnds(c)
  <2>1. s' = s
    BY <1>4 DEF DispatchBatch, StopButton, Steer, Crash, Restart, Settle, CallAllowed, EndRejects, BodyEnds
  <2> QED
    BY <1>2, <2>1
<1>5. CASE SynthMessage
  <2>1. s'.messages = s.messages /\ s'.running = s.running
    BY <1>1, <1>5 DEF SynthMessage, MessageInterrupted, Session
  <2> QED
    BY <1>2, <2>1
<1>6. CASE StartTurn \/ Inject
  <2>1. Asked(s') = Asked(s) /\ Answered(s') = Answered(s)
    BY <1>1, <1>6, TextEvent DEF StartTurn, Inject
  <2>2. s'.running = s.running
    BY <1>1, <1>6 DEF StartTurn, TurnStarted, Inject, Injected, SetLast, Session
  <2> QED
    BY <2>1, <2>2, Stutter
<1>7. CASE StreamEnds
  <2>1. PICK n \in 0..MaxCallsPer : \E uses \in [1..n -> BOOLEAN] : s' = MessageEnded(s, uses)
    BY <1>7 DEF StreamEnds
  <2>2. PICK uses \in [1..n -> BOOLEAN] : s' = MessageEnded(s, uses)
    BY <2>1
  <2>3. n \in Nat
    BY TurnAssumption
  <2>4. Asked(s) \subseteq Asked(s') /\ Answered(s') = Answered(s)
    BY <1>1, <2>2, <2>3, FunctionIsSeq, ReplyEvent
  <2>5. s'.running = s.running
    BY <1>1, <2>2 DEF MessageEnded, Session
  <2>6. Protocol!Ask
    BY <2>4, <2>5 DEF Protocol!Ask, AskedInBounds
  <2> QED
    BY <2>6 DEF Protocol!Next
<1>8. ASSUME NEW c \in DOMAIN calls, ToolStarts(c) PROVE Protocol!Next
  <2>1. c \in Asked(s) \ (s.running \cup Answered(s))
    BY <1>8 DEF ToolStarts, Owed, Owing, Active
  <2>2. s'.messages = s.messages /\ s'.running = s.running \cup {c}
    BY <1>1, <1>8 DEF ToolStarts, ToolStarted, Session
  <2>3. Protocol!Start(c)
    BY <2>1, <2>2, SameHistory DEF Protocol!Start
  <2> QED
    BY <2>1, <2>3 DEF Protocol!Next
<1>9. ASSUME NEW c \in DOMAIN calls, CallEnds(c) \/ CallFails(c) PROVE Protocol!Next
  <2>1. c \in Owing
    BY <1>9 DEF CallEnds, CallFails, Owed, Active
  <2>2. \E ok \in BOOLEAN : s' = ToolEnded(s, c, ok)
    BY <1>9 DEF CallEnds, CallFails
  <2> QED
    BY <2>1, <2>2, AnswerStep
<1>10. ASSUME NEW c, SynthCall(c) PROVE Protocol!Next
  <2>1. c \in Owing /\ s' = ToolEnded(s, c, FALSE)
    BY <1>10 DEF SynthCall, Owed, Repairing
  <2> QED
    BY <2>1, AnswerStep
<1> QED
  BY <1>3, <1>4, <1>5, <1>6, <1>7, <1>8, <1>9, <1>10 DEF Next, Driver, World, CallStep, Loop

\* The recorded history implements the call protocol: a call is asked for once,
\* starts at most once and only while it is owed an answer, and is answered at most
\* once, after which nothing of it happens any more, through stops, crashes and
\* recoveries.
THEOREM ProtocolImplemented ==
  ASSUME AnswersPrompt
  PROVE  Spec => ImplementsCallProtocol
<1>1. Init => Protocol!Init
  BY DEF Init, Empty, Asked, Answered, Protocol!Init
<1>2. IInv => Whole /\ Owed /\ Planned
  BY DEF IInv, Whole
<1>3. Whole => AskedInBounds
  BY AskedBound DEF Whole, AskedInBounds
<1>4. Whole' => AskedInBounds'
  BY <1>3, PTL
<1>5. IInv /\ Next /\ IInv' => [Protocol!Next]_(Protocol!vars)
  BY <1>2, <1>4, WholeStep, ProtocolStep
<1>6. UNCHANGED vars => [Protocol!Next]_(Protocol!vars)
  BY Stutter DEF vars
<1>7. IInv /\ [Next]_vars /\ IInv' => [Protocol!Next]_(Protocol!vars)
  BY <1>5, <1>6
<1> QED
  BY <1>1, <1>7, TurnInvariant, PTL DEF Spec, ImplementsCallProtocol, Protocol!Spec

-----------------------------------------------------------------------------
(* Whichever calls a reply has                                             *)

\* A call that may write, or of which it cannot be told, is not parallel-safe, and
\* the batches are laid out right (isParallelSafe, planCallBatches).
LEMMA BatchesCorrect == BatchesAreRight
<1> SUFFICES ASSUME NEW list \in Lists
             PROVE  LET safe == [k \in 1..Len(list) |-> ParallelSafe(list[k])]
                    IN  /\ IsLayout(PlanBatches(safe), safe)
                        /\ \A k \in 1..Len(list) : safe[k] => ~MayWrite(list[k])
  BY DEF BatchesAreRight
<1> DEFINE N == Len(list)
           safe == [k \in 1..N |-> ParallelSafe(list[k])]
<1>1. N \in Nat
  BY FunctionIsSeq DEF Lists
<1>2. \A call : ParallelSafe(call) \in BOOLEAN /\ (ParallelSafe(call) => ~MayWrite(call))
  BY DEF ParallelSafe, MayWrite, Harmless, Throws
<1>3. safe \in [1..N -> BOOLEAN] /\ \A k \in 1..N : safe[k] => ~MayWrite(list[k])
  BY <1>2
<1>4. safe \in Seq(BOOLEAN)
  BY <1>1, <1>3, FunctionIsSeq
<1> HIDE DEF safe
<1>5. IsLayout(PlanBatches(safe), safe)
  BY <1>4, PlanIsLaid
<1> QED
  BY <1>3, <1>5 DEF safe

\* Dispatching a reply: the batches of any list of calls are right, the body of a
\* call that is not parallel-safe runs alone, and every call that was dispatched is
\* answered, in every interleaving of batches, failures, stops and crashes.
THEOREM DispatchIsCorrect ==
  ASSUME AnswersPrompt
  PROVE  Spec => []DispatchIsRight
<1>1. IInv => DispatchIsRight
  BY DispatchCorrect, BatchesCorrect DEF DispatchIsRight
<1> QED
  BY <1>1, TurnInvariant, PTL
=============================================================================
