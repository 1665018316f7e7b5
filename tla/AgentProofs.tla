----------------------------- MODULE AgentProofs -----------------------------
(***************************************************************************)
(* Proofs about Agent: one turn at a time, and an inbox that delivers at   *)
(* most once and in order, for any number of messages and stops.           *)
(***************************************************************************)
EXTENDS Agent, SequenceTheorems, TLAPS

DrainStates == {"driving", "finishing", "rejected", "over"}

\* A drain that is not over is the active one, so that #active tells whether any
\* code of a drain can still run.
ActiveIsTheLiveOne ==
  /\ drains \in Seq(DrainStates)
  /\ active \in 0..Len(drains)
  /\ \A d \in 1..Len(drains) : drains[d] # "over" => active = d

\* One drain goes on, the others stay.
LEMMA SetDrain ==
  ASSUME NEW S, NEW s \in Seq(S), NEW i \in 1..Len(s), NEW v \in S
  PROVE  /\ [s EXCEPT ![i] = v] \in Seq(S)
         /\ Len([s EXCEPT ![i] = v]) = Len(s)
         /\ \A j \in 1..Len(s) : j # i => [s EXCEPT ![i] = v][j] = s[j]
OBVIOUS

\* One round of the loop decides only how the drain goes on.
LEMMA LoopSets ==
  ASSUME NEW ds, NEW d, NEW ss, NEW fs, Loop(ds, d, ss, fs)
  PROVE  \E at \in {"driving", "finishing"} : drains' = [ds EXCEPT ![d] = at]
BY DEF Loop

\* No step starts a second turn beside the first.
LEMMA ActiveStep ==
  ASSUME ActiveIsTheLiveOne, [Next]_vars
  PROVE  ActiveIsTheLiveOne'
<1> USE DEF ActiveIsTheLiveOne, DrainStates
<1>1. ASSUME NEW k \in Kinds, Enqueue(k)
      PROVE  ActiveIsTheLiveOne'
  <2>1. CASE Idle
    <3> DEFINE ds == Append(drains, "driving")
               d == Len(drains) + 1
    <3>1. PICK at \in {"driving", "finishing"} : drains' = [ds EXCEPT ![d] = at]
      BY <1>1, <2>1, LoopSets DEF Enqueue
    <3>2. /\ ds \in Seq(DrainStates) /\ Len(ds) = d /\ d \in 1..Len(ds)
          /\ \A e \in 1..Len(drains) : ds[e] = drains[e] /\ e # d /\ e \in 1..Len(ds)
      OBVIOUS
    <3>3. /\ drains' \in Seq(DrainStates) /\ Len(drains') = d
          /\ \A e \in 1..Len(drains) : drains'[e] = drains[e]
      <4> HIDE DEF ds, d
      <4> at \in DrainStates
        OBVIOUS
      <4> QED
        BY <3>1, <3>2, SetDrain
    <3>4. active' = d
      BY <1>1, <2>1 DEF Enqueue
    <3>5. \A e \in 1..Len(drains) : drains[e] = "over"
      BY <2>1 DEF Idle
    <3> QED
      BY <3>2, <3>3, <3>4, <3>5
  <2>2. CASE ~Idle
    BY <1>1, <2>2 DEF Enqueue
  <2> QED
    BY <2>1, <2>2
<1>2. ASSUME NEW d \in 1..Len(drains), DriveEnds(d)
      PROVE  ActiveIsTheLiveOne'
  <2>1. PICK at \in {"driving", "finishing"} : drains' = [drains EXCEPT ![d] = at]
    BY <1>2, LoopSets DEF DriveEnds
  <2> QED
    BY <1>2, <2>1 DEF DriveEnds
<1>3. ASSUME NEW d \in 1..Len(drains), DriveRejects(d)
      PROVE  ActiveIsTheLiveOne'
  BY <1>3 DEF DriveRejects
<1>4. ASSUME NEW d \in 1..Len(drains), Finally(d)
      PROVE  ActiveIsTheLiveOne'
  BY <1>4 DEF Finally
<1>5. ASSUME Interrupt
      PROVE  ActiveIsTheLiveOne'
  BY <1>5 DEF Interrupt
<1>6. ASSUME UNCHANGED vars
      PROVE  ActiveIsTheLiveOne'
  BY <1>6 DEF vars
<1> QED
  BY <1>1, <1>2, <1>3, <1>4, <1>5, <1>6 DEF Next, Drain

\* A drain that is not over is the active one.
THEOREM ActiveCorrect == Spec => []ActiveIsTheLiveOne
<1>1. Init => ActiveIsTheLiveOne
  BY DEF Init, ActiveIsTheLiveOne
<1> QED
  BY <1>1, ActiveStep, PTL DEF Spec

\* However messages, stops and failures interleave with the end of a drain, no two
\* drains are in drive() together (agent.ts, #enqueue and #drain).
THEOREM OneTurn == Spec => []OneTurnAtATime
<1>1. ActiveIsTheLiveOne => OneTurnAtATime
  BY DEF ActiveIsTheLiveOne, OneTurnAtATime
<1> QED
  BY <1>1, ActiveCorrect, PTL

-----------------------------------------------------------------------------
(* The inbox.  What is queued and what was driven are ordered by number;    *)
(* the kinds of a steer and a followup keep the two orders apart.           *)

Increasing(s) == \A j, k \in 1..Len(s) : j < k => s[j] < s[k]
InOrder(dr, kd) ==
  \A j, k \in 1..Len(dr) : j < k /\ kd[dr[j]] = kd[dr[k]] => dr[j] < dr[k]

\* A queue of one kind: ordered, behind all of its kind that was driven, and not
\* discarded.
Queue(q, k, dr, kd, n, cl) ==
  /\ q \in Seq(1..n) /\ Increasing(q)
  /\ \A i \in 1..Len(q) : kd[q[i]] = k /\ q[i] \notin cl
  /\ \A j \in 1..Len(dr), i \in 1..Len(q) : kd[dr[j]] = k => dr[j] < q[i]

Done(dr, kd, n, cl) ==
  /\ n \in Nat /\ kd \in [1..n -> Kinds] /\ cl \subseteq 1..n
  /\ dr \in Seq(1..n) /\ InOrder(dr, kd)
  /\ \A j \in 1..Len(dr) : dr[j] \notin cl

Ordered(ss, fs, dr, kd, n, cl) ==
  /\ Done(dr, kd, n, cl)
  /\ Queue(ss, "steer", dr, kd, n, cl) /\ Queue(fs, "followup", dr, kd, n, cl)

InboxInv == Ordered(steers, followups, driven, kind, enqueued, cleared)

\* What a sequence of numbers up to n holds, and that it is one up to n + 1.
LEMMA Numbers ==
  ASSUME NEW n \in Nat, NEW s \in Seq(1..n)
  PROVE  /\ Len(s) \in Nat /\ \A i \in 1..Len(s) : s[i] \in 1..n
         /\ s \in Seq(1..n + 1)
<1>1. Len(s) \in Nat /\ \A i \in 1..Len(s) : s[i] \in 1..n
  OBVIOUS
<1>2. 1..n \subseteq 1..n + 1
  OBVIOUS
<1> QED
  BY <1>1, <1>2, SeqMonotonic

\* An empty queue asks for nothing.
LEMMA EmptyQueue ==
  ASSUME NEW k, NEW dr, NEW kd, NEW n, NEW cl
  PROVE  Queue(<<>>, k, dr, kd, n, cl)
BY DEF Queue, Increasing

\* A new number is behind everything.
LEMMA NewItem ==
  ASSUME NEW ss, NEW fs, NEW dr, NEW kd, NEW n, NEW cl, NEW k \in Kinds,
         Ordered(ss, fs, dr, kd, n, cl)
  PROVE  /\ Done(dr, Append(kd, k), n + 1, cl)
         /\ \A q, l : Queue(q, l, dr, kd, n, cl) => Queue(q, l, dr, Append(kd, k), n + 1, cl)
         /\ \A q : Queue(q, k, dr, kd, n, cl)
                     => Queue(Append(q, n + 1), k, dr, Append(kd, k), n + 1, cl)
<1>1. /\ n \in Nat /\ kd \in [1..n -> Kinds] /\ cl \subseteq 1..n /\ dr \in Seq(1..n)
  BY DEF Ordered, Done
<1>2. /\ Append(kd, k) \in [1..n + 1 -> Kinds]
      /\ \A i \in 1..n : Append(kd, k)[i] = kd[i]
      /\ Append(kd, k)[n + 1] = k
  <2>1. kd \in Seq(Kinds) /\ Len(kd) = n
    BY <1>1, SeqDef
  <2>2. /\ Append(kd, k) \in Seq(Kinds) /\ Len(Append(kd, k)) = n + 1
        /\ \A i \in 1..n : Append(kd, k)[i] = kd[i]
        /\ Append(kd, k)[n + 1] = k
    BY <2>1
  <2>3. Append(kd, k) \in [1..Len(Append(kd, k)) -> Kinds]
    BY <2>2, LenProperties
  <2> QED
    BY <2>2, <2>3
<1> DEFINE ke == Append(kd, k)
<1> HIDE DEF ke
<1>3. /\ ke \in [1..n + 1 -> Kinds] /\ ke[n + 1] = k /\ \A i \in 1..n : ke[i] = kd[i]
  BY <1>2 DEF ke
<1>4. \A j \in 1..Len(dr) : dr[j] \in 1..n
  BY <1>1, Numbers
<1>5. Done(dr, ke, n + 1, cl)
  <2>1. InOrder(dr, ke)
    BY <1>3, <1>4 DEF Ordered, Done, InOrder
  <2>2. dr \in Seq(1..n + 1)
    BY <1>1, Numbers
  <2> QED
    BY <1>1, <1>3, <2>1, <2>2 DEF Ordered, Done
<1>6. ASSUME NEW q, NEW l, Queue(q, l, dr, kd, n, cl)
      PROVE  Queue(q, l, dr, ke, n + 1, cl)
  <2>1. q \in Seq(1..n)
    BY <1>6 DEF Queue
  <2>2. q \in Seq(1..n + 1) /\ \A i \in 1..Len(q) : q[i] \in 1..n
    BY <1>1, <2>1, Numbers
  <2> QED
    BY <1>3, <1>4, <1>6, <2>1, <2>2 DEF Queue
<1>7. ASSUME NEW q, Queue(q, k, dr, kd, n, cl)
      PROVE  Queue(Append(q, n + 1), k, dr, ke, n + 1, cl)
  <2> DEFINE r == Append(q, n + 1)
  <2>1. Queue(q, k, dr, ke, n + 1, cl)
    BY <1>6, <1>7
  <2>2. q \in Seq(1..n) /\ Len(q) \in Nat /\ \A i \in 1..Len(q) : q[i] \in 1..n
    <3>1. q \in Seq(1..n)
      BY <1>7 DEF Queue
    <3> QED
      BY <1>1, <3>1, Numbers
  <2>3. /\ Len(r) = Len(q) + 1 /\ r[Len(q) + 1] = n + 1 /\ Len(q) \in Nat
        /\ \A i \in 1..Len(q) : r[i] = q[i]
    BY <2>2
  <2>4. r \in Seq(1..n + 1)
    <3>1. q \in Seq(1..n + 1) /\ n + 1 \in 1..n + 1
      BY <1>1, <2>1 DEF Queue
    <3> QED
      BY <3>1
  <2> HIDE DEF r
  <2>5. n + 1 \notin cl
    BY <1>1
  <2>6. Increasing(r)
    <3> SUFFICES ASSUME NEW j \in 1..Len(r), NEW i \in 1..Len(r), j < i
                 PROVE  r[j] < r[i]
      BY DEF Increasing
    <3>1. CASE i = Len(q) + 1
      <4>1. j \in 1..Len(q) /\ r[j] \in 1..n /\ r[i] = n + 1
        BY <2>2, <2>3, <3>1
      <4> QED
        BY <1>1, <4>1
    <3>2. CASE i # Len(q) + 1
      <4>1. j \in 1..Len(q) /\ i \in 1..Len(q)
        BY <2>3, <3>2
      <4> QED
        BY <2>1, <2>3, <4>1 DEF Queue, Increasing
    <3> QED
      BY <3>1, <3>2
  <2>7. \A i \in 1..Len(r) : ke[r[i]] = k /\ r[i] \notin cl
    BY <1>3, <2>1, <2>3, <2>5 DEF Queue
  <2>8. \A j \in 1..Len(dr), i \in 1..Len(r) : ke[dr[j]] = k => dr[j] < r[i]
    <3> SUFFICES ASSUME NEW j \in 1..Len(dr), NEW i \in 1..Len(r), ke[dr[j]] = k
                 PROVE  dr[j] < r[i]
      OBVIOUS
    <3>1. CASE i = Len(q) + 1
      <4>1. dr[j] \in 1..n /\ r[i] = n + 1
        BY <1>4, <2>3, <3>1
      <4> QED
        BY <1>1, <4>1
    <3>2. CASE i # Len(q) + 1
      <4>1. i \in 1..Len(q) /\ r[i] = q[i]
        BY <2>3, <3>2
      <4> QED
        BY <2>1, <4>1 DEF Queue
    <3> QED
      BY <3>1, <3>2
  <2> QED
    BY <2>4, <2>6, <2>7, <2>8 DEF Queue, r
<1> QED
  BY <1>5, <1>6, <1>7 DEF ke

\* A whole queue is driven: the order of its kind goes on, the other queue stays
\* behind all of its own kind.
LEMMA DriveQueue ==
  ASSUME NEW q, NEW o, NEW k, NEW l, k # l, NEW dr, NEW kd, NEW n, NEW cl,
         Done(dr, kd, n, cl), Queue(q, k, dr, kd, n, cl), Queue(o, l, dr, kd, n, cl)
  PROVE  Done(dr \o q, kd, n, cl) /\ Queue(o, l, dr \o q, kd, n, cl)
<1> DEFINE e == dr \o q
<1>1. /\ n \in Nat /\ dr \in Seq(1..n) /\ q \in Seq(1..n) /\ o \in Seq(1..n)
  BY DEF Done, Queue
<1>2. /\ Len(dr) \in Nat /\ \A i \in 1..Len(dr) : dr[i] \in 1..n
      /\ Len(q) \in Nat /\ \A i \in 1..Len(q) : q[i] \in 1..n
  BY <1>1, Numbers
<1>3. /\ e \in Seq(1..n) /\ Len(e) = Len(dr) + Len(q)
      /\ \A i \in 1..Len(dr) : e[i] = dr[i]
      /\ \A i \in 1..Len(e) : i > Len(dr) => e[i] = q[i - Len(dr)]
  BY <1>1
<1> HIDE DEF e
<1>4. \A i \in 1..Len(e) : i <= Len(dr) => i \in 1..Len(dr) /\ e[i] = dr[i]
  BY <1>2, <1>3
<1>5. \A i \in 1..Len(e) :
        i > Len(dr) => /\ i - Len(dr) \in 1..Len(q) /\ e[i] = q[i - Len(dr)]
                       /\ kd[e[i]] = k /\ e[i] \notin cl
  BY <1>2, <1>3 DEF Queue
<1>6. InOrder(e, kd)
  <2> SUFFICES ASSUME NEW j \in 1..Len(e), NEW i \in 1..Len(e), j < i, kd[e[j]] = kd[e[i]]
               PROVE  e[j] < e[i]
    BY DEF InOrder
  <2>1. CASE i <= Len(dr)
    <3>1. j <= Len(dr)
      BY <1>2, <1>3, <2>1
    <3> QED
      BY <1>4, <2>1, <3>1 DEF Done, InOrder
  <2>2. CASE i > Len(dr) /\ j <= Len(dr)
    BY <1>4, <1>5, <2>2 DEF Queue
  <2>3. CASE i > Len(dr) /\ j > Len(dr)
    <3>1. j - Len(dr) < i - Len(dr)
      BY <1>2, <1>3
    <3> QED
      BY <1>5, <2>3, <3>1 DEF Queue, Increasing
  <2> QED
    BY <1>2, <1>3, <2>1, <2>2, <2>3
<1>7. \A j \in 1..Len(e) : e[j] \notin cl
  <2> SUFFICES ASSUME NEW j \in 1..Len(e)
               PROVE  e[j] \notin cl
    OBVIOUS
  <2>1. CASE j <= Len(dr)
    BY <1>4, <2>1 DEF Done
  <2>2. CASE j > Len(dr)
    BY <1>5, <2>2
  <2> QED
    BY <1>2, <1>3, <2>1, <2>2
<1>8. \A j \in 1..Len(e), i \in 1..Len(o) : kd[e[j]] = l => e[j] < o[i]
  <2> SUFFICES ASSUME NEW j \in 1..Len(e), NEW i \in 1..Len(o), kd[e[j]] = l
               PROVE  e[j] < o[i]
    OBVIOUS
  <2>1. j <= Len(dr)
    BY <1>2, <1>3, <1>5
  <2> QED
    BY <1>4, <2>1 DEF Queue
<1>9. Done(e, kd, n, cl)
  BY <1>3, <1>6, <1>7 DEF Done
<1>10. Queue(o, l, e, kd, n, cl)
  BY <1>8 DEF Queue
<1> QED
  BY <1>9, <1>10 DEF e

\* One round of the loop keeps the order.
LEMMA LoopKeeps ==
  ASSUME NEW ds, NEW d, NEW ss, NEW fs, NEW kd, NEW n, NEW cl,
         Ordered(ss, fs, driven, kd, n, cl), Loop(ds, d, ss, fs)
  PROVE  Ordered(steers', followups', driven', kd, n, cl)
<1> DEFINE c == Claimed(ss, fs)
<1>1. CASE d \in aborted \/ c.batch = <<>>
  BY <1>1 DEF Loop
<1>2. CASE ~(d \in aborted \/ c.batch = <<>>) /\ ss # <<>>
  <2>1. steers' = <<>> /\ followups' = fs /\ driven' = driven \o ss
    BY <1>2 DEF Loop, Claimed
  <2>2. Done(driven', kd, n, cl) /\ Queue(fs, "followup", driven', kd, n, cl)
    BY <2>1, DriveQueue DEF Ordered
  <2> QED
    BY <2>1, <2>2, EmptyQueue DEF Ordered
<1>3. CASE ~(d \in aborted \/ c.batch = <<>>) /\ ss = <<>>
  <2>1. steers' = <<>> /\ followups' = <<>> /\ driven' = driven \o fs
    BY <1>3 DEF Loop, Claimed
  <2>2. Done(driven', kd, n, cl)
    BY <2>1, DriveQueue DEF Ordered
  <2> QED
    BY <2>1, <2>2, EmptyQueue DEF Ordered
<1> QED
  BY <1>1, <1>2, <1>3

\* What was driven is not waiting.
LEMMA DrivenIsGone ==
  ASSUME InboxInv
  PROVE  \A j \in 1..Len(driven) : driven[j] \notin Pending
<1> USE DEF InboxInv
<1>1. enqueued \in Nat /\ driven \in Seq(1..enqueued)
  BY DEF Ordered, Done
<1> SUFFICES ASSUME NEW j \in 1..Len(driven), driven[j] \in Pending
             PROVE  FALSE
  OBVIOUS
<1>2. driven[j] \in 1..enqueued
  BY <1>1, Numbers
<1>3. CASE \E i \in 1..Len(steers) : driven[j] = steers[i]
  <2>1. PICK i \in 1..Len(steers) : driven[j] = steers[i]
    BY <1>3
  <2>2. driven[j] < steers[i]
    BY <2>1 DEF Ordered, Queue
  <2> QED
    BY <1>2, <2>1, <2>2
<1>4. CASE \E i \in 1..Len(followups) : driven[j] = followups[i]
  <2>1. PICK i \in 1..Len(followups) : driven[j] = followups[i]
    BY <1>4
  <2>2. driven[j] < followups[i]
    BY <2>1 DEF Ordered, Queue
  <2> QED
    BY <1>2, <2>1, <2>2
<1> QED
  BY <1>3, <1>4 DEF Pending

\* No step loses, doubles or reorders a message within its kind.
LEMMA InboxStep ==
  ASSUME InboxInv, [Next]_vars
  PROVE  InboxInv'
<1> USE DEF InboxInv
<1>1. ASSUME NEW k \in Kinds, Enqueue(k)
      PROVE  InboxInv'
  <2> DEFINE ss == IF k = "steer" THEN Append(steers, enqueued + 1) ELSE steers
             fs == IF k = "steer" THEN followups ELSE Append(followups, enqueued + 1)
  <2>1. /\ enqueued' = enqueued + 1 /\ kind' = Append(kind, k) /\ cleared' = cleared
        /\ \/ \E ds, d : Loop(ds, d, ss, fs)
           \/ steers' = ss /\ followups' = fs /\ driven' = driven
    BY <1>1 DEF Enqueue
  <2>2. Ordered(ss, fs, driven, kind', enqueued', cleared')
    <3>1. CASE k = "steer"
      BY <2>1, <3>1, NewItem DEF Ordered
    <3>2. CASE k = "followup"
      BY <2>1, <3>2, NewItem DEF Ordered
    <3> QED
      BY <3>1, <3>2 DEF Kinds
  <2> HIDE DEF ss, fs
  <2>3. CASE \E ds, d : Loop(ds, d, ss, fs)
    <3>1. PICK ds, d : Loop(ds, d, ss, fs)
      BY <2>3
    <3> QED
      BY <2>2, <3>1, LoopKeeps
  <2>4. CASE steers' = ss /\ followups' = fs /\ driven' = driven
    BY <2>2, <2>4
  <2> QED
    BY <2>1, <2>3, <2>4
<1>2. ASSUME NEW d \in 1..Len(drains), DriveEnds(d)
      PROVE  InboxInv'
  BY <1>2, LoopKeeps DEF DriveEnds
<1>3. ASSUME NEW d \in 1..Len(drains), DriveRejects(d) \/ Finally(d)
      PROVE  InboxInv'
  BY <1>3 DEF DriveRejects, Finally, inbox
<1>4. ASSUME Interrupt
      PROVE  InboxInv'
  <2>1. /\ steers' = <<>> /\ followups' = <<>> /\ cleared' = cleared \cup Pending
        /\ driven' = driven /\ kind' = kind /\ enqueued' = enqueued
    BY <1>4 DEF Interrupt
  <2>2. /\ enqueued \in Nat /\ steers \in Seq(1..enqueued) /\ followups \in Seq(1..enqueued)
        /\ driven \in Seq(1..enqueued)
    BY DEF Ordered, Done, Queue
  <2>3. Pending \subseteq 1..enqueued
    BY <2>2, Numbers DEF Pending
  <2>4. \A j \in 1..Len(driven) : driven[j] \notin Pending
    BY DrivenIsGone
  <2>5. Done(driven, kind, enqueued, cleared \cup Pending)
    BY <2>3, <2>4 DEF Ordered, Done
  <2> QED
    BY <2>1, <2>5, EmptyQueue DEF Ordered
<1>5. ASSUME UNCHANGED vars
      PROVE  InboxInv'
  BY <1>5 DEF vars, inbox
<1> QED
  BY <1>1, <1>2, <1>3, <1>4, <1>5 DEF Next, Drain

\* The bounds, and what the controllers of stopped drains are.
Bounded ==
  /\ enqueued \in 0..MaxItems /\ stops \in 0..MaxStops
  /\ aborted \subseteq 1..Len(drains) /\ Len(drains) \in Nat

\* Every step keeps the counters within their bounds.
LEMMA BoundedStep ==
  ASSUME MaxItems \in Nat, MaxStops \in Nat, Bounded, ActiveIsTheLiveOne, [Next]_vars
  PROVE  Bounded'
<1> USE DEF Bounded
<1>1. Len(drains) \in Nat /\ drains \in Seq(DrainStates) /\ active \in 0..Len(drains)
  BY DEF ActiveIsTheLiveOne
<1>2. ActiveIsTheLiveOne'
  BY ActiveStep
<1>3. Len(drains') \in Nat
  BY <1>2 DEF ActiveIsTheLiveOne
<1>4. Len(drains') >= Len(drains)
  <2>1. ASSUME NEW k \in Kinds, Enqueue(k), Idle
        PROVE  Len(drains') >= Len(drains)
    <3> DEFINE ds == Append(drains, "driving")
    <3>1. PICK at \in {"driving", "finishing"} : drains' = [ds EXCEPT ![Len(drains) + 1] = at]
      BY <2>1, LoopSets DEF Enqueue
    <3>2. ds \in Seq(DrainStates) /\ Len(ds) = Len(drains) + 1
      BY <1>1 DEF DrainStates
    <3> HIDE DEF ds
    <3>3. Len(drains') = Len(drains) + 1
      BY <1>1, <3>1, <3>2, SetDrain DEF DrainStates
    <3> QED
      BY <1>1, <3>3
  <2>2. ASSUME NEW d \in 1..Len(drains), Drain(d)
        PROVE  Len(drains') = Len(drains)
    <3>1. \E at : drains' = [drains EXCEPT ![d] = at]
      BY <2>2, LoopSets DEF Drain, DriveEnds, DriveRejects, Finally
    <3> QED
      BY <1>1, <3>1
  <2>3. \/ drains' = drains
        \/ \E k \in Kinds : Enqueue(k) /\ Idle
        \/ \E d \in 1..Len(drains) : Drain(d)
    BY DEF Next, Enqueue, Interrupt, vars
  <2> QED
    BY <1>1, <2>1, <2>2, <2>3
<1>5. aborted' \subseteq 1..Len(drains)
  <2>1. CASE aborted' = aborted
    BY <2>1
  <2>2. CASE Interrupt
    BY <1>1, <2>2 DEF Interrupt
  <2>3. Next => aborted' = aborted \/ Interrupt
    BY DEF Next, Enqueue, Drain, DriveEnds, DriveRejects, Finally
  <2> QED
    BY <2>1, <2>2, <2>3 DEF vars
<1>6. enqueued' \in 0..MaxItems /\ stops' \in 0..MaxStops
  BY DEF Next, Enqueue, Drain, DriveEnds, DriveRejects, Finally, Interrupt, vars, inbox
<1> QED
  BY <1>1, <1>3, <1>4, <1>5, <1>6

\* The order of the queues gives what the inbox promises.
LEMMA OrderedIsExact ==
  ASSUME MaxItems \in Nat, MaxStops \in Nat, InboxInv, ActiveIsTheLiveOne, Bounded
  PROVE  InboxIsExact
<1> USE DEF InboxInv, Ordered
<1>1. /\ enqueued \in Nat /\ 1..enqueued \subseteq Items
      /\ steers \in Seq(1..enqueued) /\ followups \in Seq(1..enqueued)
      /\ driven \in Seq(1..enqueued) /\ kind \in [1..enqueued -> Kinds]
      /\ cleared \subseteq 1..enqueued
  BY DEF Done, Queue, Bounded, Items
<1>2. /\ \A j \in 1..Len(driven) : driven[j] \in 1..enqueued
      /\ Len(driven) \in Nat
  BY <1>1, Numbers
<1>3. TypeOK
  <2>1. steers \in Seq(Items) /\ followups \in Seq(Items) /\ driven \in Seq(Items)
    BY <1>1, SeqMonotonic
  <2> QED
    BY <1>1, <2>1 DEF TypeOK, Bounded, ActiveIsTheLiveOne, DrainStates
<1>4. SentOrder
  BY DEF SentOrder, Done, InOrder
<1>5. \A j, k \in 1..Len(driven) : driven[j] = driven[k] => j = k
  <2> SUFFICES ASSUME NEW j \in 1..Len(driven), NEW k \in 1..Len(driven),
                      driven[j] = driven[k], j < k
               PROVE  FALSE
    BY <1>2
  <2>1. driven[j] < driven[k]
    BY <1>4 DEF SentOrder
  <2> QED
    BY <1>2, <2>1
<1>6. \A j \in 1..Len(driven) : driven[j] \notin cleared
  BY DEF Done
<1>7. \A j \in 1..Len(driven) : driven[j] \notin Pending
  BY <1>1, <1>2, DrivenIsGone
<1> QED
  BY <1>3, <1>4, <1>5, <1>6, <1>7 DEF InboxIsExact, AtMostOnce

\* Messages are driven at most once, in the order they were sent within a kind, and
\* never after a stop discarded them (agent.ts).
THEOREM InboxCorrect ==
  ASSUME MaxItems \in Nat, MaxStops \in Nat
  PROVE  Spec => []InboxIsExact
<1>1. Init => InboxInv /\ Bounded /\ ActiveIsTheLiveOne
  BY EmptyQueue DEF Init, InboxInv, Ordered, Done, InOrder, Bounded, ActiveIsTheLiveOne
<1>2. InboxInv /\ Bounded /\ ActiveIsTheLiveOne /\ [Next]_vars
        => (InboxInv /\ Bounded /\ ActiveIsTheLiveOne)'
  BY InboxStep, BoundedStep, ActiveStep
<1>3. InboxInv /\ Bounded /\ ActiveIsTheLiveOne => InboxIsExact
  BY OrderedIsExact
<1> QED
  BY <1>1, <1>2, <1>3, PTL DEF Spec
=============================================================================
