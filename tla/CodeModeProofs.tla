--------------------------- MODULE CodeModeProofs ---------------------------
(***************************************************************************)
(* Proofs about CodeMode, for any programs, calls and refused records:     *)
(* programs and their reports are never mixed up.                          *)
(*                                                                         *)
(* ProgramsAreSound is not inductive.  IInv adds that one program at a     *)
(* time is between the queue and its end (Alone), who is in the queue      *)
(* (InLine), that the ledger with the call being recorded is the log       *)
(* (Written), and when a program can have no call in the host (Told).      *)
(***************************************************************************)
EXTENDS CodeMode, SequenceTheorems, FiniteSetTheorems, TLAPS

Active == {"starting", "live", "draining"}

\* One program at a time is being run.
Alone == \A p, q \in Programs : run[p] \in Active /\ run[q] \in Active => p = q

\* The worker has the program that is live, and no other.
Heard == GuestIsHeard /\ \A p \in Programs : run[p] = "live" => guest.of = p

\* A program is in the queue once.
InLine == \A i, j \in DOMAIN queue : queue[i] = queue[j] => i = j

\* The outcome of a call that is in the log and not yet in the ledger.
Pending(p) ==
  IF call[p] = "recording ok" THEN <<TRUE>> ELSE IF call[p] = "recording no" THEN <<FALSE>> ELSE <<>>

Written(p) == AreOutcomes(calls[p] \o Pending(p), log[p])

\* A program that has not begun, or is over, has no call in the host, unless the call
\* outlived the grace period; one whose run_code was answered was told of all.
Told(p) ==
  /\ run[p] \in {"none", "queued", "starting"} => call[p] = "none"
  /\ run[p] = "done" /\ p \notin over => call[p] = "none"
  /\ parent[p] = "none" => run[p] = "none"
  /\ parent[p] = "stopped" => p \in stopped
  /\ parent[p] \in {"answered", "ended"} /\ p \notin stopped =>
       run[p] = "done" /\ (p \notin over => report[p] = calls[p])

IInv == /\ TypeOK /\ Alone /\ Heard /\ InLine
        /\ \A p \in Programs : Written(p) /\ Told(p)

-----------------------------------------------------------------------------
(* Types                                                                   *)

Runs == {"none", "queued", "starting", "live", "draining", "done"}
Outcomes == {"-", "ok", "failed", "timeout", "aborted", "substrate"}
Guests == [of : Programs \cup {None}, at : {"idle", "code", "asking", "waiting", "returned", "threw"}]
CallStates == {"none", "checking", "body", "recording ok", "recording no", "lost"}
Parents == {"none", "body", "answered", "stopped", "ended"}
Records == [type : {"start", "dispatch", "end"}, ok : BOOLEAN]
Queued == {p \in Programs : run[p] = "queued"}

\* The type invariant, part by part.
LEMMA Types ==
  TypeOK <=> /\ queue \in Seq(Programs) /\ ToSet(queue) = Queued
             /\ run \in [Programs -> Runs] /\ outcome \in [Programs -> Outcomes]
             /\ spawned \in {"none", "starting", "ready"} /\ guest \in Guests
             /\ call \in [Programs -> CallStates]
             /\ over \subseteq Programs /\ stopped \subseteq Programs
             /\ calls \in [Programs -> Seq(BOOLEAN)] /\ report \in [Programs -> Seq(BOOLEAN)]
             /\ parent \in [Programs -> Parents] /\ log \in [Programs -> Seq(Records)]
             /\ failures \in 0..MaxFailures /\ disposed \in BOOLEAN
<1>1. Runs = {"none", "queued", "starting", "live"} \cup Ended
  BY DEF Runs, Ended
<1> QED
  BY <1>1 DEF TypeOK, Outcomes, Guests, CallStates, Parents, Records, Queued

\* And of the next state.
LEMMA TypesLater ==
  ASSUME queue' \in Seq(Programs), ToSet(queue') = Queued',
         run' \in [Programs -> Runs], outcome' \in [Programs -> Outcomes],
         spawned' \in {"none", "starting", "ready"}, guest' \in Guests,
         call' \in [Programs -> CallStates], over' \subseteq Programs, stopped' \subseteq Programs,
         calls' \in [Programs -> Seq(BOOLEAN)], report' \in [Programs -> Seq(BOOLEAN)],
         parent' \in [Programs -> Parents], log' \in [Programs -> Seq(Records)],
         failures' \in 0..MaxFailures, disposed' \in BOOLEAN
  PROVE  TypeOK'
<1>1. Runs = {"none", "queued", "starting", "live"} \cup Ended
  BY DEF Runs, Ended
<1> QED
  BY <1>1 DEF TypeOK, Outcomes, Guests, CallStates, Parents, Records, Queued

\* The same queue, and nobody enters or leaves it.
LEMMA SameQueue ==
  ASSUME TypeOK, queue' = queue,
         \A p \in Programs : run'[p] = "queued" <=> run[p] = "queued"
  PROVE  queue' \in Seq(Programs) /\ ToSet(queue') = Queued'
<1>1. queue \in Seq(Programs) /\ ToSet(queue) = Queued
  BY Types
<1>2. Queued' = Queued
  BY DEF Queued
<1> QED
  BY <1>1, <1>2

-----------------------------------------------------------------------------
(* The log of a program                                                    *)

\* An event that is no dispatch changes nothing for the dispatches.
LEMMA OtherEvent ==
  ASSUME NEW events \in Seq(Records), NEW e \in Records, e.type # "dispatch",
         NEW outcomes, AreOutcomes(outcomes, events)
  PROVE  AreOutcomes(outcomes, Append(events, e))
<1>1. /\ Len(events) \in Nat /\ DOMAIN events = 1..Len(events)
      /\ DOMAIN Append(events, e) = 1..Len(events) + 1 /\ Append(events, e)[Len(events) + 1] = e
      /\ \A i \in 1..Len(events) : Append(events, e)[i] = events[i]
  OBVIOUS
<1>2. Dispatches(Append(events, e)) = Dispatches(events)
  BY <1>1 DEF Dispatches
<1>3. \A i \in Dispatches(events) : Append(events, e)[i] = events[i]
  BY <1>1 DEF Dispatches
<1> QED
  BY <1>2, <1>3 DEF AreOutcomes

\* A dispatch comes with its outcome.
LEMMA NewDispatch ==
  ASSUME NEW events \in Seq(Records), NEW ok \in BOOLEAN, NEW outcomes \in Seq(BOOLEAN),
         AreOutcomes(outcomes, events)
  PROVE  AreOutcomes(Append(outcomes, ok), Append(events, Event("dispatch", ok)))
<1> DEFINE n == Len(events)
           more == Append(events, Event("dispatch", ok))
           old == Dispatches(events)
           new == Dispatches(more)
           longer == Append(outcomes, ok)
<1>1. /\ n \in Nat /\ DOMAIN events = 1..n /\ DOMAIN more = 1..n + 1
      /\ more[n + 1] = Event("dispatch", ok) /\ \A i \in 1..n : more[i] = events[i]
  OBVIOUS
<1>2. new = old \cup {n + 1} /\ n + 1 \notin old /\ old \subseteq 1..n
  BY <1>1 DEF Dispatches, Event
<1>3. IsFiniteSet(old) /\ Cardinality(old) \in Nat
  <2>1. IsFiniteSet(1..n)
    BY <1>1, FS_Interval
  <2>2. IsFiniteSet(old)
    BY <1>2, <2>1, FS_Subset
  <2> QED
    BY <2>2, FS_CardinalityType
<1>4. Cardinality(new) = Cardinality(old) + 1
  BY <1>2, <1>3, FS_AddElement
<1>5. /\ Len(outcomes) = Cardinality(old) /\ Len(longer) = Len(outcomes) + 1
      /\ longer[Len(outcomes) + 1] = ok /\ \A k \in 1..Len(outcomes) : longer[k] = outcomes[k]
  BY DEF AreOutcomes
<1>6. ASSUME NEW i \in old
      PROVE  longer[Cardinality({j \in new : j <= i})] = more[i].ok
  <2>1. {j \in new : j <= i} = {j \in old : j <= i}
    BY <1>1, <1>2
  <2>2. /\ IsFiniteSet({j \in old : j <= i})
        /\ Cardinality({j \in old : j <= i}) \in Nat
        /\ Cardinality({j \in old : j <= i}) <= Cardinality(old)
    BY <1>3, FS_Subset, FS_CardinalityType
  <2>3. {j \in old : j <= i} # {}
    BY <1>1, <1>2
  <2>4. Cardinality({j \in old : j <= i}) # 0
    BY <2>2, <2>3, FS_EmptySet
  <2>5. outcomes[Cardinality({j \in old : j <= i})] = events[i].ok
    BY DEF AreOutcomes
  <2>6. more[i] = events[i]
    BY <1>1, <1>2
  <2> HIDE DEF more, old, new, longer, n
  <2>7. Cardinality({j \in old : j <= i}) \in 1..Len(outcomes)
    BY <1>3, <1>5, <2>2, <2>4
  <2> QED
    BY <1>5, <2>1, <2>5, <2>6, <2>7
<1>7. longer[Cardinality({j \in new : j <= n + 1})] = more[n + 1].ok
  <2>1. {j \in new : j <= n + 1} = new
    BY <1>1, <1>2
  <2>2. more[n + 1].ok = ok
    BY <1>1 DEF Event
  <2> HIDE DEF more, old, new, longer, n
  <2> QED
    BY <1>4, <1>5, <2>1, <2>2
<1> HIDE DEF more, old, new, longer, n
<1>8. \A i \in new : longer[Cardinality({j \in new : j <= i})] = more[i].ok
  BY <1>2, <1>6, <1>7
<1> QED
  BY <1>4, <1>5, <1>8 DEF AreOutcomes, new, more, longer

-----------------------------------------------------------------------------
(* One program at a time                                                   *)

\* What another program has and is.
Same(q) ==
  /\ run'[q] = run[q] /\ call'[q] = call[q] /\ calls'[q] = calls[q] /\ report'[q] = report[q]
  /\ parent'[q] = parent[q] /\ log'[q] = log[q]
  /\ (q \in over' <=> q \in over) /\ (q \in stopped' <=> q \in stopped)

\* A step of one program keeps the invariant if it keeps what is known of that one.
LEMMA StepOfOne ==
  ASSUME IInv, NEW p \in Programs, TypeOK', InLine', Heard', Written(p)', Told(p)',
         \A q \in Programs \ {p} : Same(q),
         run'[p] \in Active => run[p] \in Active \/ \A q \in Programs : run[q] \notin Active
  PROVE  IInv'
<1>1. Alone'
  BY DEF IInv, Alone, Same
<1>2. ASSUME NEW q \in Programs, q # p
      PROVE  Written(q)' /\ Told(q)'
  <2>1. Same(q) /\ Written(q) /\ Told(q)
    BY <1>2 DEF IInv
  <2>2. Written(q)'
    BY <2>1 DEF Same, Written, Pending
  <2> QED
    BY <2>1, <2>2 DEF Same, Told
<1> QED
  BY <1>1, <1>2 DEF IInv

\* The worker is told to forget the program it has, or has none.
LEMMA GuestGone ==
  ASSUME IInv, NEW p \in Programs, run[p] \in Active, guest' = Idle, run'[p] # "live",
         \A q \in Programs \ {p} : run'[q] = run[q]
  PROVE  Heard'
<1>1. guest'.of = None
  BY DEF Idle
<1>2. \A q \in Programs : run'[q] # "live"
  BY DEF IInv, Alone, Active
<1> QED
  BY <1>1, <1>2 DEF Heard, GuestIsHeard

\* The worker keeps its program, and no other becomes live.
LEMMA GuestStays ==
  ASSUME IInv, guest'.of = guest.of, \A q \in Programs : run'[q] = "live" <=> run[q] = "live"
  PROVE  Heard'
<1>1. Heard /\ guest.of \in Programs \cup {None}
  BY Types DEF IInv, Guests
<1> QED
  BY <1>1 DEF Heard, GuestIsHeard

\* No program leaves or enters the queue.
LEMMA QueueStays ==
  ASSUME IInv, queue' = queue
  PROVE  InLine'
BY DEF IInv, InLine

\* finish(): what becomes of the program and of the worker.
LEMMA FinishDoes ==
  ASSUME IInv, NEW p \in Programs, run[p] \in {"starting", "live"},
         NEW why \in Outcomes, NEW kill \in BOOLEAN, Finish(p, why, kill)
  PROVE  /\ run' \in [Programs -> Runs] /\ outcome' \in [Programs -> Outcomes]
         /\ guest' \in Guests /\ guest' = Idle /\ spawned' \in {"none", "starting", "ready"}
         /\ run'[p] = IF call[p] = "none" THEN "done" ELSE "draining"
         /\ \A q \in Programs \ {p} : run'[q] = run[q]
         /\ \A q \in Programs : run'[q] = "queued" <=> run[q] = "queued"
<1>1. /\ run \in [Programs -> Runs] /\ outcome \in [Programs -> Outcomes]
      /\ spawned \in {"none", "starting", "ready"}
  BY Types DEF IInv
<1>2. Idle \in Guests
  BY DEF Idle, Guests
<1>3. {"done", "draining"} \subseteq Runs
  BY DEF Runs
<1>4. /\ run' = [run EXCEPT ![p] = IF call[p] = "none" THEN "done" ELSE "draining"]
      /\ outcome' = [outcome EXCEPT ![p] = why] /\ guest' = Idle
      /\ spawned' = IF kill THEN "none" ELSE spawned
  BY DEF Finish
<1> QED
  BY <1>1, <1>2, <1>3, <1>4

\* finish() keeps the invariant, whether or not the turn of the program was stopped
\* together with it.
LEMMA FinishKeeps ==
  ASSUME IInv, NEW p \in Programs, run[p] \in {"starting", "live"},
         NEW why \in Outcomes, NEW kill \in BOOLEAN, Finish(p, why, kill),
         UNCHANGED <<queue, call, over, calls, report, log, failures>>, disposed' \in BOOLEAN,
         \/ parent' = parent /\ stopped' = stopped
         \/ parent' = [parent EXCEPT ![p] = "stopped"] /\ stopped' = stopped \cup {p}
  PROVE  IInv'
<1>1. TypeOK /\ Written(p) /\ Told(p) /\ p \notin {}
  BY DEF IInv
<1>2. /\ run' \in [Programs -> Runs] /\ outcome' \in [Programs -> Outcomes]
      /\ guest' \in Guests /\ guest' = Idle /\ spawned' \in {"none", "starting", "ready"}
      /\ run'[p] = IF call[p] = "none" THEN "done" ELSE "draining"
      /\ \A q \in Programs \ {p} : run'[q] = run[q]
      /\ \A q \in Programs : run'[q] = "queued" <=> run[q] = "queued"
  BY FinishDoes
<1>3. parent \in [Programs -> Parents] /\ stopped \subseteq Programs /\ run \in [Programs -> Runs]
  BY <1>1, Types
<1>4. /\ parent' \in [Programs -> Parents] /\ stopped' \subseteq Programs
      /\ \A q \in Programs \ {p} : parent'[q] = parent[q] /\ (q \in stopped' <=> q \in stopped)
      /\ \/ parent'[p] = parent[p] /\ (p \in stopped' <=> p \in stopped)
         \/ parent'[p] = "stopped" /\ p \in stopped'
  BY <1>3 DEF Parents
<1>5. TypeOK'
  <2>1. queue' \in Seq(Programs) /\ ToSet(queue') = Queued'
    BY <1>1, <1>2, SameQueue
  <2> QED
    BY <1>1, <1>2, <1>4, <2>1, Types, TypesLater
<1>6. Heard'
  BY <1>2, GuestGone DEF Active
<1>7. Written(p)'
  BY <1>1 DEF Written, Pending
<1>8. Told(p)'
  BY <1>1, <1>2, <1>4 DEF Told
<1>9. \A q \in Programs \ {p} : Same(q)
  BY <1>2, <1>4 DEF Same
<1> QED
  BY <1>5, <1>6, <1>7, <1>8, <1>9, QueueStays, StepOfOne DEF Active

\* A longer log is a log.
LEMMA LogsGrow ==
  ASSUME log \in [Programs -> Seq(Records)], NEW p \in Programs, NEW e \in Records
  PROVE  Append(log[p], e) \in Seq(Records)
<1>1. log[p] \in Seq(Records)
  OBVIOUS
<1> QED
  BY <1>1, AppendProperties

-----------------------------------------------------------------------------
(* The queue                                                               *)

\* A program that was not in the queue is put at its end.
LEMMA Enqueued ==
  ASSUME TypeOK, InLine, NEW p \in Programs, run[p] # "queued"
  PROVE  /\ Append(queue, p) \in Seq(Programs) /\ ToSet(Append(queue, p)) = Queued \cup {p}
         /\ \A i, j \in DOMAIN Append(queue, p) : Append(queue, p)[i] = Append(queue, p)[j] => i = j
<1>1. queue \in Seq(Programs) /\ ToSet(queue) = Queued /\ p \notin Queued
  BY Types DEF Queued
<1>2. /\ Len(queue) \in Nat /\ DOMAIN queue = 1..Len(queue)
      /\ DOMAIN Append(queue, p) = 1..Len(queue) + 1 /\ Append(queue, p)[Len(queue) + 1] = p
      /\ \A i \in 1..Len(queue) : Append(queue, p)[i] = queue[i]
      /\ Append(queue, p) \in Seq(Programs)
  BY <1>1
<1>3. \A i \in 1..Len(queue) : queue[i] # p
  BY <1>1, <1>2 DEF ToSet
<1>4. DOMAIN Append(queue, p) = DOMAIN queue \cup {Len(queue) + 1}
  BY <1>2
<1>5. ToSet(Append(queue, p)) = ToSet(queue) \cup {p}
  BY <1>2, <1>4 DEF ToSet
<1>6. \A i, j \in DOMAIN Append(queue, p) : Append(queue, p)[i] = Append(queue, p)[j] => i = j
  BY <1>2, <1>3, <1>4 DEF InLine
<1> QED
  BY <1>1, <1>2, <1>5, <1>6

\* The first of the queue leaves it.
LEMMA Dequeued ==
  ASSUME TypeOK, InLine, queue # <<>>
  PROVE  /\ Head(queue) \in Programs /\ run[Head(queue)] = "queued" /\ Tail(queue) \in Seq(Programs)
         /\ ToSet(Tail(queue)) = Queued \ {Head(queue)}
         /\ \A i, j \in DOMAIN Tail(queue) : Tail(queue)[i] = Tail(queue)[j] => i = j
<1> DEFINE n == Len(queue)
           rest == Tail(queue)
<1>1. queue \in Seq(Programs) /\ ToSet(queue) = Queued
  BY Types
<1>2. /\ n \in Nat \ {0} /\ DOMAIN queue = 1..n /\ Head(queue) = queue[1] /\ Head(queue) \in Programs
      /\ rest \in Seq(Programs) /\ DOMAIN rest = 1..n - 1 /\ \A i \in 1..n - 1 : rest[i] = queue[i + 1]
  BY <1>1, EmptySeq, HeadTailProperties
<1>3. Head(queue) \in Queued
  BY <1>1, <1>2 DEF ToSet
<1>4. ToSet(rest) = {queue[i] : i \in 2..n}
  <2>1. \A i \in 1..n - 1 : i + 1 \in 2..n
    BY <1>2
  <2>2. \A i \in 2..n : i - 1 \in 1..n - 1 /\ (i - 1) + 1 = i
    BY <1>2
  <2> HIDE DEF rest, n
  <2>3. \A i \in 2..n : rest[i - 1] = queue[i]
    BY <1>2, <2>2
  <2>4. \A i \in 1..n - 1 : rest[i] \in {queue[k] : k \in 2..n}
    BY <1>2, <2>1
  <2>5. \A i \in 2..n : queue[i] \in {rest[k] : k \in 1..n - 1}
    BY <2>2, <2>3
  <2>6. ToSet(rest) = {rest[k] : k \in 1..n - 1}
    BY <1>2 DEF ToSet
  <2> QED
    BY <2>4, <2>5, <2>6
<1>5. ToSet(queue) = {queue[i] : i \in 2..n} \cup {queue[1]}
  <2>1. 1..n = {1} \cup 2..n
    BY <1>2
  <2> HIDE DEF n
  <2> QED
    BY <1>2, <2>1 DEF ToSet
<1>6. queue[1] \notin {queue[i] : i \in 2..n}
  BY <1>2 DEF InLine
<1>7. \A i, j \in DOMAIN rest : rest[i] = rest[j] => i = j
  <2> SUFFICES ASSUME NEW i \in 1..n - 1, NEW j \in 1..n - 1, rest[i] = rest[j]
               PROVE  i = j
    BY <1>2
  <2>1. i + 1 \in DOMAIN queue /\ j + 1 \in DOMAIN queue /\ queue[i + 1] = queue[j + 1]
    BY <1>2
  <2>2. i + 1 = j + 1
    BY <2>1 DEF InLine
  <2> QED
    BY <2>2
<1> HIDE DEF rest, n
<1> QED
  BY <1>1, <1>2, <1>3, <1>4, <1>5, <1>6, <1>7 DEF Queued, rest

-----------------------------------------------------------------------------
(* The steps of a program                                                  *)

\* run_code begins.
LEMMA RunCodeKeeps ==
  ASSUME IInv, NEW p \in Programs, RunCode(p)
  PROVE  IInv'
<1>1. /\ parent[p] = "none" /\ parent' = [parent EXCEPT ![p] = "body"]
      /\ log' = [log EXCEPT ![p] = Append(@, Event("start", TRUE))]
      /\ run' = [run EXCEPT ![p] = "queued"] /\ queue' = Append(queue, p)
      /\ UNCHANGED <<outcome, worker, call, over, calls, report, stopped, failures, disposed>>
  BY DEF RunCode, Recorded
<1>2. TypeOK /\ Written(p) /\ Told(p) /\ InLine
  BY DEF IInv
<1>3. /\ parent \in [Programs -> Parents] /\ log \in [Programs -> Seq(Records)]
      /\ run \in [Programs -> Runs] /\ run[p] = "none" /\ call[p] = "none"
      /\ Event("start", TRUE) \in Records
  BY <1>1, <1>2, Types DEF Told, Event, Records
<1>4. /\ parent' \in [Programs -> Parents] /\ log' \in [Programs -> Seq(Records)]
      /\ run' \in [Programs -> Runs] /\ parent'[p] = "body" /\ run'[p] = "queued"
      /\ log'[p] = Append(log[p], Event("start", TRUE))
      /\ \A q \in Programs \ {p} : parent'[q] = parent[q] /\ log'[q] = log[q] /\ run'[q] = run[q]
  <2>1. Append(log[p], Event("start", TRUE)) \in Seq(Records)
    BY <1>3, LogsGrow
  <2>2. parent' \in [Programs -> Parents] /\ parent'[p] = "body"
        /\ \A q \in Programs \ {p} : parent'[q] = parent[q]
    BY <1>1, <1>3 DEF Parents
  <2>3. /\ log' \in [Programs -> Seq(Records)] /\ log'[p] = Append(log[p], Event("start", TRUE))
        /\ \A q \in Programs \ {p} : log'[q] = log[q]
    BY <1>1, <1>3, <2>1
  <2>4. run' \in [Programs -> Runs] /\ run'[p] = "queued" /\ \A q \in Programs \ {p} : run'[q] = run[q]
    BY <1>1, <1>3 DEF Runs
  <2> QED
    BY <2>2, <2>3, <2>4
<1>5. TypeOK'
  <2>1. Queued' = Queued \cup {p}
    BY <1>4 DEF Queued
  <2>2. queue' \in Seq(Programs) /\ ToSet(queue') = Queued'
    BY <1>1, <1>2, <1>3, <2>1, Enqueued
  <2> QED
    BY <1>1, <1>2, <1>4, <2>2, Types, TypesLater DEF worker
<1>6. InLine'
  BY <1>1, <1>2, <1>3, Enqueued DEF InLine
<1>7. Heard'
  BY <1>1, <1>3, <1>4, GuestStays DEF worker
<1>8. Written(p)'
  BY <1>1, <1>2, <1>3, <1>4, OtherEvent DEF Written, Pending, Event
<1>9. Told(p)'
  BY <1>1, <1>3, <1>4 DEF Told
<1>10. \A q \in Programs \ {p} : Same(q)
  BY <1>1, <1>4 DEF Same
<1> QED
  BY <1>4, <1>5, <1>6, <1>7, <1>8, <1>9, <1>10, StepOfOne DEF Active

\* runOnce begins.
LEMMA BeginRunKeeps ==
  ASSUME IInv, NEW p \in Programs, BeginRun(p)
  PROVE  IInv'
<1>1. /\ queue # <<>> /\ p = Head(queue) /\ \A q \in Programs : run[q] \notin Active
      /\ queue' = Tail(queue) /\ run' = [run EXCEPT ![p] = "starting"]
      /\ spawned' = IF spawned = "none" THEN "starting" ELSE spawned
      /\ UNCHANGED <<outcome, guest, call, over, calls, report, session, log, failures, disposed>>
  BY DEF BeginRun, Active
<1>2. TypeOK /\ Written(p) /\ Told(p) /\ InLine
  BY DEF IInv
<1>3. run \in [Programs -> Runs] /\ spawned \in {"none", "starting", "ready"} /\ run[p] = "queued"
  BY <1>1, <1>2, Types, Dequeued
<1>4. /\ run' \in [Programs -> Runs] /\ run'[p] = "starting" /\ \A q \in Programs \ {p} : run'[q] = run[q]
      /\ spawned' \in {"none", "starting", "ready"}
  BY <1>1, <1>3 DEF Runs
<1>5. parent' = parent /\ stopped' = stopped
  BY <1>1 DEF session
<1>6. TypeOK'
  <2>1. Queued' = Queued \ {p}
    BY <1>4 DEF Queued
  <2>2. queue' \in Seq(Programs) /\ ToSet(queue') = Queued'
    BY <1>1, <1>2, <2>1, Dequeued
  <2> QED
    BY <1>1, <1>2, <1>4, <1>5, <2>2, Types, TypesLater
<1>7. InLine'
  BY <1>1, <1>2, Dequeued DEF InLine
<1>8. Heard'
  BY <1>1, <1>3, <1>4, GuestStays
<1>9. Written(p)'
  BY <1>1, <1>2 DEF Written, Pending
<1>10. Told(p)'
  BY <1>1, <1>2, <1>3, <1>4, <1>5 DEF Told
<1>11. \A q \in Programs \ {p} : Same(q)
  BY <1>1, <1>4, <1>5 DEF Same
<1> QED
  BY <1>1, <1>6, <1>7, <1>8, <1>9, <1>10, <1>11, StepOfOne

\* The worker fails before it is ready.
LEMMA WorkerFailsKeeps ==
  ASSUME IInv, NEW p \in Programs, WorkerFails(p)
  PROVE  IInv'
<1>1. /\ run[p] = "starting" /\ spawned' = "none" /\ run' = [run EXCEPT ![p] = "done"]
      /\ outcome' = [outcome EXCEPT ![p] = "substrate"]
      /\ UNCHANGED <<queue, guest, call, over, calls, report, session, log, failures, disposed>>
  BY DEF WorkerFails
<1>2. TypeOK /\ Written(p) /\ Told(p)
  BY DEF IInv
<1>3. run \in [Programs -> Runs] /\ outcome \in [Programs -> Outcomes]
  BY <1>2, Types
<1>4. /\ run' \in [Programs -> Runs] /\ run'[p] = "done" /\ \A q \in Programs \ {p} : run'[q] = run[q]
      /\ outcome' \in [Programs -> Outcomes]
  BY <1>1, <1>3 DEF Runs, Outcomes
<1>5. parent' = parent /\ stopped' = stopped
  BY <1>1 DEF session
<1>6. TypeOK'
  <2>1. queue' \in Seq(Programs) /\ ToSet(queue') = Queued'
    BY <1>1, <1>2, <1>4, SameQueue
  <2> QED
    BY <1>1, <1>2, <1>4, <1>5, <2>1, Types, TypesLater
<1>7. Heard'
  BY <1>1, <1>4, GuestStays
<1>8. Written(p)'
  BY <1>1, <1>2 DEF Written, Pending
<1>9. Told(p)'
  BY <1>1, <1>2, <1>4, <1>5 DEF Told
<1>10. \A q \in Programs \ {p} : Same(q)
  BY <1>1, <1>4, <1>5 DEF Same
<1> QED
  BY <1>1, <1>4, <1>6, <1>7, <1>8, <1>9, <1>10, QueueStays, StepOfOne DEF Active

\* The program is posted to the worker, or is over before that.
LEMMA PostKeeps ==
  ASSUME IInv, NEW p \in Programs, Post(p)
  PROVE  IInv'
<1>1. /\ run[p] = "starting"
      /\ UNCHANGED <<queue, call, over, calls, report, session, log, failures, disposed>>
  BY DEF Post
<1>2. TypeOK /\ Written(p) /\ Told(p) /\ Alone
  BY DEF IInv
<1>3. parent' = parent /\ stopped' = stopped
  BY <1>1 DEF session
<1>4. CASE p \in stopped
  <2>1. Finish(p, "aborted", TRUE) /\ "aborted" \in Outcomes
    BY <1>4 DEF Post, Outcomes
  <2>2. disposed' \in BOOLEAN
    BY <1>1, <1>2, Types
  <2> QED
    BY <1>1, <1>3, <2>1, <2>2, FinishKeeps
<1>5. CASE p \notin stopped
  <2>1. /\ run' = [run EXCEPT ![p] = "live"] /\ guest' = [of |-> p, at |-> "code"]
        /\ spawned' = spawned /\ outcome' = outcome
    BY <1>5 DEF Post
  <2>2. run \in [Programs -> Runs]
    BY <1>2, Types
  <2>3. /\ run' \in [Programs -> Runs] /\ run'[p] = "live" /\ \A q \in Programs \ {p} : run'[q] = run[q]
        /\ guest' \in Guests /\ guest'.of = p
    BY <2>1, <2>2 DEF Runs, Guests
  <2>4. TypeOK'
    <3>1. queue' \in Seq(Programs) /\ ToSet(queue') = Queued'
      BY <1>1, <1>2, <2>3, SameQueue
    <3> QED
      BY <1>1, <1>2, <1>3, <2>1, <2>3, <3>1, Types, TypesLater
  <2>5. Heard'
    BY <1>1, <1>2, <2>3 DEF Heard, GuestIsHeard, Alone, Active
  <2>6. Written(p)'
    BY <1>1, <1>2 DEF Written, Pending
  <2>7. Told(p)'
    BY <1>1, <1>2, <1>3, <2>3 DEF Told
  <2>8. \A q \in Programs \ {p} : Same(q)
    BY <1>1, <1>3, <2>3 DEF Same
  <2> QED
    BY <1>1, <2>4, <2>5, <2>6, <2>7, <2>8, QueueStays, StepOfOne DEF Active
<1> QED
  BY <1>4, <1>5

\* The program comes to its end, or is ended: by the clock, by the death of its worker,
\* by the exit of the host, by the stop of its turn.
LEMMA EndsKeep ==
  ASSUME IInv, NEW p \in Programs, Done(p) \/ WallClock(p) \/ WorkerDies(p)
  PROVE  IInv'
<1>1. /\ run[p] = "live" /\ UNCHANGED <<queue, call, over, calls, report, session, log, failures, disposed>>
      /\ \E why \in Outcomes, kill \in BOOLEAN : Finish(p, why, kill)
  BY DEF Done, WallClock, WorkerDies, Outcomes
<1>2. parent' = parent /\ stopped' = stopped
  BY <1>1 DEF session
<1>3. disposed' \in BOOLEAN
  BY <1>1, Types DEF IInv
<1> QED
  BY <1>1, <1>2, <1>3, FinishKeeps

\* The turn of the program is stopped.
LEMMA StopKeeps ==
  ASSUME IInv, NEW p \in Programs, Stop(p)
  PROVE  IInv'
<1>1. /\ parent[p] = "body" /\ stopped' = stopped \cup {p} /\ parent' = [parent EXCEPT ![p] = "stopped"]
      /\ UNCHANGED <<queue, call, over, calls, report, log, failures, disposed>>
      /\ IF run[p] = "live" THEN Finish(p, "aborted", TRUE) ELSE UNCHANGED <<run, outcome, worker>>
  BY DEF Stop
<1>2. TypeOK /\ Written(p) /\ Told(p)
  BY DEF IInv
<1>3. CASE run[p] = "live"
  <2>1. "aborted" \in Outcomes /\ disposed' \in BOOLEAN
    BY <1>1, <1>2, Types DEF Outcomes
  <2> QED
    BY <1>1, <1>3, <2>1, FinishKeeps
<1>4. CASE run[p] # "live"
  <2>1. run' = run /\ outcome' = outcome /\ spawned' = spawned /\ guest' = guest
    BY <1>1, <1>4 DEF worker
  <2>2. parent \in [Programs -> Parents] /\ stopped \subseteq Programs
    BY <1>2, Types
  <2>3. /\ parent' \in [Programs -> Parents] /\ parent'[p] = "stopped" /\ p \in stopped'
        /\ stopped' \subseteq Programs
        /\ \A q \in Programs \ {p} : parent'[q] = parent[q] /\ (q \in stopped' <=> q \in stopped)
    BY <1>1, <2>2 DEF Parents
  <2>4. TypeOK'
    <3>1. queue' \in Seq(Programs) /\ ToSet(queue') = Queued'
      BY <1>1, <1>2, <2>1, SameQueue
    <3> QED
      BY <1>1, <1>2, <2>1, <2>3, <3>1, Types, TypesLater
  <2>5. Heard'
    BY <2>1, GuestStays
  <2>6. Written(p)'
    BY <1>1, <1>2 DEF Written, Pending
  <2>7. Told(p)'
    BY <1>1, <1>2, <2>1, <2>3 DEF Told
  <2>8. \A q \in Programs \ {p} : Same(q)
    BY <1>1, <2>1, <2>3 DEF Same
  <2> QED
    BY <1>1, <2>1, <2>4, <2>5, <2>6, <2>7, <2>8, QueueStays, StepOfOne
<1> QED
  BY <1>3, <1>4

\* Nothing of any program changes but the worker.
LEMMA OnlyTheWorker ==
  ASSUME IInv, UNCHANGED <<queue, run, outcome, call, over, calls, report, session, log, failures>>,
         disposed' \in BOOLEAN, spawned' \in {"none", "starting", "ready"}, guest' \in Guests, Heard'
  PROVE  IInv'
<1>1. TypeOK /\ Alone /\ InLine /\ \A p \in Programs : Written(p) /\ Told(p)
  BY DEF IInv
<1>2. parent' = parent /\ stopped' = stopped
  BY DEF session
<1>3. TypeOK'
  <2>1. queue' \in Seq(Programs) /\ ToSet(queue') = Queued'
    BY <1>1, SameQueue
  <2> QED
    BY <1>1, <1>2, <2>1, Types, TypesLater
<1>4. Alone'
  BY <1>1 DEF Alone
<1>5. \A p \in Programs : Written(p)' /\ Told(p)'
  BY <1>1, <1>2 DEF Written, Pending, Told
<1> QED
  BY <1>3, <1>4, <1>5, QueueStays DEF IInv

\* The container goes.
LEMMA DisposeKeeps ==
  ASSUME IInv, Dispose
  PROVE  IInv'
<1>1. /\ disposed' = TRUE /\ UNCHANGED <<queue, call, over, calls, report, session, log, failures>>
  BY DEF Dispose
<1>2. CASE \E p \in Programs : run[p] = "live"
  <2> DEFINE p == CHOOSE q \in Programs : run[q] = "live"
  <2>1. p \in Programs /\ run[p] = "live" /\ Finish(p, "substrate", TRUE)
    BY <1>2 DEF Dispose
  <2>2. parent' = parent /\ stopped' = stopped /\ "substrate" \in Outcomes
    BY <1>1 DEF session, Outcomes
  <2> HIDE DEF p
  <2> QED
    BY <1>1, <2>1, <2>2, FinishKeeps
<1>3. CASE ~ \E p \in Programs : run[p] = "live"
  <2>1. spawned' = "none" /\ guest' = Idle /\ run' = run /\ outcome' = outcome
    BY <1>3 DEF Dispose
  <2>2. guest' \in Guests /\ Heard'
    BY <1>3, <2>1 DEF Guests, Idle, Heard, GuestIsHeard
  <2> QED
    BY <1>1, <2>1, <2>2, OnlyTheWorker
<1> QED
  BY <1>2, <1>3

\* The worker reports, or the program in it asks or ends.
LEMMA WorkerStepsKeep ==
  ASSUME IInv, WorkerReady \/ GuestAsks \/ GuestEnds \/ UNCHANGED vars
  PROVE  IInv'
<1>1. /\ spawned \in {"none", "starting", "ready"} /\ guest \in Guests /\ disposed \in BOOLEAN
  BY Types DEF IInv
<1>2. /\ UNCHANGED <<queue, run, outcome, call, over, calls, report, session, log, failures, disposed>>
      /\ spawned' \in {"none", "starting", "ready"}
      /\ guest' = guest \/ \E at \in {"asking", "returned", "threw"} : guest' = [guest EXCEPT !.at = at]
  BY <1>1 DEF WorkerReady, GuestAsks, GuestEnds, vars, session, worker
<1>3. guest' \in Guests /\ guest'.of = guest.of
  BY <1>1, <1>2 DEF Guests
<1>4. Heard'
  BY <1>2, <1>3, GuestStays
<1> QED
  BY <1>1, <1>2, <1>3, <1>4, OnlyTheWorker

\* run() resolves without the call.
LEMMA GraceOverKeeps ==
  ASSUME IInv, NEW p \in Programs, GraceOver(p)
  PROVE  IInv'
<1>1. /\ run[p] = "draining" /\ run' = [run EXCEPT ![p] = "done"] /\ over' = over \cup {p}
      /\ UNCHANGED <<queue, outcome, worker, call, calls, report, session, log, failures, disposed>>
  BY DEF GraceOver
<1>2. TypeOK /\ Written(p) /\ Told(p)
  BY DEF IInv
<1>3. run \in [Programs -> Runs] /\ over \subseteq Programs
  BY <1>2, Types
<1>4. /\ run' \in [Programs -> Runs] /\ run'[p] = "done" /\ \A q \in Programs \ {p} : run'[q] = run[q]
      /\ over' \subseteq Programs /\ p \in over' /\ \A q \in Programs \ {p} : q \in over' <=> q \in over
  BY <1>1, <1>3 DEF Runs
<1>5. parent' = parent /\ stopped' = stopped /\ spawned' = spawned /\ guest' = guest
  BY <1>1 DEF session, worker
<1>6. TypeOK'
  <2>1. queue' \in Seq(Programs) /\ ToSet(queue') = Queued'
    BY <1>1, <1>2, <1>4, SameQueue
  <2> QED
    BY <1>1, <1>2, <1>4, <1>5, <2>1, Types, TypesLater
<1>7. Heard'
  BY <1>1, <1>4, <1>5, GuestStays
<1>8. Written(p)'
  BY <1>1, <1>2 DEF Written, Pending
<1>9. Told(p)'
  BY <1>1, <1>2, <1>4, <1>5 DEF Told
<1>10. \A q \in Programs \ {p} : Same(q)
  BY <1>1, <1>4, <1>5 DEF Same
<1> QED
  BY <1>1, <1>4, <1>6, <1>7, <1>8, <1>9, <1>10, QueueStays, StepOfOne DEF Active

-----------------------------------------------------------------------------
(* The steps of a call                                                     *)

\* A step of the call of p in the host; the log and the ledger say what they must, and
\* a call there was, there is.
LEMMA CallSteps ==
  ASSUME IInv, NEW p \in Programs, call' \in [Programs -> CallStates],
         \A q \in Programs \ {p} : call'[q] = call[q] /\ log'[q] = log[q],
         log' \in [Programs -> Seq(Records)], failures' \in 0..MaxFailures,
         guest' \in Guests, guest'.of = guest.of,
         UNCHANGED <<queue, run, outcome, spawned, over, calls, report, session, disposed>>,
         call[p] # "none" \/ run[p] = "live", Written(p)'
  PROVE  IInv'
<1>1. TypeOK /\ Told(p)
  BY DEF IInv
<1>2. parent' = parent /\ stopped' = stopped
  BY DEF session
<1>3. TypeOK'
  <2>1. queue' \in Seq(Programs) /\ ToSet(queue') = Queued'
    BY <1>1, SameQueue
  <2> QED
    BY <1>1, <1>2, <2>1, Types, TypesLater
<1>4. Heard'
  BY GuestStays
<1>5. Told(p)'
  BY <1>1, <1>2 DEF Told
<1>6. \A q \in Programs \ {p} : Same(q)
  BY <1>2 DEF Same
<1> QED
  BY <1>3, <1>4, <1>5, <1>6, QueueStays, StepOfOne

\* The call comes to the host, and its body starts.
LEMMA StartsKeep ==
  ASSUME IInv, NEW p \in Programs, Dispatch(p) \/ Body(p)
  PROVE  IInv'
<1>1. /\ UNCHANGED <<queue, run, outcome, spawned, over, calls, report, session, log, failures, disposed>>
      /\ guest' = guest \/ guest' = [guest EXCEPT !.at = "waiting"]
      /\ \/ call[p] = "none" /\ run[p] = "live" /\ call' = [call EXCEPT ![p] = "checking"]
         \/ call[p] = "checking" /\ call' = [call EXCEPT ![p] = "body"]
  BY DEF Dispatch, Body, worker
<1>2. TypeOK /\ Written(p)
  BY DEF IInv
<1>3. call \in [Programs -> CallStates] /\ guest \in Guests
  BY <1>2, Types
<1>4. /\ call' \in [Programs -> CallStates] /\ \A q \in Programs \ {p} : call'[q] = call[q]
      /\ call'[p] \in {"checking", "body"} /\ call[p] \in {"none", "checking"}
  BY <1>1, <1>3 DEF CallStates
<1>5. guest' \in Guests /\ guest'.of = guest.of
  BY <1>1, <1>3 DEF Guests
<1>6. Written(p)'
  BY <1>1, <1>2, <1>4 DEF Written, Pending
<1>7. log' \in [Programs -> Seq(Records)] /\ failures' \in 0..MaxFailures
  BY <1>1, <1>2, Types
<1> QED
  BY <1>1, <1>4, <1>5, <1>6, <1>7, CallSteps

\* The record of the call is made, or refused.
LEMMA AuditKeeps ==
  ASSUME IInv, NEW p \in Programs, NEW ok \in BOOLEAN, call[p] \in {"checking", "body"}, Audit(p, ok),
         UNCHANGED <<queue, run, outcome, worker, over, calls, report, session, disposed>>
  PROVE  IInv'
<1>1. TypeOK /\ Written(p)
  BY DEF IInv
<1>2. /\ call \in [Programs -> CallStates] /\ guest \in Guests /\ log \in [Programs -> Seq(Records)]
      /\ failures \in 0..MaxFailures /\ calls[p] \in Seq(BOOLEAN)
  BY <1>1, Types
<1>3. spawned' = spawned /\ guest' = guest
  BY DEF worker
<1>4. Pending(p) = <<>> /\ calls[p] \o Pending(p) = calls[p]
  BY <1>2, ConcatEmptySeq DEF Pending
<1>5. CASE /\ Recorded(p, "dispatch", ok)
           /\ call' = [call EXCEPT ![p] = IF ok THEN "recording ok" ELSE "recording no"]
           /\ UNCHANGED failures
  <2>1. /\ call' \in [Programs -> CallStates] /\ \A q \in Programs \ {p} : call'[q] = call[q]
        /\ call'[p] = IF ok THEN "recording ok" ELSE "recording no"
    BY <1>2, <1>5 DEF CallStates
  <2>2. Event("dispatch", ok) \in Records
    BY DEF Event, Records
  <2>3. Append(log[p], Event("dispatch", ok)) \in Seq(Records)
    BY <1>2, <2>2, LogsGrow
  <2>4. /\ log' \in [Programs -> Seq(Records)] /\ \A q \in Programs \ {p} : log'[q] = log[q]
        /\ log'[p] = Append(log[p], Event("dispatch", ok))
    BY <1>2, <1>5, <2>3 DEF Recorded
  <2>5. Pending(p)' = <<ok>>
    BY <2>1 DEF Pending
  <2>6. calls'[p] \o Pending(p)' = Append(calls[p], ok)
    BY <1>2, <2>5, AppendIsConcat
  <2>7. log[p] \in Seq(Records) /\ AreOutcomes(calls[p], log[p])
    BY <1>1, <1>2, <1>4 DEF Written
  <2>8. AreOutcomes(Append(calls[p], ok), log'[p])
    BY <1>2, <2>4, <2>7, NewDispatch
  <2>9. Written(p)'
    BY <2>6, <2>8 DEF Written
  <2> QED
    BY <1>2, <1>3, <1>5, <2>1, <2>4, <2>9, CallSteps
<1>6. CASE /\ failures < MaxFailures /\ failures' = failures + 1
           /\ call' = [call EXCEPT ![p] = "lost"] /\ UNCHANGED log
  <2>1. /\ call' \in [Programs -> CallStates] /\ \A q \in Programs \ {p} : call'[q] = call[q]
        /\ call'[p] = "lost"
    BY <1>2, <1>6 DEF CallStates
  <2>2. failures' \in 0..MaxFailures
    BY <1>2, <1>6, ConstantsAssumption
  <2>3. Written(p)'
    BY <1>1, <1>4, <1>6, <2>1 DEF Written, Pending
  <2> QED
    BY <1>2, <1>3, <1>6, <2>1, <2>2, <2>3, CallSteps
<1> QED
  BY <1>5, <1>6 DEF Audit

\* The body ends, or the call is refused.
LEMMA VerdictsKeep ==
  ASSUME IInv, NEW p \in Programs, BodyEnds(p) \/ Refused(p)
  PROVE  IInv'
<1>1. /\ call[p] \in {"checking", "body"} /\ \E ok \in BOOLEAN : Audit(p, ok)
      /\ UNCHANGED <<queue, run, outcome, worker, over, calls, report, session, disposed>>
  BY DEF BodyEnds, Refused
<1> QED
  BY <1>1, AuditKeeps

\* The call enters the ledger.
LEMMA SettleKeeps ==
  ASSUME IInv, NEW p \in Programs, Settle(p)
  PROVE  IInv'
<1>1. /\ call[p] \in {"recording ok", "recording no", "lost"} /\ call' = [call EXCEPT ![p] = "none"]
      /\ calls' = IF call[p] = "lost" THEN calls
                  ELSE [calls EXCEPT ![p] = Append(@, call[p] = "recording ok")]
      /\ run' = [run EXCEPT ![p] = IF @ = "draining" THEN "done" ELSE @]
      /\ guest' = IF run[p] = "live" THEN [guest EXCEPT !.at = "code"] ELSE guest
      /\ UNCHANGED <<queue, outcome, spawned, over, report, session, log, failures, disposed>>
  BY DEF Settle
<1>2. TypeOK /\ Written(p) /\ Told(p)
  BY DEF IInv
<1>3. /\ call \in [Programs -> CallStates] /\ guest \in Guests /\ run \in [Programs -> Runs]
      /\ calls \in [Programs -> Seq(BOOLEAN)] /\ calls[p] \in Seq(BOOLEAN)
  BY <1>2, Types
<1>4. parent' = parent /\ stopped' = stopped
  BY <1>1 DEF session
<1>5. /\ call' \in [Programs -> CallStates] /\ call'[p] = "none"
      /\ \A q \in Programs \ {p} : call'[q] = call[q]
  BY <1>1, <1>3 DEF CallStates
<1>6. /\ run' \in [Programs -> Runs] /\ \A q \in Programs \ {p} : run'[q] = run[q]
      /\ run'[p] = IF run[p] = "draining" THEN "done" ELSE run[p]
  BY <1>1, <1>3 DEF Runs
<1>7. guest' \in Guests /\ guest'.of = guest.of
  BY <1>1, <1>3 DEF Guests
<1>8. /\ calls' \in [Programs -> Seq(BOOLEAN)] /\ \A q \in Programs \ {p} : calls'[q] = calls[q]
      /\ calls'[p] = calls[p] \o Pending(p)
  <2>1. CASE call[p] = "lost"
    BY <1>1, <1>3, <2>1, ConcatEmptySeq DEF Pending
  <2>2. CASE call[p] # "lost"
    <3> DEFINE ok == call[p] = "recording ok"
    <3>1. ok \in BOOLEAN /\ Pending(p) = <<ok>>
      BY <1>1, <2>2 DEF Pending
    <3>2. calls' = [calls EXCEPT ![p] = Append(calls[p], ok)]
      BY <1>1, <2>2
    <3> HIDE DEF ok
    <3>3. Append(calls[p], ok) \in Seq(BOOLEAN) /\ Append(calls[p], ok) = calls[p] \o <<ok>>
      BY <1>3, <3>1, AppendProperties, AppendIsConcat
    <3> QED
      BY <1>3, <3>1, <3>2, <3>3
  <2> QED
    BY <2>1, <2>2
<1>9. TypeOK'
  <2>1. queue' \in Seq(Programs) /\ ToSet(queue') = Queued'
    BY <1>1, <1>2, <1>6, SameQueue
  <2> QED
    BY <1>1, <1>2, <1>4, <1>5, <1>6, <1>7, <1>8, <2>1, Types, TypesLater
<1>10. Heard'
  BY <1>6, <1>7, GuestStays
<1>11. Written(p)'
  <2>1. Pending(p)' = <<>> /\ calls'[p] \in Seq(BOOLEAN)
    BY <1>5, <1>8 DEF Pending
  <2>2. calls'[p] \o Pending(p)' = calls[p] \o Pending(p)
    BY <1>8, <2>1, ConcatEmptySeq
  <2> QED
    BY <1>1, <1>2, <2>2 DEF Written
<1>12. Told(p)'
  BY <1>1, <1>2, <1>4, <1>5, <1>6 DEF Told
<1>13. \A q \in Programs \ {p} : Same(q)
  BY <1>1, <1>4, <1>5, <1>6, <1>8 DEF Same
<1> QED
  BY <1>1, <1>6, <1>9, <1>10, <1>11, <1>12, <1>13, QueueStays, StepOfOne DEF Active

-----------------------------------------------------------------------------
(* The steps of run_code                                                   *)

\* run_code reports, and ends.
LEMMA AnswersKeep ==
  ASSUME IInv, NEW p \in Programs, Answered(p) \/ ParentEnds(p)
  PROVE  IInv'
<1>1. TypeOK /\ Written(p) /\ Told(p)
  BY DEF IInv
<1>2. /\ parent \in [Programs -> Parents] /\ report \in [Programs -> Seq(BOOLEAN)]
      /\ log \in [Programs -> Seq(Records)] /\ calls[p] \in Seq(BOOLEAN)
  BY <1>1, Types
<1>3. UNCHANGED <<queue, run, outcome, worker, call, over, calls, stopped, failures, disposed>>
  BY DEF Answered, ParentEnds
<1>4. /\ parent' \in [Programs -> Parents] /\ report' \in [Programs -> Seq(BOOLEAN)]
      /\ log' \in [Programs -> Seq(Records)]
      /\ \A q \in Programs \ {p} : parent'[q] = parent[q] /\ report'[q] = report[q] /\ log'[q] = log[q]
      /\ \/ /\ parent[p] = "body" /\ run[p] = "done" /\ parent'[p] = "answered"
            /\ report'[p] = calls[p] /\ log'[p] = log[p]
         \/ /\ parent[p] \in {"answered", "stopped"} /\ parent'[p] = "ended" /\ report'[p] = report[p]
            /\ \E ok \in BOOLEAN : log'[p] = Append(log[p], Event("end", ok))
  <2>1. CASE Answered(p)
    BY <1>2, <2>1 DEF Answered, Parents
  <2>2. CASE ParentEnds(p)
    <3> DEFINE ok == parent[p] = "answered"
    <3>1. Event("end", ok) \in Records
      BY DEF Event, Records
    <3>2. Append(log[p], Event("end", ok)) \in Seq(Records)
      BY <1>2, <3>1, LogsGrow
    <3>3. /\ parent[p] \in {"answered", "stopped"} /\ parent' = [parent EXCEPT ![p] = "ended"]
          /\ log' = [log EXCEPT ![p] = Append(@, Event("end", ok))] /\ report' = report
      BY <2>2 DEF ParentEnds, Recorded
    <3>4. parent' \in [Programs -> Parents] /\ parent'[p] = "ended"
          /\ \A q \in Programs \ {p} : parent'[q] = parent[q]
      BY <1>2, <3>3 DEF Parents
    <3>5. ok \in BOOLEAN
      OBVIOUS
    <3> HIDE DEF ok
    <3> QED
      BY <1>2, <3>2, <3>3, <3>4, <3>5
  <2> QED
    BY <2>1, <2>2
<1>5. spawned' = spawned /\ guest' = guest
  BY <1>3 DEF worker
<1>6. TypeOK'
  <2>1. queue' \in Seq(Programs) /\ ToSet(queue') = Queued'
    BY <1>1, <1>3, SameQueue
  <2> QED
    BY <1>1, <1>3, <1>4, <1>5, <2>1, Types, TypesLater
<1>7. Heard'
  BY <1>3, <1>5, GuestStays
<1>8. Written(p)'
  <2>1. AreOutcomes(calls[p] \o Pending(p), log'[p])
    <3>1. CASE log'[p] = log[p]
      BY <1>1, <3>1 DEF Written
    <3>2. CASE \E ok \in BOOLEAN : log'[p] = Append(log[p], Event("end", ok))
      <4>1. PICK ok \in BOOLEAN : log'[p] = Append(log[p], Event("end", ok))
        BY <3>2
      <4>2. Event("end", ok) \in Records /\ Event("end", ok).type # "dispatch" /\ log[p] \in Seq(Records)
        BY <1>2 DEF Event, Records
      <4> QED
        BY <1>1, <4>1, <4>2, OtherEvent DEF Written
    <3> QED
      BY <1>4, <3>1, <3>2
  <2> QED
    BY <1>3, <2>1 DEF Written, Pending
<1>9. Told(p)'
  BY <1>1, <1>3, <1>4 DEF Told
<1>10. \A q \in Programs \ {p} : Same(q)
  BY <1>3, <1>4 DEF Same
<1> QED
  BY <1>3, <1>6, <1>7, <1>8, <1>9, <1>10, QueueStays, StepOfOne

-----------------------------------------------------------------------------
\* No program has been asked for yet.
LEMMA Begins ==
  ASSUME Init
  PROVE  IInv
<1>1. queue = <<>> /\ ToSet(<<>>) = {} /\ <<>> \in Seq(Programs) /\ <<>> \in Seq(BOOLEAN) /\ <<>> \in Seq(Records)
  BY DEF Init, ToSet
<1>2. TypeOK
  <2>1. Queued = {}
    BY DEF Init, Queued
  <2>2. guest \in Guests /\ run \in [Programs -> Runs] /\ outcome \in [Programs -> Outcomes]
        /\ call \in [Programs -> CallStates] /\ parent \in [Programs -> Parents]
    BY DEF Init, Idle, Guests, Runs, Outcomes, CallStates, Parents
  <2>3. failures \in 0..MaxFailures
    BY ConstantsAssumption DEF Init
  <2> QED
    BY <1>1, <2>1, <2>2, <2>3, Types DEF Init
<1>3. Alone /\ Heard /\ InLine
  BY <1>1 DEF Init, Alone, Heard, InLine, GuestIsHeard, Idle, Active
<1>4. ASSUME NEW p \in Programs
      PROVE  Written(p) /\ Told(p)
  <2>1. calls[p] \o Pending(p) = <<>> /\ log[p] = <<>>
    BY <1>1, ConcatEmptySeq DEF Init, Pending
  <2>2. Dispatches(<<>>) = {} /\ Cardinality({}) = 0 /\ Len(<<>>) = 0
    BY FS_EmptySet DEF Dispatches
  <2>3. AreOutcomes(<<>>, <<>>)
    BY <2>2 DEF AreOutcomes
  <2> QED
    BY <2>1, <2>3 DEF Init, Written, Told
<1> QED
  BY <1>2, <1>3, <1>4 DEF IInv

\* Every step keeps the invariant.
LEMMA Steps ==
  ASSUME IInv, [Next]_vars
  PROVE  IInv'
<1>1. ASSUME NEW p \in Programs, HostSteps(p)
      PROVE  IInv'
  BY <1>1, BeginRunKeeps, PostKeeps, EndsKeep, StartsKeep, SettleKeeps, AnswersKeep DEF HostSteps
<1>2. ASSUME NEW p \in Programs,
             \/ RunCode(p) \/ Stop(p) \/ Body(p) \/ BodyEnds(p) \/ Refused(p)
             \/ WallClock(p) \/ WorkerFails(p) \/ WorkerDies(p) \/ GraceOver(p)
      PROVE  IInv'
  BY <1>2, RunCodeKeeps, StopKeeps, StartsKeep, VerdictsKeep, EndsKeep, WorkerFailsKeeps, GraceOverKeeps
<1>3. CASE WorkerReady \/ GuestAsks \/ GuestEnds \/ UNCHANGED vars
  BY <1>3, WorkerStepsKeep
<1>4. CASE Dispose
  BY <1>4, DisposeKeeps
<1> QED
  BY <1>1, <1>2, <1>3, <1>4 DEF Next

\* Whatever programs compute, ask and suffer, the worker executes the one the host
\* listens to, and what run_code reports of a program is what its log says, for good.
THEOREM ProgramsCorrect == Spec => []ProgramsAreSound
<1>1. Init => IInv
  BY Begins
<1>2. IInv /\ [Next]_vars => IInv'
  BY Steps
<1>3. IInv => ProgramsAreSound
  <2> SUFFICES ASSUME IInv
               PROVE  ProgramsAreSound
    OBVIOUS
  <2>1. ASSUME NEW p \in Programs, parent[p] \in {"answered", "ended"}, p \notin over \cup stopped
        PROVE  AreOutcomes(report[p], log[p])
    <3>1. Told(p) /\ Written(p) /\ calls[p] \in Seq(BOOLEAN)
      BY Types DEF IInv
    <3>2. report[p] = calls[p] /\ call[p] = "none"
      BY <2>1, <3>1 DEF Told
    <3>3. calls[p] \o Pending(p) = calls[p]
      BY <3>1, <3>2, ConcatEmptySeq DEF Pending
    <3> QED
      BY <3>1, <3>2, <3>3 DEF Written
  <2> QED
    BY <2>1 DEF ProgramsAreSound, ReportIsTheLog, IInv, Heard
<1> QED
  BY <1>1, <1>2, <1>3, PTL DEF Spec

\* No body of a tool is started for a program that is over or whose turn was stopped,
\* whatever step is taken.
THEOREM NoLateStart == Spec => NoStartAfterEnd
<1>1. ASSUME IInv, Next, NEW p \in Programs, call'[p] = "body", call[p] # "body"
      PROVE  ~Aborted(p)
  <2>1. call \in [Programs -> CallStates]
    BY <1>1, Types DEF IInv
  <2>2. ASSUME NEW q \in Programs, call' = [call EXCEPT ![q] = "checking"]
        PROVE  FALSE
    BY <1>1, <2>1, <2>2
  <2>3. ASSUME NEW q \in Programs, NEW ok \in BOOLEAN, Audit(q, ok)
        PROVE  FALSE
    BY <1>1, <2>1, <2>3 DEF Audit
  <2>4. ASSUME NEW q \in Programs, call' = [call EXCEPT ![q] = "none"]
        PROVE  FALSE
    BY <1>1, <2>1, <2>4
  <2>5. call' # call
    BY <1>1
  <2>6. ASSUME NEW q \in Programs, Body(q)
        PROVE  ~Aborted(p)
    <3>1. p = q
      BY <1>1, <2>1, <2>6 DEF Body
    <3> QED
      BY <2>6, <3>1 DEF Body
  <2>7. ASSUME NEW q \in Programs, HostSteps(q)
        PROVE  FALSE
    BY <2>2, <2>4, <2>5, <2>7 DEF HostSteps, BeginRun, Post, Done, Dispatch, Settle, Answered, ParentEnds
  <2>8. ASSUME NEW q \in Programs,
               \/ RunCode(q) \/ Stop(q) \/ WallClock(q) \/ WorkerFails(q) \/ WorkerDies(q) \/ GraceOver(q)
               \/ WorkerReady \/ GuestAsks \/ GuestEnds \/ Dispose
        PROVE  FALSE
    BY <2>5, <2>8
       DEF RunCode, Stop, WallClock, WorkerFails, WorkerDies, GraceOver, WorkerReady, GuestAsks, GuestEnds, Dispose
  <2>9. ASSUME NEW q \in Programs, BodyEnds(q) \/ Refused(q)
        PROVE  FALSE
    BY <2>3, <2>9 DEF BodyEnds, Refused
  <2> QED
    BY <1>1, <2>6, <2>7, <2>8, <2>9 DEF Next
<1>2. Init => IInv
  BY Begins
<1>3. IInv /\ [Next]_vars => IInv'
  BY Steps
<1>4. IInv /\ [Next]_vars
        => [\A p \in Programs : call'[p] = "body" /\ call[p] # "body" => ~Aborted(p)]_vars
  BY <1>1
<1> QED
  BY <1>2, <1>3, <1>4, PTL DEF Spec, NoStartAfterEnd
=============================================================================
