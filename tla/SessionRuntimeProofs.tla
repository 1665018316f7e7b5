------------------------ MODULE SessionRuntimeProofs ------------------------
(***************************************************************************)
(* Theorems about SessionRuntime for every set of runtimes and processes,  *)
(* every snapshot interval and page size.                                  *)
(***************************************************************************)
EXTENDS SessionRuntime, SequenceTheorems, TLAPS

-----------------------------------------------------------------------------
(* The objects: what the helpers return                                    *)

\* An object that was discarded is an object.
LEMMA GoneType == ASSUME NEW s \in Seq(Answer) PROVE Gone(s) \in Runtime
  BY DEF Gone, Runtime

\* Folding the pending event keeps the type.
LEMMA FoldedType == ASSUME NEW o \in Runtime PROVE Folded(o) \in Runtime
  <1>1. o.state \o o.pending \in Seq(Entry) /\ o.published \o o.pending \in Seq(Entry)
    BY DEF Runtime
  <1>2. <<>> \in Seq(Entry) OBVIOUS
  <1>3. QED BY <1>1, <1>2 DEF Folded, Runtime

\* Answering the call at the head of a non-empty chain keeps the type.
LEMMA AnsweredType ==
  ASSUME NEW o \in Runtime, o.queue # <<>>, NEW out \in {"ok", "reported", "failed"}
  PROVE  Answered(o, out) \in Runtime
  <1>1. Tail(o.queue) \in Seq(Calls) /\ Head(o.queue) \in Calls
    BY DEF Runtime
  <1>2. Append(o.settled, [call |-> Head(o.queue), out |-> out]) \in Seq(Answer)
    BY <1>1 DEF Runtime, Answer
  <1>3. "idle" \in {"idle", "appended", "snapped", "snapFailed"}
        /\ FALSE \in BOOLEAN
    OBVIOUS
  <1>4. QED BY <1>1, <1>2, <1>3 DEF Answered, Runtime

\* The event of a call is an entry of the log.
LEMMA EventOfType ==
  ASSUME TypeOK, NEW r \in Runtimes, NEW t \in {"created", "fact", "notice"}
  PROVE  EventOf(r, t) \in Entry
  <1>1. rt[r].settled \in Seq(Answer) BY DEF TypeOK, Runtime
  <1>2. Len(rt[r].settled) + 1 \in Nat BY <1>1
  <1>3. QED BY <1>2 DEF EventOf, Entry

\* A page of the log after what was already folded is a sequence of entries.
LEMMA ReplayedType ==
  ASSUME TypeOK, ConstantsAssumption, NEW r \in Runtimes
  PROVE  /\ PageEnd(r) \in Nat
         /\ PageEnd(r) <= Len(log)
         /\ Len(rt[r].state) <= Len(log) =>
              /\ Len(rt[r].state) <= PageEnd(r)
              /\ Replayed(r) \in Seq(Entry)
              /\ Len(Replayed(r)) = PageEnd(r)
  <1>1. rt[r].state \in Seq(Entry) /\ log \in Seq(Entry)
    BY DEF TypeOK, Runtime
  <1>2. /\ PageEnd(r) \in Nat /\ PageEnd(r) <= Len(log)
        /\ Len(rt[r].state) <= Len(log) => Len(rt[r].state) <= PageEnd(r)
    BY <1>1 DEF PageEnd, PageLimit, ConstantsAssumption
  <1>3. ASSUME Len(rt[r].state) <= Len(log), NEW i \in 1..PageEnd(r)
        PROVE  (IF i <= Len(rt[r].state) THEN rt[r].state[i] ELSE log[i]) \in Entry
    BY <1>1, <1>2, <1>3
  <1>4. ASSUME Len(rt[r].state) <= Len(log)
        PROVE  Replayed(r) \in Seq(Entry) /\ Len(Replayed(r)) = PageEnd(r)
    <2>1. Replayed(r) \in [1..PageEnd(r) -> Entry] BY <1>3, <1>4 DEF Replayed
    <2>2. Replayed(r) \in Seq(Entry) BY <1>2, <2>1, SeqDef
    <2>3. DOMAIN Replayed(r) = 1..PageEnd(r) BY <2>1
    <2>4. QED BY <1>2, <2>2, <2>3, LenProperties
  <1>5. QED BY <1>2, <1>4

-----------------------------------------------------------------------------
(* The inductive invariant                                                 *)

\* What an object has folded is a prefix of the log, and an event whose append
\* is being awaited is the next entry after it: this is what makes folding it,
\* without looking at the log again, correct whoever else has appended since.
\* Nothing is awaited before open() has returned, nor folded before the snapshot
\* has been read.
Sound(o, l) ==
  /\ IsPrefixOf(o.state, l)
  /\ o.at # "idle" => o.phase \in {"open", "closing"}
  /\ o.phase \in {"none", "acquiring", "loading"} => o.state = <<>>
  /\ o.at # "appended" => o.pending = <<>>
  /\ o.at = "appended" => /\ Len(o.pending) = 1
                          /\ Len(o.state) < Len(l)
                          /\ l[Len(o.state) + 1] = o.pending[1]

IInv == /\ TypeOK
        /\ \A r \in Runtimes : Sound(rt[r], log)
        /\ IsPrefixOf(snapshot, log)

\* A discarded object is sound whatever the log.
LEMMA GoneSound == ASSUME NEW s, NEW l \in Seq(Entry) PROVE Sound(Gone(s), l)
  <1>1. Len(<<>>) = 0 /\ Len(l) \in Nat BY EmptySeq, LenProperties
  <1>2. QED BY <1>1 DEF Sound, Gone, IsPrefixOf

\* A prefix followed by the next entry is a prefix.
LEMMA PrefixExtends ==
  ASSUME NEW S, NEW s \in Seq(S), NEW p \in Seq(S), NEW l \in Seq(S),
         IsPrefixOf(s, l), Len(p) = 1, Len(s) < Len(l), l[Len(s) + 1] = p[1]
  PROVE  IsPrefixOf(s \o p, l) /\ Len(s \o p) = Len(s) + 1
  <1> DEFINE c == s \o p
             n == Len(s)
  <1>0. /\ Len(c) = n + Len(p)
        /\ \A i \in 1..n + Len(p) : c[i] = IF i <= n THEN s[i] ELSE p[i - n]
    BY ConcatProperties, Zenon
  <1>1. /\ Len(c) = n + 1
        /\ \A i \in 1..n + 1 : c[i] = IF i <= n THEN s[i] ELSE p[i - n]
    BY <1>0, Zenon
  <1>2. n \in Nat /\ Len(l) \in Nat /\ n < Len(l) /\ l[n + 1] = p[1]
        /\ \A i \in 1..n : s[i] = l[i]
    BY LenProperties DEF IsPrefixOf
  <1>3. Len(s \o p) = Len(s) + 1 BY <1>1
  <1> HIDE DEF c, n
  <1>4. ASSUME NEW i \in 1..n + 1 PROVE c[i] = l[i]
    <2>1. CASE i <= n BY <1>1, <1>2, <2>1
    <2>2. CASE i = n + 1
      <3>1. i - n = 1 /\ ~(i <= n) BY <1>2, <2>2
      <3>2. c[i] = p[1] BY <1>1, <3>1
      <3>3. QED BY <1>2, <2>2, <3>2
    <2>3. QED BY <1>2, <2>1, <2>2
  <1>5. IsPrefixOf(c, l) BY <1>1, <1>2, <1>4 DEF IsPrefixOf
  <1>6. QED BY <1>3, <1>5 DEF c

\* Folding the awaited event leaves a prefix, and answering or suspending
\* elsewhere then needs nothing more.
LEMMA FoldedSound ==
  ASSUME NEW l \in Seq(Entry), NEW o \in Runtime, Sound(o, l), o.at = "appended"
  PROVE  IsPrefixOf(Folded(o).state, l) /\ Folded(o).pending = <<>>
  <1>1. o.state \in Seq(Entry) /\ o.pending \in Seq(Entry) BY DEF Runtime
  <1>2. Folded(o).state = o.state \o o.pending /\ Folded(o).pending = <<>> BY DEF Folded, Runtime
  <1>3. IsPrefixOf(o.state \o o.pending, l) BY <1>1, PrefixExtends DEF Sound
  <1>4. QED BY <1>2, <1>3

\* Answering a call leaves what was folded a prefix, and nothing awaited.
LEMMA AnsweredSound ==
  ASSUME NEW l \in Seq(Entry), NEW o \in Runtime, IsPrefixOf(o.state, l),
         o.pending = <<>>, o.phase \in {"open", "closing"}, NEW out
  PROVE  Sound(Answered(o, out), l)
  BY DEF Sound, Answered, Runtime

\* A step that replaces one object by a sound one, whatever else it does to the
\* lease, the processes or the readability of the snapshot.
LEMMA ReplaceOne ==
  ASSUME IInv, NEW r \in Runtimes, NEW o \in Runtime, Sound(o, log),
         rt' = [rt EXCEPT ![r] = o], UNCHANGED <<log, snapshot>>,
         lease' \in Procs \cup {None}, readable' \in BOOLEAN,
         alive' \subseteq Procs, pids' \subseteq Procs,
         storeOpen' \subseteq Procs, handles' \subseteq Procs
  PROVE  IInv'
  <1>1. TypeOK' BY DEF IInv, TypeOK
  <1>2. ASSUME NEW q \in Runtimes PROVE Sound(rt'[q], log)
    BY DEF IInv, TypeOK
  <1>3. QED BY <1>1, <1>2 DEF IInv

\* A longer log keeps every prefix.
LEMMA GrownLog ==
  ASSUME NEW l \in Seq(Entry), NEW e \in Entry
  PROVE  /\ Append(l, e) \in Seq(Entry)
         /\ Len(Append(l, e)) = Len(l) + 1
         /\ Append(l, e)[Len(l) + 1] = e
         /\ \A s \in Seq(Entry) : IsPrefixOf(s, l) => IsPrefixOf(s, Append(l, e))
         /\ \A o \in Runtime : Sound(o, l) => Sound(o, Append(l, e))
  <1>1. /\ Append(l, e) \in Seq(Entry) /\ Len(Append(l, e)) = Len(l) + 1
        /\ Len(l) \in Nat /\ Append(l, e)[Len(l) + 1] = e
        /\ \A i \in 1..Len(l) : Append(l, e)[i] = l[i]
    OBVIOUS
  <1>2. ASSUME NEW s \in Seq(Entry), IsPrefixOf(s, l) PROVE IsPrefixOf(s, Append(l, e))
    <2>1. Len(s) \in Nat BY LenProperties
    <2>2. QED BY <1>1, <1>2, <2>1 DEF IsPrefixOf
  <1>3. ASSUME NEW o \in Runtime, Sound(o, l) PROVE Sound(o, Append(l, e))
    <2>1. o.state \in Seq(Entry) /\ Len(o.state) \in Nat BY LenProperties DEF Runtime
    <2>2. QED BY <1>1, <1>2, <1>3, <2>1 DEF Sound
  <1>4. QED BY <1>1, <1>2, <1>3

-----------------------------------------------------------------------------
(* Initially, and across every action                                      *)

\* Before anything is opened every object is discarded and the log is empty.
LEMMA InitIInv == ASSUME ConstantsAssumption PROVE Init => IInv
  <1> SUFFICES ASSUME Init PROVE IInv OBVIOUS
  <1>0. <<>> \in Seq(Entry) /\ <<>> \in Seq(Answer) OBVIOUS
  <1>1. Gone(<<>>) \in Runtime BY <1>0, GoneType
  <1>2. TypeOK BY <1>0, <1>1 DEF Init, TypeOK
  <1>3. \A r \in Runtimes : Sound(rt[r], log)
    <2>1. \A r \in Runtimes : rt[r] = Gone(<<>>) BY DEF Init
    <2>2. QED BY <1>0, <2>1, GoneSound DEF Init
  <1>4. IsPrefixOf(snapshot, log) BY DEF Init, IsPrefixOf
  <1>5. QED BY <1>2, <1>3, <1>4 DEF IInv

\* Both appends: the event goes to the end of the log and is awaited.
LEMMA InsertIInv ==
  ASSUME IInv, ConstantsAssumption, NEW r \in Runtimes,
         NEW t \in {"created", "fact", "notice"}, NEW a, Serving(r, a), Insert(r, t)
  PROVE  IInv'
  <1> DEFINE e == EventOf(r, t)
             o == [rt[r] EXCEPT !.pending = <<e>>, !.at = "appended"]
  <1>1. e \in Entry BY EventOfType DEF IInv
  <1>2. rt' = [rt EXCEPT ![r] = o] /\ log' = Append(log, e) BY DEF Insert, IInv, TypeOK, Runtime
  <1>3. log \in Seq(Entry) /\ rt[r] \in Runtime BY DEF IInv, TypeOK
  <1>4. o \in Runtime
    <2>1. <<e>> \in Seq(Entry) BY <1>1
    <2>2. QED BY <1>3, <2>1 DEF Runtime
  <1>5. TypeOK'
    <2>1. log' \in Seq(Entry) BY <1>1, <1>2, <1>3, GrownLog
    <2>2. QED BY <1>2, <1>4, <2>1 DEF IInv, TypeOK, Insert, hosts
  <1>6. Sound(o, log')
    <2>1. o.state = rt[r].state /\ o.pending = <<e>> /\ o.at = "appended"
      BY <1>3 DEF Runtime
    <2>2. IsPrefixOf(rt[r].state, log') /\ Len(log') = Len(log) + 1
          /\ log'[Len(log) + 1] = e
      BY <1>1, <1>2, <1>3, GrownLog DEF IInv, Sound, Runtime
    <2>3. Len(rt[r].state) \in Nat /\ Len(log) \in Nat
      BY <1>3, LenProperties DEF Runtime
    <2>4. Len(rt[r].state) = Len(log) BY <2>3 DEF Insert, Accepts
    <2>5. o.phase \in {"open", "closing"} BY <1>3 DEF Runtime, Serving, In
    <2>6. QED BY <2>1, <2>2, <2>3, <2>4, <2>5 DEF Sound
  <1>7. ASSUME NEW q \in Runtimes PROVE Sound(rt'[q], log')
    <2>1. CASE q = r BY <1>2, <1>6, <2>1 DEF IInv, TypeOK
    <2>2. CASE q # r
      <3>1. rt'[q] = rt[q] /\ rt[q] \in Runtime /\ Sound(rt[q], log)
        BY <1>2, <2>2 DEF IInv, TypeOK
      <3>2. QED BY <1>1, <1>2, <1>3, <3>1, GrownLog
    <2>3. QED BY <2>1, <2>2
  <1>8. IsPrefixOf(snapshot', log')
    BY <1>1, <1>2, <1>3, GrownLog DEF IInv, TypeOK, Insert
  <1>9. QED BY <1>5, <1>7, <1>8 DEF IInv

\* A step that only moves the object of one runtime, keeping what it has folded
\* or taking the snapshot or a page of the log.
LEMMA OpenIInv ==
  ASSUME IInv, ConstantsAssumption, NEW r \in Runtimes,
         SelectLease(r) \/ OpenStep(r) \/ Close(r) \/ CloseHandle(r)
  PROVE  IInv'
  <1> DEFINE R == rt[r]
  <1>0. /\ R \in Runtime /\ Sound(R, log) /\ log \in Seq(Entry)
        /\ snapshot \in Seq(Entry) /\ TypeOK /\ ProcOf[r] \in Procs
        /\ IsPrefixOf(snapshot, log)
    BY DEF IInv, TypeOK, ConstantsAssumption
  <1>1. Gone(R.settled) \in Runtime /\ Sound(Gone(R.settled), log)
    BY <1>0, GoneType, GoneSound DEF Runtime
  <1>2. ASSUME NEW p \in {"acquiring", "loading", "closing"},
               (R.at = "idle" /\ R.state = <<>>) \/ p = "closing"
        PROVE  /\ [R EXCEPT !.phase = p] \in Runtime
               /\ Sound([R EXCEPT !.phase = p], log)
    BY <1>0, <1>2 DEF Runtime, Sound
  <1>3. CASE SelectLease(r)
    <2>1. rt' = [rt EXCEPT ![r] = [R EXCEPT !.phase = "acquiring"]]
      BY <1>3 DEF SelectLease
    <2>2. R.at = "idle" /\ R.state = <<>> BY <1>0, <1>3 DEF SelectLease, In, Sound
    <2>3. QED BY <1>0, <1>2, <1>3, <2>1, <2>2, ReplaceOne DEF SelectLease, file, hosts, TypeOK
  <1>4. CASE PutLease(r)
    <2>1. rt' = [rt EXCEPT ![r] = [R EXCEPT !.phase = "loading"]]
      BY <1>4 DEF PutLease
    <2>2. R.at = "idle" /\ R.state = <<>> BY <1>0, <1>4 DEF PutLease, Sound
    <2>3. QED BY <1>0, <1>2, <1>4, <2>1, <2>2, ReplaceOne DEF PutLease, TypeOK
  <1>5. CASE LoadSnapshot(r)
    <2> DEFINE o == [R EXCEPT !.phase = "replaying", !.state = snapshot,
                              !.snapSeq = Len(snapshot)]
    <2>1. rt' = [rt EXCEPT ![r] = o] BY <1>5 DEF LoadSnapshot
    <2>2. o \in Runtime BY <1>0, LenProperties DEF Runtime
    <2>3. R.at = "idle" BY <1>0, <1>5 DEF LoadSnapshot, In, Sound
    <2>4. Sound(o, log) BY <1>0, <2>3 DEF Runtime, Sound, IInv
    <2>5. QED BY <1>0, <1>5, <2>1, <2>2, <2>4, ReplaceOne DEF LoadSnapshot, file, hosts, TypeOK
  <1>6. CASE ReplayPage(r)
    <2> DEFINE p == IF LastPage(r) THEN "open" ELSE "replaying"
               o == [R EXCEPT !.state = Replayed(r), !.phase = p]
    <2>1. rt' = [rt EXCEPT ![r] = o] BY <1>6 DEF ReplayPage
    <2>2. /\ PageEnd(r) \in Nat /\ PageEnd(r) <= Len(log)
          /\ Len(R.state) <= PageEnd(r)
          /\ Replayed(r) \in Seq(Entry) /\ Len(Replayed(r)) = PageEnd(r)
      BY <1>0, ReplayedType DEF Sound, IsPrefixOf
    <2>3. o \in Runtime BY <1>0, <2>2 DEF Runtime
    <2>4. \A i \in 1..PageEnd(r) : Replayed(r)[i] = log[i]
      <3>1. Len(R.state) \in Nat BY <1>0, LenProperties DEF Runtime
      <3>2. QED BY <1>0, <2>2, <3>1 DEF Replayed, Sound, IsPrefixOf
    <2>5. IsPrefixOf(Replayed(r), log) BY <2>2, <2>4 DEF IsPrefixOf
    <2>6. R.at = "idle" BY <1>0, <1>6 DEF ReplayPage, In, Sound
    <2>7. Sound(o, log) BY <1>0, <2>5, <2>6 DEF Runtime, Sound
    <2>8. QED BY <1>0, <1>6, <2>1, <2>3, <2>7, ReplaceOne DEF ReplayPage, file, hosts, TypeOK
  <1>7. CASE OpenFails(r)
    BY <1>0, <1>1, <1>7, ReplaceOne DEF OpenFails, file, hosts, TypeOK
  <1>8. CASE Close(r)
    <2>1. rt' = [rt EXCEPT ![r] = [R EXCEPT !.phase = "closing"]]
      BY <1>8 DEF Close
    <2>2. QED BY <1>0, <1>2, <1>8, <2>1, ReplaceOne DEF Close, file, hosts, TypeOK
  <1>9. CASE CloseHandle(r)
    BY <1>0, <1>1, <1>9, ReplaceOne DEF CloseHandle, TypeOK
  <1>10. QED BY <1>3, <1>4, <1>5, <1>6, <1>7, <1>8, <1>9 DEF OpenStep

\* The steps of record() that leave the log alone.
LEMMA ServeIInv ==
  ASSUME IInv, ConstantsAssumption, NEW r \in Runtimes,
         Serve(r) \/ \E c \in Calls : Record(r, c)
  PROVE  IInv'
  <1> DEFINE R == rt[r]
             F == Folded(R)
             outs == {"ok", "reported", "failed"}
  <1>0. /\ R \in Runtime /\ Sound(R, log) /\ log \in Seq(Entry) /\ TypeOK
        /\ IsPrefixOf(R.state, log)
    BY DEF IInv, TypeOK, Sound
  <1>1. ASSUME NEW out \in outs, R.queue # <<>>, R.at # "appended",
               R.phase \in {"open", "closing"}
        PROVE  Answered(R, out) \in Runtime /\ Sound(Answered(R, out), log)
    BY <1>0, <1>1, AnsweredType, AnsweredSound DEF Sound
  <1>2. ASSUME R.at = "appended"
        PROVE  /\ F \in Runtime /\ IsPrefixOf(F.state, log) /\ F.pending = <<>>
               /\ F.queue = R.queue /\ F.phase = R.phase
    BY <1>0, <1>2, FoldedType, FoldedSound DEF Folded, Runtime
  <1>3. ASSUME NEW c \in Calls, Record(r, c) PROVE IInv'
    <2> DEFINE o == [R EXCEPT !.queue = Append(R.queue, c)]
    <2>1. rt' = [rt EXCEPT ![r] = o] BY <1>3 DEF Record
    <2>2. o \in Runtime
      <3>1. Append(R.queue, c) \in Seq(Calls) BY <1>0 DEF Runtime
      <3>2. QED BY <1>0, <3>1 DEF Runtime
    <2>3. Sound(o, log) BY <1>0 DEF Runtime, Sound
    <2>4. QED BY <1>3, <1>0, <2>1, <2>2, <2>3, ReplaceOne DEF Record, file, hosts, TypeOK
  <1>4. CASE RecordTransient(r)
    <2>1. PICK out \in {"ok", "reported"} : rt' = [rt EXCEPT ![r] = Answered(R, out)]
      BY <1>4 DEF RecordTransient
    <2>2. R.queue # <<>> /\ R.at = "idle" /\ R.phase \in {"open", "closing"}
      BY <1>4 DEF RecordTransient, Serving, In
    <2>3. QED BY <1>0, <1>1, <1>4, <2>1, <2>2, ReplaceOne
              DEF RecordTransient, file, hosts, TypeOK
  <1>5. CASE AppendEvent(r)
    <2>1. Head(R.queue) \in {"created", "fact", "notice"}
      <3>1. Head(R.queue) \in Calls
        BY <1>0, <1>5 DEF AppendEvent, Serving, Runtime
      <3>2. QED BY <1>5, <3>1 DEF AppendEvent, Calls
    <2>2. QED BY <1>5, <2>1, InsertIInv DEF AppendEvent
  <1>6. CASE PostNotice(r) BY <1>6, InsertIInv DEF PostNotice
  <1>7. CASE AppendFails(r) \/ NoticeFails(r)
    <2>1. rt' = [rt EXCEPT ![r] = Answered(R, "failed")] /\ R.queue # <<>>
          /\ R.at # "appended" /\ R.phase \in {"open", "closing"}
          /\ UNCHANGED <<file, hosts>>
      BY <1>7 DEF AppendFails, NoticeFails, Serving, In
    <2>2. QED BY <1>0, <1>1, <2>1, ReplaceOne DEF file, hosts, TypeOK
  <1>8. CASE Complete(r)
    <2>1. R.at = "appended" /\ R.queue # <<>> /\ R.phase \in {"open", "closing"}
      BY <1>8 DEF Complete, Serving, In
    <2>2. PICK out \in {"ok", "reported"} : rt' = [rt EXCEPT ![r] = Answered(F, out)]
      BY <1>8 DEF Complete
    <2>3. Answered(F, out) \in Runtime /\ Sound(Answered(F, out), log)
      BY <1>0, <1>2, <2>1, AnsweredType, AnsweredSound
    <2>4. QED BY <1>0, <1>8, <2>2, <2>3, ReplaceOne DEF Complete, file, hosts, TypeOK
  <1>9. ASSUME NEW a \in {"snapped", "snapFailed"}, R.at = "appended"
        PROVE  /\ [F EXCEPT !.snapshotting = TRUE, !.at = a] \in Runtime
               /\ Sound([F EXCEPT !.snapshotting = TRUE, !.at = a], log)
    <2>1. F \in Runtime /\ IsPrefixOf(F.state, log) /\ F.pending = <<>>
          /\ F.phase \in {"open", "closing"}
      BY <1>0, <1>2, <1>9 DEF Sound
    <2> HIDE DEF F
    <2>2. QED BY <2>1 DEF Runtime, Sound
  <1>10. CASE WriteSnapshot(r)
    <2> DEFINE o == [F EXCEPT !.snapshotting = TRUE, !.at = "snapped"]
    <2>1. R.at = "appended" BY <1>10 DEF WriteSnapshot, Serving
    <2>2. /\ rt' = [rt EXCEPT ![r] = o] /\ snapshot' = F.state
          /\ readable' = TRUE /\ UNCHANGED <<log, lease, hosts>>
      BY <1>10 DEF WriteSnapshot
    <2>3. o \in Runtime /\ Sound(o, log) BY <1>9, <2>1
    <2>4. F.state \in Seq(Entry) /\ IsPrefixOf(F.state, log)
      BY <1>2, <2>1 DEF Runtime
    <2> HIDE DEF F, o
    <2>5. TypeOK' BY <1>0, <2>2, <2>3, <2>4 DEF TypeOK, hosts
    <2>6. \A q \in Runtimes : Sound(rt'[q], log) BY <1>0, <2>2, <2>3 DEF IInv, TypeOK
    <2>7. QED BY <2>2, <2>4, <2>5, <2>6 DEF IInv
  <1>11. CASE SnapshotFails(r)
    <2>1. R.at = "appended" BY <1>11 DEF SnapshotFails, Serving
    <2>2. QED BY <1>0, <1>9, <1>11, <2>1, ReplaceOne DEF SnapshotFails, file, hosts, TypeOK
  <1>12. CASE SnapshotWritten(r)
    <2>1. R.at = "snapped" /\ R.queue # <<>> /\ R.phase \in {"open", "closing"}
      BY <1>12 DEF SnapshotWritten, Serving, In
    <2>2. PICK out \in {"ok", "reported"} :
            rt' = [rt EXCEPT ![r] = [Answered(R, out) EXCEPT !.snapSeq = Len(R.state)]]
      BY <1>12 DEF SnapshotWritten
    <2> DEFINE A == Answered(R, out)
    <2>3. A \in Runtime /\ Sound(A, log) /\ Len(R.state) \in Nat
      BY <1>0, <1>1, <2>1, LenProperties DEF Runtime
    <2> HIDE DEF A
    <2>4. [A EXCEPT !.snapSeq = Len(R.state)] \in Runtime
          /\ Sound([A EXCEPT !.snapSeq = Len(R.state)], log)
      BY <2>3 DEF Runtime, Sound
    <2>5. QED BY <1>0, <1>12, <2>2, <2>4, ReplaceOne
              DEF A, SnapshotWritten, file, hosts, TypeOK
  <1>13. QED BY <1>3, <1>4, <1>5, <1>6, <1>7, <1>8, <1>10, <1>11, <1>12 DEF Serve

\* What happens to a process, its store, its pid, or the snapshot row.
LEMMA HostIInv ==
  ASSUME IInv, ConstantsAssumption,
         \/ \E p \in Procs : CloseStore(p) \/ Crash(p) \/ FreePid(p) \/ ReusePid(p)
         \/ DamageSnapshot
  PROVE  IInv'
  <1>0. TypeOK /\ log \in Seq(Entry) BY DEF IInv, TypeOK
  <1>1. ASSUME NEW p \in Procs, Crash(p) PROVE IInv'
    <2>1. ASSUME NEW r \in Runtimes
          PROVE  Gone(rt[r].settled) \in Runtime /\ Sound(Gone(rt[r].settled), log)
      BY <1>0, GoneType, GoneSound DEF TypeOK, Runtime
    <2>2. /\ rt' \in [Runtimes -> Runtime]
          /\ \A r \in Runtimes : Sound(rt'[r], log)
      BY <1>0, <1>1, <2>1 DEF Crash, IInv, TypeOK
    <2>3. QED BY <1>0, <1>1, <2>2 DEF Crash, IInv, TypeOK, file
  <1>2. ASSUME NEW p \in Procs, CloseStore(p) \/ FreePid(p) \/ ReusePid(p) PROVE IInv'
    BY <1>0, <1>2 DEF CloseStore, FreePid, ReusePid, IInv, TypeOK, file
  <1>3. CASE DamageSnapshot
    BY <1>0, <1>3 DEF DamageSnapshot, IInv, TypeOK, hosts
  <1>4. QED BY <1>1, <1>2, <1>3

\* Every step of the runtimes, the processes and the disk keeps the invariant.
LEMMA StepIInv == ASSUME ConstantsAssumption PROVE IInv /\ [Next]_vars => IInv'
  <1> SUFFICES ASSUME IInv, [Next]_vars PROVE IInv' OBVIOUS
  <1>1. ASSUME NEW r \in Runtimes,
               \/ SelectLease(r) \/ OpenStep(r) \/ Serve(r)
               \/ \E c \in Calls : Record(r, c)
               \/ Close(r) \/ CloseHandle(r)
        PROVE  IInv'
    BY <1>1, OpenIInv, ServeIInv
  <1>2. CASE \/ \E p \in Procs : CloseStore(p) \/ Crash(p) \/ FreePid(p) \/ ReusePid(p)
             \/ DamageSnapshot
    BY <1>2, HostIInv
  <1>3. CASE UNCHANGED vars
    BY <1>3 DEF vars, file, hosts, IInv, TypeOK
  <1>4. QED BY <1>1, <1>2, <1>3 DEF Next

-----------------------------------------------------------------------------
(* The theorems                                                            *)

\* The invariant holds in every reachable state.
LEMMA Inductive == Spec => []IInv
  <1>1. Init => IInv BY InitIInv, ConstantsAssumption
  <1>2. IInv /\ [Next]_vars => IInv' BY StepIInv, ConstantsAssumption
  <1>3. QED BY <1>1, <1>2, PTL DEF Spec

\* Every variable keeps its type.
THEOREM TypeCorrect == Spec => []TypeOK
  <1>1. IInv => TypeOK BY DEF IInv
  <1>2. QED BY <1>1, Inductive, PTL

\* Whatever crashes, and however many writers got past the lease, the state of
\* every runtime and the stored snapshot replay a prefix of the one history.
THEOREM StateCorrect == Spec => []StateIsReplay
  <1>1. IInv => StateIsReplay BY DEF IInv, Sound, StateIsReplay
  <1>2. QED BY <1>1, Inductive, PTL

-----------------------------------------------------------------------------
(* The runtimes and the store implement the append-only history            *)

\* Two prefixes of one log are comparable by their lengths.
LEMMA PrefixesCompare ==
  ASSUME NEW s \in Seq(Entry), NEW t \in Seq(Entry), NEW l \in Seq(Entry),
         IsPrefixOf(s, l), IsPrefixOf(t, l), Len(s) <= Len(t)
  PROVE  IsPrefixOf(s, t)
  <1>1. Len(s) \in Nat /\ Len(t) \in Nat /\ Len(l) \in Nat BY LenProperties
  <1>2. QED BY <1>1 DEF IsPrefixOf

\* A step that keeps the log and shortens the state of no object but one is a
\* step of a reader that catches up.
LEMMA ReaderAdvances ==
  ASSUME IInv, IInv', NEW r \in Runtimes, NEW o, rt' = [rt EXCEPT ![r] = o],
         log' = log, Len(rt[r].state) <= Len(o.state)
  PROVE  Contract!Next
  <1> DEFINE view == [q \in Runtimes |-> rt[q].state]
  <1>1. /\ log \in Seq(Entry) /\ rt[r] \in Runtime /\ rt'[r] = o /\ o \in Runtime
        /\ IsPrefixOf(rt[r].state, log) /\ IsPrefixOf(o.state, log)
    BY DEF IInv, TypeOK, Sound
  <1>2. IsPrefixOf(rt[r].state, o.state) BY <1>1, PrefixesCompare DEF Runtime
  <1>3. view'[r] = o.state /\ view[r] = rt[r].state BY <1>1
  <1>4. view' = [view EXCEPT ![r] = view'[r]] BY DEF IInv, TypeOK
  <1>5. Contract!Advance(r)
    BY <1>1, <1>2, <1>3, <1>4 DEF Contract!Advance, Contract!IsPrefixOf, IsPrefixOf
  <1>6. QED BY <1>5 DEF Contract!Next

\* A step that discards the objects of some runtimes is one of readers that
\* forget.
LEMMA ReadersForget ==
  ASSUME IInv, NEW S \in SUBSET Runtimes, log' = log,
         rt' = [r \in Runtimes |-> IF r \in S THEN Gone(rt[r].settled) ELSE rt[r]]
  PROVE  Contract!Next
  <1>1. Contract!Forget(S) BY DEF Contract!Forget, Gone
  <1>2. QED BY <1>1 DEF Contract!Next

\* An append extends the history and moves no reader.
LEMMA InsertExtends ==
  ASSUME IInv, NEW r \in Runtimes, NEW t \in {"created", "fact", "notice"},
         Insert(r, t)
  PROVE  Contract!Next
  <1>1. log \in Seq(Entry) /\ EventOf(r, t) \in Entry /\ log' = Append(log, EventOf(r, t))
    BY EventOfType DEF IInv, TypeOK, Insert
  <1>2. /\ Len(log') = Len(log) + 1 /\ log'[Len(log')] \in Entry
        /\ \A i \in 1..Len(log) : log'[i] = log[i]
    BY <1>1
  <1>3. Len(log) <= Len(log') BY <1>1, <1>2, LenProperties
  <1>4. \A q \in Runtimes : rt'[q].state = rt[q].state
    BY DEF Insert, IInv, TypeOK, Runtime
  <1>5. Contract!Extend
    BY <1>2, <1>3, <1>4 DEF Contract!Extend, Contract!IsPrefixOf
  <1>6. QED BY <1>5 DEF Contract!Next

\* Every step of a runtime is a step of the contract.
LEMMA RuntimeStepRefines ==
  ASSUME IInv, IInv', ConstantsAssumption, NEW r \in Runtimes,
         \/ SelectLease(r) \/ OpenStep(r) \/ Serve(r)
         \/ \E c \in Calls : Record(r, c)
         \/ Close(r) \/ CloseHandle(r)
  PROVE  Contract!Next
  <1> DEFINE R == rt[r]
             F == Folded(R)
  <1>0. /\ R \in Runtime /\ Sound(R, log) /\ TypeOK /\ rt' \in [Runtimes -> Runtime]
        /\ R.state \in Seq(Entry) /\ Len(R.state) \in Nat
    BY LenProperties DEF IInv, TypeOK, Runtime
  <1>1. ASSUME rt' = [rt EXCEPT ![r] = Gone(R.settled)], log' = log PROVE Contract!Next
    <2>1. rt' = [q \in Runtimes |-> IF q \in {r} THEN Gone(rt[q].settled) ELSE rt[q]]
      BY <1>0, <1>1 DEF TypeOK
    <2>2. QED BY <1>1, <2>1, ReadersForget
  <1>2. ASSUME NEW o, rt' = [rt EXCEPT ![r] = o], o.state = R.state, log' = log
        PROVE  Contract!Next
    <2>1. Len(R.state) <= Len(o.state) BY <1>0, <1>2
    <2>2. QED BY <1>2, <2>1, ReaderAdvances
  <1>3. ASSUME NEW o, rt' = [rt EXCEPT ![r] = o], o.state = F.state, log' = log,
               R.at = "appended"
        PROVE  Contract!Next
    <2>1. F.state = R.state \o R.pending /\ R.pending \in Seq(Entry)
      BY <1>0 DEF Folded, Runtime
    <2>2. Len(F.state) = Len(R.state) + Len(R.pending) /\ Len(R.pending) \in Nat
      BY <1>0, <2>1, ConcatProperties, LenProperties
    <2>3. Len(o.state) = Len(F.state) BY <1>3
    <2>4. \A m, n \in Nat : n <= n + m OBVIOUS
    <2>5. Len(R.state) <= Len(o.state) BY <1>0, <2>2, <2>3, <2>4, Zenon
    <2>6. QED BY <1>3, <2>5, ReaderAdvances
  <1>4. CASE SelectLease(r) \/ PutLease(r) \/ Close(r)
    <2>1. PICK p : rt' = [rt EXCEPT ![r].phase = p] /\ log' = log
      BY <1>4 DEF SelectLease, PutLease, Close, file
    <2>2. [R EXCEPT !.phase = p].state = R.state BY <1>0 DEF Runtime
    <2>3. rt' = [rt EXCEPT ![r] = [R EXCEPT !.phase = p]] BY <2>1
    <2>4. QED BY <1>2, <2>1, <2>2, <2>3
  <1>5. CASE LoadSnapshot(r)
    <2> DEFINE o == [R EXCEPT !.phase = "replaying", !.state = snapshot,
                              !.snapSeq = Len(snapshot)]
    <2>1. rt' = [rt EXCEPT ![r] = o] /\ log' = log BY <1>5 DEF LoadSnapshot, file
    <2>2. R.state = <<>> /\ o.state = snapshot
      BY <1>0, <1>5 DEF LoadSnapshot, In, Sound, Runtime
    <2>3. Len(R.state) <= Len(o.state)
      BY <1>0, <2>2, EmptySeq, LenProperties DEF TypeOK
    <2>4. QED BY <2>1, <2>3, ReaderAdvances
  <1>6. CASE ReplayPage(r)
    <2> DEFINE o == [R EXCEPT !.state = Replayed(r),
                              !.phase = IF LastPage(r) THEN "open" ELSE "replaying"]
    <2>1. rt' = [rt EXCEPT ![r] = o] /\ log' = log BY <1>6 DEF ReplayPage, file
    <2>2. Len(R.state) <= Len(Replayed(r))
      BY <1>0, ReplayedType DEF Sound, IsPrefixOf
    <2>3. o.state = Replayed(r) BY <1>0 DEF Runtime
    <2>4. QED BY <2>1, <2>2, <2>3, ReaderAdvances
  <1>7. CASE OpenFails(r) \/ CloseHandle(r)
    BY <1>1, <1>7 DEF OpenFails, CloseHandle, file
  <1>8. ASSUME NEW c \in Calls, Record(r, c) PROVE Contract!Next
    <2> DEFINE o == [R EXCEPT !.queue = Append(R.queue, c)]
    <2>1. rt' = [rt EXCEPT ![r] = o] /\ log' = log BY <1>8 DEF Record, file
    <2>2. o.state = R.state BY <1>0 DEF Runtime
    <2>3. QED BY <1>2, <2>1, <2>2
  <1>9. CASE RecordTransient(r) \/ AppendFails(r) \/ NoticeFails(r)
    <2>1. PICK out : rt' = [rt EXCEPT ![r] = Answered(R, out)] /\ log' = log
      BY <1>9 DEF RecordTransient, AppendFails, NoticeFails, file
    <2>2. Answered(R, out).state = R.state BY <1>0 DEF Answered, Runtime
    <2>3. QED BY <1>2, <2>1, <2>2
  <1>10. CASE AppendEvent(r) \/ PostNotice(r)
    <2>1. PICK t \in {"created", "fact", "notice"} : Insert(r, t)
      <3>1. CASE PostNotice(r) BY <3>1 DEF PostNotice
      <3>2. CASE AppendEvent(r)
        <4>1. Head(R.queue) \in Calls
          BY <1>0, <3>2 DEF AppendEvent, Serving, Runtime
        <4>2. QED BY <3>2, <4>1 DEF AppendEvent, Calls
      <3>3. QED BY <1>10, <3>1, <3>2
    <2>2. QED BY <2>1, InsertExtends
  <1>11. CASE Complete(r)
    <2>1. R.at = "appended" /\ log' = log BY <1>11 DEF Complete, Serving, file
    <2>2. PICK out : rt' = [rt EXCEPT ![r] = Answered(F, out)] BY <1>11 DEF Complete
    <2>3. Answered(F, out).state = F.state
      BY <1>0, FoldedType DEF Answered, Runtime
    <2>4. QED BY <1>3, <2>1, <2>2, <2>3
  <1>12. CASE WriteSnapshot(r) \/ SnapshotFails(r)
    <2>1. PICK a : /\ rt' = [rt EXCEPT ![r] = [F EXCEPT !.snapshotting = TRUE, !.at = a]]
                   /\ log' = log /\ R.at = "appended"
      BY <1>12 DEF WriteSnapshot, SnapshotFails, Serving, file
    <2>2. [F EXCEPT !.snapshotting = TRUE, !.at = a].state = F.state
      <3>1. F \in Runtime BY <1>0, FoldedType
      <3> HIDE DEF F
      <3>2. QED BY <3>1 DEF Runtime
    <2>3. QED BY <1>3, <2>1, <2>2
  <1>13. CASE SnapshotWritten(r)
    <2>1. PICK out : rt' = [rt EXCEPT ![r] =
                         [Answered(R, out) EXCEPT !.snapSeq = Len(R.state)]]
      BY <1>13 DEF SnapshotWritten
    <2>2. [Answered(R, out) EXCEPT !.snapSeq = Len(R.state)].state = R.state
      BY <1>0 DEF Answered, Runtime
    <2>3. log' = log BY <1>13 DEF SnapshotWritten, file
    <2>4. QED BY <1>2, <2>1, <2>2, <2>3
  <1>14. QED BY <1>4, <1>5, <1>6, <1>7, <1>8, <1>9, <1>10, <1>11, <1>12, <1>13
             DEF OpenStep, Serve

\* The runtimes and the SQLite store, with crashes, several processes and failing
\* writes, implement the append-only history of EventLog.
THEOREM Refinement == Spec => ImplementsEventLog
  <1>1. Init => Contract!Init
    BY DEF Init, Gone, Contract!Init
  <1>2. IInv /\ IInv' /\ [Next]_vars => [Contract!Next]_Contract!vars
    <2> SUFFICES ASSUME IInv, IInv', [Next]_vars
                 PROVE  [Contract!Next]_Contract!vars
      OBVIOUS
    <2>1. ASSUME NEW p \in Procs, Crash(p) PROVE Contract!Next
      <3> DEFINE S == {r \in Runtimes : ProcOf[r] = p}
      <3>1. rt' = [r \in Runtimes |-> IF r \in S THEN Gone(rt[r].settled) ELSE rt[r]]
        BY <2>1 DEF Crash
      <3>2. QED BY <2>1, <3>1, ReadersForget DEF Crash, file
    <2>2. ASSUME rt' = rt, log' = log PROVE UNCHANGED Contract!vars
      BY <2>2 DEF Contract!vars
    <2>3. CASE \/ \E p \in Procs : CloseStore(p) \/ FreePid(p) \/ ReusePid(p)
               \/ DamageSnapshot \/ UNCHANGED vars
      BY <2>2, <2>3 DEF CloseStore, FreePid, ReusePid, DamageSnapshot, vars, file
    <2>4. QED BY <2>1, <2>3, RuntimeStepRefines, ConstantsAssumption DEF Next
  <1>3. QED BY <1>1, <1>2, Inductive, PTL DEF Spec, ImplementsEventLog, Contract!Spec

-----------------------------------------------------------------------------
(* What callers and subscribers were told                                  *)

Live == {"open", "closing"}

Written(r, i, l) ==
  \E k \in 1..Len(l) : l[k].by = r /\ l[k].call = i /\ l[k].type # "notice"

\* The answers given so far, and the one that is still owed while an event of
\* the call is awaited, its snapshot is written or the notice of a failed one.
Told(o, r, l) ==
  /\ \A i \in 1..Len(o.settled) :
       o.settled[i].call # "transient" /\ o.settled[i].out # "failed" => Written(r, i, l)
  /\ o.at # "idle" => Written(r, Len(o.settled) + 1, l)

\* What was published is the end of what was folded.
Suffix(o) ==
  /\ Len(o.published) <= Len(o.state)
  /\ \A i \in 1..Len(o.published) :
       o.published[i] = o.state[Len(o.state) - Len(o.published) + i]

\* From position n on the log has nothing of r.
NothingFrom(n, r, l) == \A k \in n..Len(l) : l[k].by # r

\* Before open() has returned nothing was published; from then on only the event
\* whose append is awaited is in the log and not in the state.
Fed(o, r, l) ==
  /\ Suffix(o)
  /\ o.phase \notin Live => o.published = <<>>
  /\ o.phase \in Live =>
       NothingFrom(Len(o.state) + (IF o.at = "appended" THEN 2 ELSE 1), r, l)

FeedInv == IInv /\ \A r \in Runtimes : Told(rt[r], r, log) /\ Fed(rt[r], r, log)

\* A discarded object keeps its answers and has published nothing.
LEMMA GoneTold ==
  ASSUME NEW o \in Runtime, NEW r, NEW l, Told(o, r, l)
  PROVE  Told(Gone(o.settled), r, l) /\ Fed(Gone(o.settled), r, l)
  <1>1. Len(<<>>) = 0 BY EmptySeq
  <1>2. QED BY <1>1 DEF Told, Fed, Suffix, Gone, Live

\* A longer log takes no answer back, and what another runtime appends makes no
\* feed incomplete.
LEMMA GrownTold ==
  ASSUME NEW l \in Seq(Entry), NEW e \in Entry, NEW r
  PROVE  /\ \A i : Written(r, i, l) => Written(r, i, Append(l, e))
         /\ \A o : Told(o, r, l) => Told(o, r, Append(l, e))
         /\ e.by # r => \A o \in Runtime : Fed(o, r, l) => Fed(o, r, Append(l, e))
  <1>1. /\ Len(Append(l, e)) = Len(l) + 1 /\ Append(l, e)[Len(l) + 1] = e
        /\ \A i \in 1..Len(l) : Append(l, e)[i] = l[i]
        /\ Len(l) \in Nat
    OBVIOUS
  <1>2. ASSUME NEW i, Written(r, i, l) PROVE Written(r, i, Append(l, e))
    <2>1. PICK k \in 1..Len(l) : l[k].by = r /\ l[k].call = i /\ l[k].type # "notice"
      BY <1>2 DEF Written
    <2>2. k \in 1..Len(l) + 1 /\ Append(l, e)[k] = l[k] BY <1>1, <2>1
    <2>3. QED BY <1>1, <2>1, <2>2 DEF Written
  <1>3. ASSUME NEW o, Told(o, r, l) PROVE Told(o, r, Append(l, e))
    BY <1>2, <1>3 DEF Told
  <1>4. ASSUME NEW n \in Nat \ {0}, NothingFrom(n, r, l), e.by # r
        PROVE  NothingFrom(n, r, Append(l, e))
    BY <1>1, <1>4 DEF NothingFrom
  <1>5. ASSUME NEW o \in Runtime, e.by # r, Fed(o, r, l) PROVE Fed(o, r, Append(l, e))
    <2>1. Len(o.state) \in Nat BY LenProperties DEF Runtime
    <2>2. /\ Len(o.state) + 1 \in Nat \ {0} /\ Len(o.state) + 2 \in Nat \ {0}
      BY <2>1
    <2>3. CASE o.at = "appended" BY <1>4, <1>5, <2>2, <2>3, Zenon DEF Fed
    <2>4. CASE o.at # "appended" BY <1>4, <1>5, <2>2, <2>4, Zenon DEF Fed
    <2>5. QED BY <2>3, <2>4
  <1>6. QED BY <1>2, <1>3, <1>5

\* Answering a call whose event was stored, one without an event, or one that
\* failed.
LEMMA AnsweredTold ==
  ASSUME NEW o \in Runtime, o.queue # <<>>, NEW out \in {"ok", "reported", "failed"},
         NEW r, NEW l, Told(o, r, l),
         o.at # "idle" \/ Head(o.queue) = "transient" \/ out = "failed"
  PROVE  Told(Answered(o, out), r, l)
  <1> DEFINE a == [call |-> Head(o.queue), out |-> out]
             s == Append(o.settled, a)
             n == Len(o.settled)
  <1>1. Answered(o, out).settled = s /\ Answered(o, out).at = "idle"
    BY DEF Answered, Runtime
  <1>2. o.settled \in Seq(Answer) /\ a \in Answer /\ n \in Nat
    <2>1. Head(o.queue) \in Calls BY DEF Runtime
    <2>2. QED BY <2>1, LenProperties DEF Runtime, Answer
  <1>3. Len(s) = n + 1 /\ s[n + 1] = a /\ \A i \in 1..n : s[i] = o.settled[i]
    BY <1>2
  <1>4. a.call = Head(o.queue) /\ a.out = out OBVIOUS
  <1> HIDE DEF s, a
  <1>5. ASSUME NEW i \in 1..n + 1, s[i].call # "transient", s[i].out # "failed"
        PROVE  Written(r, i, l)
    <2>1. CASE i = n + 1 BY <1>3, <1>4, <1>5, <2>1 DEF Told
    <2>2. CASE i \in 1..n BY <1>3, <1>5, <2>2 DEF Told
    <2>3. QED BY <1>2, <2>1, <2>2
  <1>6. QED BY <1>1, <1>3, <1>5 DEF Told

\* Whatever has the same state and feed, outside an append, is complete when
\* nothing of its own is left in the log.
LEMMA SameFeed ==
  ASSUME NEW o \in Runtime, NEW p \in Runtime, NEW r, NEW l, Suffix(o),
         p.state = o.state, p.published = o.published,
         p.phase \in Live, NothingFrom(Len(o.state) + 1, r, l)
  PROVE  Fed(p, r, l)
  <1>1. Len(o.state) \in Nat BY LenProperties DEF Runtime
  <1>2. NothingFrom(Len(o.state) + 2, r, l) BY <1>1 DEF NothingFrom
  <1>3. QED BY <1>2 DEF Fed, Suffix

\* Folding and publishing the awaited event leaves nothing of the runtime's own.
LEMMA FoldedFed ==
  ASSUME NEW l \in Seq(Entry), NEW o \in Runtime, NEW r, Sound(o, l),
         o.at = "appended", o.phase \in Live, Fed(o, r, l)
  PROVE  Suffix(Folded(o)) /\ NothingFrom(Len(Folded(o).state) + 1, r, l)
  <1> DEFINE s == o.state
             q == o.published
             e == o.pending
             sn == Len(s)
             qn == Len(q)
  <1>1. s \in Seq(Entry) /\ q \in Seq(Entry) /\ e \in Seq(Entry) BY DEF Runtime
  <1>2. Folded(o).state = s \o e /\ Folded(o).published = q \o e BY DEF Folded, Runtime
  <1>3. Len(e) = 1 /\ sn \in Nat /\ qn \in Nat BY <1>1, LenProperties DEF Sound
  <1>4. /\ Len(s \o e) = sn + 1
        /\ \A i \in 1..sn + 1 : (s \o e)[i] = IF i <= sn THEN s[i] ELSE e[i - sn]
    <2>1. /\ Len(s \o e) = sn + Len(e)
          /\ \A i \in 1..sn + Len(e) : (s \o e)[i] = IF i <= sn THEN s[i] ELSE e[i - sn]
      BY <1>1, ConcatProperties, Zenon
    <2>2. QED BY <1>3, <2>1, Zenon
  <1>5. /\ Len(q \o e) = qn + 1
        /\ \A i \in 1..qn + 1 : (q \o e)[i] = IF i <= qn THEN q[i] ELSE e[i - qn]
    <2>1. /\ Len(q \o e) = qn + Len(e)
          /\ \A i \in 1..qn + Len(e) : (q \o e)[i] = IF i <= qn THEN q[i] ELSE e[i - qn]
      BY <1>1, ConcatProperties, Zenon
    <2>2. QED BY <1>3, <2>1, Zenon
  <1>6. qn <= sn /\ \A i \in 1..qn : q[i] = s[sn - qn + i] BY DEF Fed, Suffix
  <1> DEFINE s2 == s \o e
             q2 == q \o e
  <1> HIDE DEF s2, q2, s, q, e, sn, qn
  <1>7. ASSUME NEW i \in 1..qn + 1 PROVE q2[i] = s2[(sn + 1) - (qn + 1) + i]
    <2>1. (sn + 1) - (qn + 1) + i = sn - qn + i /\ sn - qn + i \in 1..sn + 1
      BY <1>3, <1>6
    <2>2. CASE i = qn + 1
      <3>1. sn - qn + i = sn + 1 /\ i - qn = 1 /\ sn + 1 - sn = 1
        BY <1>3, <2>2
      <3>2. q2[i] = e[1] /\ s2[sn + 1] = e[1]
        BY <1>3, <1>4, <1>5, <2>2, <3>1 DEF s2, q2
      <3>3. QED BY <2>1, <3>1, <3>2
    <2>3. CASE i \in 1..qn
      <3>1. i <= qn /\ sn - qn + i <= sn BY <1>3, <2>3
      <3>2. q2[i] = q[i] BY <1>5, <3>1 DEF q2
      <3>3. s2[sn - qn + i] = s[sn - qn + i] BY <1>4, <2>1, <3>1 DEF s2
      <3>4. QED BY <1>6, <2>1, <2>3, <3>2, <3>3
    <2>4. QED BY <1>3, <2>2, <2>3
  <1>8. Suffix(Folded(o))
    <2>1. qn + 1 <= sn + 1 BY <1>3, <1>6
    <2>2. QED BY <1>2, <1>4, <1>5, <1>7, <2>1 DEF Suffix, s2, q2
  <1>9. NothingFrom(sn + 2, r, l) BY DEF Fed, sn, s
  <1>10. sn + 1 + 1 = sn + 2 BY <1>3
  <1>11. NothingFrom(Len(Folded(o).state) + 1, r, l)
    BY <1>2, <1>4, <1>9, <1>10
  <1>12. QED BY <1>8, <1>11

\* A step that replaces one object and leaves the log alone.
LEMMA ReplaceTold ==
  ASSUME FeedInv, IInv', NEW r \in Runtimes, NEW o, rt' = [rt EXCEPT ![r] = o],
         log' = log, Told(o, r, log), Fed(o, r, log)
  PROVE  FeedInv'
  <1>1. rt \in [Runtimes -> Runtime] BY DEF FeedInv, IInv, TypeOK
  <1>2. ASSUME NEW q \in Runtimes PROVE Told(rt'[q], q, log) /\ Fed(rt'[q], q, log)
    BY <1>1 DEF FeedInv
  <1>3. QED BY <1>2 DEF FeedInv

\* Both appends: the awaited event is the only one the writer has not folded, and
\* its call is in the log.
LEMMA InsertTold ==
  ASSUME FeedInv, IInv', NEW r \in Runtimes, NEW t \in {"created", "fact", "notice"},
         NEW a, Serving(r, a), Insert(r, t), a = "idle" => t # "notice"
  PROVE  FeedInv'
  <1> DEFINE R == rt[r]
             e == EventOf(r, t)
             o == [R EXCEPT !.pending = <<e>>, !.at = "appended"]
             n == Len(R.settled) + 1
  <1>0. /\ log \in Seq(Entry) /\ R \in Runtime /\ rt \in [Runtimes -> Runtime]
        /\ Told(R, r, log) /\ Fed(R, r, log)
    BY DEF FeedInv, IInv, TypeOK
  <1>1. e \in Entry BY EventOfType DEF FeedInv, IInv
  <1>2. e.by = r /\ e.call = n /\ e.type = t BY DEF EventOf
  <1>3. rt' = [rt EXCEPT ![r] = o] /\ log' = Append(log, e) BY <1>0 DEF Insert, Runtime
  <1>4. /\ o.settled = R.settled /\ o.state = R.state /\ o.published = R.published
        /\ o.at = "appended" /\ o.phase = R.phase /\ R.phase \in Live
    BY <1>0 DEF Runtime, Serving, In, Live
  <1>5. /\ Len(log') = Len(log) + 1 /\ log'[Len(log) + 1] = e /\ Len(log) \in Nat
    BY <1>0, <1>1, <1>3
  <1>6. Written(r, n, log')
    <2>1. CASE R.at # "idle" BY <1>0, <1>1, <1>3, <2>1, GrownTold DEF Told
    <2>2. CASE R.at = "idle"
      <3>1. e.type # "notice" BY <1>2, <2>2 DEF Serving
      <3>2. Len(log) + 1 \in 1..Len(log') BY <1>5
      <3>3. QED BY <1>2, <1>5, <3>1, <3>2 DEF Written
    <2>3. QED BY <2>1, <2>2
  <1>7. Told(o, r, log')
    <2>1. Told(R, r, log') BY <1>0, <1>1, <1>3, GrownTold
    <2>2. QED BY <1>4, <1>6, <2>1 DEF Told
  <1>8. Fed(o, r, log')
    <2>1. Len(R.state) \in Nat BY <1>0, LenProperties DEF Runtime
    <2>2. Len(R.state) = Len(log) BY <1>5, <2>1 DEF Insert, Accepts
    <2>3. NothingFrom(Len(o.state) + 2, r, log')
      BY <1>4, <1>5, <2>1, <2>2 DEF NothingFrom
    <2>4. Suffix(o) BY <1>0, <1>4 DEF Fed, Suffix
    <2>5. QED BY <1>4, <2>3, <2>4 DEF Fed
  <1> HIDE DEF o, e
  <1>9. ASSUME NEW q \in Runtimes PROVE Told(rt'[q], q, log') /\ Fed(rt'[q], q, log')
    <2>1. CASE q = r BY <1>0, <1>3, <1>7, <1>8, <2>1
    <2>2. CASE q # r
      <3>1. rt'[q] = rt[q] /\ rt[q] \in Runtime /\ Told(rt[q], q, log) /\ Fed(rt[q], q, log)
        BY <1>0, <1>3, <2>2 DEF FeedInv
      <3>2. e.by # q BY <1>2, <2>2
      <3>3. QED BY <1>0, <1>1, <1>3, <3>1, <3>2, GrownTold
    <2>3. QED BY <2>1, <2>2
  <1>10. QED BY <1>9 DEF FeedInv

\* The steps of open() and close().
LEMMA OpenTold ==
  ASSUME FeedInv, IInv', ConstantsAssumption, NEW r \in Runtimes,
         \/ SelectLease(r) \/ OpenStep(r) \/ Close(r) \/ CloseHandle(r)
         \/ \E c \in Calls : Record(r, c)
  PROVE  FeedInv'
  <1> DEFINE R == rt[r]
  <1>0. /\ R \in Runtime /\ Sound(R, log) /\ log \in Seq(Entry) /\ TypeOK
        /\ Told(R, r, log) /\ Fed(R, r, log) /\ Len(R.state) \in Nat
    BY LenProperties DEF FeedInv, IInv, TypeOK, Runtime
  <1>1. ASSUME NEW o \in Runtime, rt' = [rt EXCEPT ![r] = o], log' = log,
               o.settled = R.settled, o.at = R.at, o.state = R.state,
               o.published = R.published, o.phase \in Live <=> R.phase \in Live
        PROVE  FeedInv'
    <2>1. Told(o, r, log) BY <1>0, <1>1 DEF Told
    <2>2. Fed(o, r, log) BY <1>0, <1>1 DEF Fed, Suffix
    <2>3. QED BY <1>1, <2>1, <2>2, ReplaceTold
  <1>2. ASSUME NEW o \in Runtime, rt' = [rt EXCEPT ![r] = o], log' = log,
               o.settled = R.settled, o.at = R.at, o.published = R.published,
               R.phase \notin Live, R.at = "idle",
               o.phase \in Live => Len(o.state) = Len(log)
        PROVE  FeedInv'
    <2>1. Told(o, r, log) BY <1>0, <1>2 DEF Told
    <2>2. o.published = <<>> /\ Len(<<>>) = 0 BY <1>0, <1>2, EmptySeq DEF Fed
    <2>3. Len(o.state) \in Nat /\ Len(log) \in Nat BY <1>0, LenProperties DEF Runtime
    <2>4. Suffix(o) BY <2>2, <2>3 DEF Suffix
    <2>5. o.phase \in Live => NothingFrom(Len(o.state) + 1, r, log)
      BY <1>2, <2>3 DEF NothingFrom
    <2>6. Fed(o, r, log) BY <1>2, <2>2, <2>4, <2>5 DEF Fed
    <2>7. QED BY <1>2, <2>1, <2>6, ReplaceTold
  <1>3. CASE SelectLease(r) \/ PutLease(r) \/ Close(r)
    <2>1. PICK p \in {"acquiring", "loading", "closing"} :
            /\ rt' = [rt EXCEPT ![r].phase = p] /\ log' = log
            /\ p \in Live <=> R.phase \in Live
      BY <1>3 DEF SelectLease, PutLease, Close, In, Live, file
    <2> DEFINE o == [R EXCEPT !.phase = p]
    <2>2. /\ o \in Runtime /\ o.settled = R.settled /\ o.at = R.at /\ o.state = R.state
          /\ o.published = R.published /\ o.phase = p
      BY <1>0 DEF Runtime
    <2>3. rt' = [rt EXCEPT ![r] = o] BY <2>1
    <2> HIDE DEF o
    <2>4. QED BY <1>1, <2>1, <2>2, <2>3
  <1>4. ASSUME NEW c \in Calls, Record(r, c) PROVE FeedInv'
    <2> DEFINE o == [R EXCEPT !.queue = Append(R.queue, c)]
    <2>1. rt' = [rt EXCEPT ![r] = o] /\ log' = log BY <1>4 DEF Record, file
    <2>2. Append(R.queue, c) \in Seq(Calls) BY <1>0 DEF Runtime
    <2>3. /\ o \in Runtime /\ o.settled = R.settled /\ o.at = R.at /\ o.state = R.state
          /\ o.published = R.published /\ o.phase = R.phase
      BY <1>0, <2>2 DEF Runtime
    <2> HIDE DEF o
    <2>4. QED BY <1>1, <2>1, <2>3
  <1>5. CASE LoadSnapshot(r)
    <2> DEFINE o == [R EXCEPT !.phase = "replaying", !.state = snapshot,
                              !.snapSeq = Len(snapshot)]
    <2>1. rt' = [rt EXCEPT ![r] = o] /\ log' = log BY <1>5 DEF LoadSnapshot, file
    <2>2. snapshot \in Seq(Entry) /\ Len(snapshot) \in Nat
      BY <1>0, LenProperties DEF TypeOK
    <2>3. /\ o \in Runtime /\ o.settled = R.settled /\ o.at = R.at
          /\ o.published = R.published /\ o.phase \notin Live
      BY <1>0, <2>2 DEF Runtime, Live
    <2>4. R.phase \notin Live /\ R.at = "idle"
      BY <1>0, <1>5 DEF LoadSnapshot, In, Live, Sound
    <2> HIDE DEF o
    <2>5. QED BY <1>2, <2>1, <2>3, <2>4
  <1>6. CASE ReplayPage(r)
    <2> DEFINE p == IF LastPage(r) THEN "open" ELSE "replaying"
               o == [R EXCEPT !.state = Replayed(r), !.phase = p]
    <2>1. rt' = [rt EXCEPT ![r] = o] /\ log' = log BY <1>6 DEF ReplayPage, file
    <2>2. Replayed(r) \in Seq(Entry) /\ Len(Replayed(r)) = PageEnd(r)
      BY <1>0, ReplayedType DEF Sound, IsPrefixOf
    <2>3. /\ o \in Runtime /\ o.settled = R.settled /\ o.at = R.at
          /\ o.published = R.published /\ o.phase = p /\ o.state = Replayed(r)
      BY <1>0, <2>2 DEF Runtime
    <2>4. R.phase \notin Live /\ R.at = "idle"
      BY <1>0, <1>6 DEF ReplayPage, In, Live, Sound
    <2>5. o.phase \in Live => Len(o.state) = Len(log)
      BY <2>2, <2>3 DEF Live, LastPage, PageEnd
    <2> HIDE DEF o
    <2>6. QED BY <1>2, <2>1, <2>3, <2>4, <2>5
  <1>7. CASE OpenFails(r) \/ CloseHandle(r)
    <2>1. rt' = [rt EXCEPT ![r] = Gone(R.settled)] /\ log' = log
      BY <1>7 DEF OpenFails, CloseHandle, file
    <2>2. QED BY <1>0, <2>1, GoneTold, ReplaceTold
  <1>8. QED BY <1>3, <1>4, <1>5, <1>6, <1>7 DEF OpenStep

\* The steps of record().
LEMMA ServeTold ==
  ASSUME FeedInv, IInv', NEW r \in Runtimes, Serve(r)
  PROVE  FeedInv'
  <1> DEFINE R == rt[r]
             F == Folded(R)
             outs == {"ok", "reported", "failed"}
  <1>0. /\ R \in Runtime /\ Sound(R, log) /\ log \in Seq(Entry)
        /\ Told(R, r, log) /\ Fed(R, r, log)
    BY DEF FeedInv, IInv, TypeOK
  <1>1. R.queue # <<>> /\ R.phase \in Live
    BY DEF Serve, RecordTransient, AppendEvent, AppendFails, Complete, WriteSnapshot,
           SnapshotFails, SnapshotWritten, PostNotice, NoticeFails, Serving, In, Live
  <1>2. ASSUME NEW out \in outs, R.at # "appended",
               R.at # "idle" \/ Head(R.queue) = "transient" \/ out = "failed",
               NEW o \in Runtime, rt' = [rt EXCEPT ![r] = o], log' = log,
               o.settled = Answered(R, out).settled, o.at = "idle", o.state = R.state,
               o.published = R.published, o.phase = R.phase
        PROVE  FeedInv'
    <2>1. Told(Answered(R, out), r, log) BY <1>0, <1>1, <1>2, AnsweredTold
    <2>2. Told(o, r, log) BY <1>2, <2>1 DEF Told, Answered
    <2>3. Suffix(R) /\ NothingFrom(Len(R.state) + 1, r, log) BY <1>0, <1>1, <1>2 DEF Fed
    <2>4. Fed(o, r, log) BY <1>0, <1>1, <1>2, <2>3, SameFeed
    <2>5. QED BY <1>2, <2>2, <2>4, ReplaceTold
  <1>3. ASSUME NEW out \in outs
        PROVE  /\ Answered(R, out) \in Runtime /\ Answered(R, out).at = "idle"
               /\ Answered(R, out).state = R.state
               /\ Answered(R, out).published = R.published
               /\ Answered(R, out).phase = R.phase
    BY <1>0, <1>1, AnsweredType DEF Answered, Runtime
  <1>4. CASE RecordTransient(r) \/ AppendFails(r) \/ NoticeFails(r)
    <2>1. PICK out \in outs :
            /\ rt' = [rt EXCEPT ![r] = Answered(R, out)]
            /\ out = "failed" \/ Head(R.queue) = "transient"
      BY <1>4 DEF RecordTransient, AppendFails, NoticeFails
    <2>2. R.at # "appended" /\ log' = log
      BY <1>4 DEF RecordTransient, AppendFails, NoticeFails, Serving, file
    <2>3. QED BY <1>2, <1>3, <2>1, <2>2
  <1>5. CASE SnapshotWritten(r)
    <2>1. PICK out \in {"ok", "reported"} :
            rt' = [rt EXCEPT ![r] = [Answered(R, out) EXCEPT !.snapSeq = Len(R.state)]]
      BY <1>5 DEF SnapshotWritten
    <2> DEFINE A == Answered(R, out)
               o == [A EXCEPT !.snapSeq = Len(R.state)]
    <2>2. A \in Runtime /\ Len(R.state) \in Nat
      BY <1>0, <1>3, LenProperties DEF Runtime
    <2>3. R.at = "snapped" /\ log' = log BY <1>5 DEF SnapshotWritten, Serving, file
    <2>4. /\ A.at = "idle" /\ A.state = R.state /\ A.published = R.published
          /\ A.phase = R.phase
      BY <1>3
    <2> HIDE DEF A
    <2>5. /\ o \in Runtime /\ o.settled = A.settled /\ o.at = A.at /\ o.state = A.state
          /\ o.published = A.published /\ o.phase = A.phase
      BY <2>2 DEF Runtime
    <2>6. rt' = [rt EXCEPT ![r] = o] BY <2>1 DEF A
    <2> HIDE DEF o
    <2>7. QED BY <1>2, <2>3, <2>4, <2>5, <2>6 DEF A
  <1>6. CASE AppendEvent(r)
    <2>1. Head(R.queue) \in {"created", "fact", "notice"} /\ Head(R.queue) # "notice"
      <3>1. Head(R.queue) \in Calls BY <1>0, <1>1 DEF Runtime
      <3>2. QED BY <1>6, <3>1 DEF AppendEvent, Calls
    <2>2. Serving(r, "idle") /\ Insert(r, Head(R.queue)) BY <1>6 DEF AppendEvent
    <2>3. QED BY <2>1, <2>2, InsertTold
  <1>7. CASE PostNotice(r)
    <2>1. Serving(r, "snapFailed") /\ Insert(r, "notice") BY <1>7 DEF PostNotice
    <2>2. QED BY <2>1, InsertTold
  <1>8. ASSUME R.at = "appended"
        PROVE  /\ F \in Runtime /\ F.queue # <<>> /\ F.phase \in Live /\ F.at = "appended"
               /\ F.settled = R.settled /\ Told(F, r, log)
               /\ Suffix(F) /\ NothingFrom(Len(F.state) + 1, r, log)
    <2>1. /\ F \in Runtime /\ F.queue # <<>> /\ F.phase \in Live /\ F.at = "appended"
          /\ F.settled = R.settled
      BY <1>0, <1>1, <1>8, FoldedType DEF Folded, Runtime
    <2>2. Suffix(F) /\ NothingFrom(Len(F.state) + 1, r, log)
      BY <1>0, <1>1, <1>8, FoldedFed
    <2> HIDE DEF F
    <2>3. Told(F, r, log) BY <1>0, <1>8, <2>1 DEF Told
    <2>4. QED BY <2>1, <2>2, <2>3
  <1>9. CASE Complete(r)
    <2>1. R.at = "appended" /\ log' = log BY <1>9 DEF Complete, Serving, file
    <2>2. PICK out \in {"ok", "reported"} : rt' = [rt EXCEPT ![r] = Answered(F, out)]
      BY <1>9 DEF Complete
    <2>3. Told(Answered(F, out), r, log) BY <1>8, <2>1, AnsweredTold
    <2>4. Answered(F, out) \in Runtime BY <1>8, <2>1, AnsweredType
    <2>5. /\ Answered(F, out).state = F.state /\ Answered(F, out).published = F.published
          /\ Answered(F, out).phase = F.phase
      <3>1. F \in Runtime BY <1>8, <2>1
      <3> HIDE DEF F
      <3>2. QED BY <3>1 DEF Answered, Runtime
    <2>6. Fed(Answered(F, out), r, log) BY <1>8, <2>1, <2>4, <2>5, SameFeed
    <2>7. QED BY <2>1, <2>2, <2>3, <2>6, ReplaceTold
  <1>10. CASE WriteSnapshot(r) \/ SnapshotFails(r)
    <2>1. PICK a \in {"snapped", "snapFailed"} :
            /\ rt' = [rt EXCEPT ![r] = [F EXCEPT !.snapshotting = TRUE, !.at = a]]
            /\ log' = log /\ R.at = "appended"
      BY <1>10 DEF WriteSnapshot, SnapshotFails, Serving, file
    <2> DEFINE o == [F EXCEPT !.snapshotting = TRUE, !.at = a]
    <2>2. /\ F \in Runtime /\ F.phase \in Live /\ F.at = "appended" /\ Told(F, r, log)
          /\ Suffix(F) /\ NothingFrom(Len(F.state) + 1, r, log)
      BY <1>8, <2>1
    <2>3. rt' = [rt EXCEPT ![r] = o] BY <2>1
    <2> HIDE DEF F
    <2>4. /\ o \in Runtime /\ o.settled = F.settled /\ o.at = a /\ o.state = F.state
          /\ o.published = F.published /\ o.phase = F.phase
      BY <2>2 DEF Runtime
    <2> HIDE DEF o
    <2>5. Told(o, r, log) BY <2>2, <2>4 DEF Told
    <2>6. Fed(o, r, log) BY <2>2, <2>4, SameFeed
    <2>7. QED BY <2>1, <2>3, <2>5, <2>6, ReplaceTold
  <1>11. QED BY <1>4, <1>5, <1>6, <1>7, <1>9, <1>10 DEF Serve

\* Every step keeps what callers and subscribers were told true.
LEMMA StepTold == ASSUME ConstantsAssumption PROVE FeedInv /\ IInv' /\ [Next]_vars => FeedInv'
  <1> SUFFICES ASSUME FeedInv, IInv', [Next]_vars PROVE FeedInv' OBVIOUS
  <1>1. ASSUME NEW r \in Runtimes,
               \/ SelectLease(r) \/ OpenStep(r) \/ Serve(r)
               \/ \E c \in Calls : Record(r, c)
               \/ Close(r) \/ CloseHandle(r)
        PROVE  FeedInv'
    BY <1>1, OpenTold, ServeTold
  <1>2. ASSUME NEW p \in Procs, Crash(p) PROVE FeedInv'
    <2>1. /\ rt \in [Runtimes -> Runtime] /\ log' = log
          /\ \A r \in Runtimes : Told(rt[r], r, log) /\ Fed(rt[r], r, log)
      BY <1>2 DEF FeedInv, IInv, TypeOK, Crash, file
    <2>2. \A r \in Runtimes : /\ Told(Gone(rt[r].settled), r, log)
                              /\ Fed(Gone(rt[r].settled), r, log)
      BY <2>1, GoneTold
    <2>3. \A r \in Runtimes : rt'[r] = rt[r] \/ rt'[r] = Gone(rt[r].settled)
      BY <1>2 DEF Crash
    <2>4. \A r \in Runtimes : Told(rt'[r], r, log') /\ Fed(rt'[r], r, log')
      BY <2>1, <2>2, <2>3
    <2>5. QED BY <2>4 DEF FeedInv
  <1>3. ASSUME rt' = rt, log' = log PROVE FeedInv'
    BY <1>3 DEF FeedInv
  <1>4. CASE \/ \E p \in Procs : CloseStore(p) \/ FreePid(p) \/ ReusePid(p)
             \/ DamageSnapshot \/ UNCHANGED vars
    BY <1>3, <1>4 DEF CloseStore, FreePid, ReusePid, DamageSnapshot, vars, file
  <1>5. QED BY <1>1, <1>2, <1>4 DEF Next

\* What callers and subscribers were told is true in every reachable state.
LEMMA InductiveFeed == Spec => []FeedInv
  <1>1. Init => FeedInv
    <2> SUFFICES ASSUME Init PROVE FeedInv OBVIOUS
    <2>1. IInv BY InitIInv, ConstantsAssumption
    <2>2. ASSUME NEW r \in Runtimes PROVE Told(rt[r], r, log) /\ Fed(rt[r], r, log)
      <3>1. rt[r] = Gone(<<>>) /\ Len(<<>>) = 0 BY EmptySeq DEF Init
      <3>2. QED BY <3>1 DEF Told, Fed, Suffix, Gone, Live
    <2>3. QED BY <2>1, <2>2 DEF FeedInv
  <1>2. FeedInv /\ IInv' /\ [Next]_vars => FeedInv' BY StepTold, ConstantsAssumption
  <1>3. QED BY <1>1, <1>2, Inductive, PTL DEF Spec

\* A record() of a persisted event that was answered without a failure has its
\* event in the log for ever, whatever crashed or was closed since.
THEOREM AnswersAreDurable == Spec => []AnsweredIsDurable
  <1>1. FeedInv => AnsweredIsDurable
    BY DEF FeedInv, Told, Written, AnsweredIsDurable, Durable
  <1>2. QED BY <1>1, InductiveFeed, PTL

\* A subscriber sees no gap, no repetition and nothing a replay would not show,
\* and between two calls a runtime has folded everything it ever wrote.
THEOREM FeedCorrect == Spec => []FeedIsComplete
  <1>1. FeedInv => GapFreeFeed
    <2> SUFFICES ASSUME FeedInv, NEW r \in Runtimes
                 PROVE  LET skipped == Len(rt[r].state) - Len(rt[r].published)
                        IN  /\ skipped >= 0
                            /\ \A i \in 1..Len(rt[r].published) :
                                 rt[r].published[i] = log[skipped + i]
      BY DEF GapFreeFeed
    <2> DEFINE R == rt[r]
               n == Len(R.state)
               m == Len(R.published)
    <2>1. R \in Runtime /\ Sound(R, log) /\ Suffix(R)
      BY DEF FeedInv, IInv, TypeOK, Fed
    <2>2. n \in Nat /\ m \in Nat BY <2>1, LenProperties DEF Runtime
    <2>3. m <= n /\ \A i \in 1..m : R.published[i] = R.state[n - m + i]
      BY <2>1 DEF Suffix
    <2>4. \A i \in 1..n : R.state[i] = log[i] BY <2>1 DEF Sound, IsPrefixOf
    <2> HIDE DEF R, n, m
    <2>5. ASSUME NEW i \in 1..m PROVE R.published[i] = log[n - m + i]
      <3>1. n - m + i \in 1..n BY <2>2, <2>3
      <3>2. QED BY <2>3, <2>4, <3>1
    <2>6. n - m >= 0 BY <2>2, <2>3
    <2>7. QED BY <2>5, <2>6, Zenon DEF R, n, m
  <1>2. FeedInv => NeverBehindItself
    <2>1. ASSUME FeedInv, NEW r \in Runtimes, rt[r].phase \in {"open", "closing"},
                 rt[r].at = "idle"
          PROVE  NothingFrom(Len(rt[r].state) + 1, r, log)
      BY <2>1 DEF FeedInv, Fed, Live
    <2>2. QED BY <2>1 DEF NothingFrom, NeverBehindItself
  <1>3. QED BY <1>1, <1>2, InductiveFeed, PTL DEF FeedIsComplete

-----------------------------------------------------------------------------
(* The order of a runtime's calls                                          *)

\* Nothing in the log belongs to a call that was not served yet; a notice of the
\* call being served is there only while its snapshot is marked as under way.
Served(o, r, l) ==
  /\ o.at # "idle" => o.queue # <<>>
  /\ o.at = "snapFailed" => o.snapshotting
  /\ \A k \in 1..Len(l) :
       l[k].by = r => l[k].call <= Len(o.settled) + (IF o.at = "idle" THEN 0 ELSE 1)
  /\ o.at # "idle" /\ (~o.snapshotting \/ o.at = "snapFailed") =>
       \A k \in 1..Len(l) : l[k].by = r /\ l[k].type = "notice" => l[k].call <= Len(o.settled)

InOrder(l) ==
  \A k, m \in 1..Len(l) :
    k < m /\ l[k].by = l[m].by =>
      \/ l[k].call < l[m].call
      \/ l[k].call = l[m].call /\ l[k].type # "notice" /\ l[m].type = "notice"

\* A crash may leave the event of an unanswered call behind, and ends the runtime.
OrderInv == /\ IInv /\ InOrder(log)
            /\ \A r \in Runtimes : ProcOf[r] \in alive => Served(rt[r], r, log)

\* An entry after all earlier ones of its runtime keeps the order.
LEMMA GrownOrder ==
  ASSUME NEW l \in Seq(Entry), NEW e \in Entry, InOrder(l),
         \A k \in 1..Len(l) : l[k].by = e.by =>
           \/ l[k].call < e.call
           \/ l[k].call = e.call /\ l[k].type # "notice" /\ e.type = "notice"
  PROVE  InOrder(Append(l, e))
  <1> DEFINE g == Append(l, e)
  <1>1. /\ Len(g) = Len(l) + 1 /\ g[Len(l) + 1] = e /\ Len(l) \in Nat
        /\ \A i \in 1..Len(l) : g[i] = l[i]
    OBVIOUS
  <1> HIDE DEF g
  <1>2. ASSUME NEW k \in 1..Len(g), NEW m \in 1..Len(g), k < m, g[k].by = g[m].by
        PROVE  \/ g[k].call < g[m].call
               \/ g[k].call = g[m].call /\ g[k].type # "notice" /\ g[m].type = "notice"
    <2>1. k \in 1..Len(l) /\ g[k] = l[k] BY <1>1, <1>2
    <2>2. CASE m = Len(l) + 1 BY <1>1, <1>2, <2>1, <2>2
    <2>3. CASE m \in 1..Len(l)
      <3>1. g[m] = l[m] BY <1>1, <2>3
      <3>2. QED BY <1>2, <2>1, <2>3, <3>1 DEF InOrder
    <2>4. QED BY <1>1, <2>2, <2>3
  <1>3. QED BY <1>2 DEF InOrder, g

\* What another runtime appends does not concern the calls of this one.
LEMMA GrownServed ==
  ASSUME NEW l \in Seq(Entry), NEW e \in Entry, NEW r, e.by # r, NEW o, Served(o, r, l)
  PROVE  Served(o, r, Append(l, e))
  <1>1. /\ Len(Append(l, e)) = Len(l) + 1 /\ Append(l, e)[Len(l) + 1] = e /\ Len(l) \in Nat
        /\ \A i \in 1..Len(l) : Append(l, e)[i] = l[i]
    OBVIOUS
  <1>2. \A k \in 1..Len(Append(l, e)) : k = Len(l) + 1 \/ k \in 1..Len(l) BY <1>1
  <1>3. QED BY <1>1, <1>2 DEF Served

\* A step that replaces one object and leaves the log alone.
LEMMA ReplaceServed ==
  ASSUME OrderInv, IInv', NEW r \in Runtimes, NEW o, rt' = [rt EXCEPT ![r] = o],
         log' = log, alive' = alive, ProcOf[r] \in alive => Served(o, r, log)
  PROVE  OrderInv'
  <1>1. rt \in [Runtimes -> Runtime] BY DEF OrderInv, IInv, TypeOK
  <1>2. ASSUME NEW q \in Runtimes, ProcOf[q] \in alive PROVE Served(rt'[q], q, log)
    BY <1>1, <1>2 DEF OrderInv
  <1>3. QED BY <1>2 DEF OrderInv

\* The event of a call comes after those of all earlier calls, and the notice of a
\* failed snapshot after the event of its own call.
LEMMA InsertServed ==
  ASSUME OrderInv, IInv', NEW r \in Runtimes, NEW t \in {"created", "fact", "notice"},
         NEW a, Serving(r, a), Insert(r, t),
         \/ a = "idle" /\ t # "notice"
         \/ a = "snapFailed" /\ t = "notice"
  PROVE  OrderInv'
  <1> DEFINE R == rt[r]
             e == EventOf(r, t)
             o == [R EXCEPT !.pending = <<e>>, !.at = "appended"]
             n == Len(R.settled)
  <1>0. /\ log \in Seq(Entry) /\ R \in Runtime /\ rt \in [Runtimes -> Runtime]
        /\ Served(R, r, log) /\ R.at = a /\ R.queue # <<>> /\ n \in Nat
        /\ \A k \in 1..Len(log) : log[k].call \in Nat
    <2>1. log \in Seq(Entry) /\ R \in Runtime /\ rt \in [Runtimes -> Runtime]
      BY DEF OrderInv, IInv, TypeOK
    <2>2. \A k \in 1..Len(log) : log[k] \in Entry BY <2>1
    <2>3. Served(R, r, log) /\ R.at = a /\ R.queue # <<>>
      BY DEF OrderInv, Serving, In, Runs
    <2>4. QED BY <2>1, <2>2, <2>3, LenProperties DEF Runtime, Entry
  <1>1. e \in Entry BY EventOfType DEF OrderInv, IInv
  <1>2. e.by = r /\ e.call = n + 1 /\ e.type = t BY DEF EventOf
  <1>3. rt' = [rt EXCEPT ![r] = o] /\ log' = Append(log, e) BY <1>0 DEF Insert, Runtime
  <1>4. /\ o.settled = R.settled /\ o.at = "appended" /\ o.snapshotting = R.snapshotting
        /\ o.queue = R.queue /\ alive' = alive
    BY <1>0 DEF Runtime, Insert, hosts
  <1>5. /\ Len(log') = Len(log) + 1 /\ log'[Len(log) + 1] = e /\ Len(log) \in Nat
        /\ \A i \in 1..Len(log) : log'[i] = log[i]
    BY <1>0, <1>1, <1>3
  <1> HIDE DEF o, e
  <1>6. ASSUME NEW k \in 1..Len(log), log[k].by = r
        PROVE  \/ log[k].call < n + 1
               \/ log[k].call = n + 1 /\ log[k].type # "notice" /\ t = "notice"
    <2>1. CASE a = "idle" BY <1>0, <1>6, <2>1 DEF Served
    <2>2. CASE a = "snapFailed" /\ t = "notice"
      <3>1. log[k].call <= n + 1 /\ (log[k].type = "notice" => log[k].call <= n)
        BY <1>0, <1>6, <2>2 DEF Served
      <3>2. QED BY <1>0, <2>2, <3>1
    <2>3. QED BY <2>1, <2>2
  <1>7. InOrder(log') BY <1>0, <1>1, <1>2, <1>3, <1>6, GrownOrder DEF OrderInv
  <1>8. Served(o, r, log')
    <2>1. ASSUME NEW k \in 1..Len(log'), log'[k].by = r
          PROVE  /\ log'[k].call <= n + 1
                 /\ ~R.snapshotting /\ log'[k].type = "notice" => log'[k].call <= n
      <3>1. CASE k = Len(log) + 1
        <4>1. log'[k].call = n + 1 /\ log'[k].type = t BY <1>2, <1>5, <3>1
        <4>2. t = "notice" => R.snapshotting BY <1>0 DEF Served
        <4>3. QED BY <1>0, <4>1, <4>2
      <3>2. CASE k \in 1..Len(log) BY <1>0, <1>5, <1>6, <2>1, <3>2
      <3>3. QED BY <1>5, <3>1, <3>2
    <2>2. QED BY <1>0, <1>4, <2>1 DEF Served
  <1>9. ASSUME NEW q \in Runtimes, ProcOf[q] \in alive' PROVE Served(rt'[q], q, log')
    <2>1. CASE q = r BY <1>0, <1>3, <1>8, <2>1
    <2>2. CASE q # r
      <3>1. rt'[q] = rt[q] /\ Served(rt[q], q, log) /\ e.by # q
        BY <1>0, <1>2, <1>3, <1>4, <1>9, <2>2 DEF OrderInv
      <3>2. QED BY <1>0, <1>1, <1>3, <3>1, GrownServed
    <2>3. QED BY <2>1, <2>2
  <1>10. QED BY <1>7, <1>9 DEF OrderInv

\* Replacing an object by one that is as far with the same call, that is idle, or
\* that goes from the append of an event to its snapshot.
LEMMA MovesServed ==
  ASSUME OrderInv, IInv', NEW r \in Runtimes, NEW o, rt' = [rt EXCEPT ![r] = o],
         log' = log, alive' = alive,
         \/ /\ o.settled = rt[r].settled /\ o.at = rt[r].at
            /\ o.snapshotting = rt[r].snapshotting
            /\ rt[r].queue # <<>> => o.queue # <<>>
         \/ o.settled = rt[r].settled /\ o.at = "idle" /\ rt[r].at = "idle"
         \/ Len(o.settled) = Len(rt[r].settled) + 1 /\ o.at = "idle"
         \/ /\ o.settled = rt[r].settled /\ o.queue # <<>> /\ o.snapshotting
            /\ rt[r].at = "appended" /\ ~rt[r].snapshotting
            /\ o.at \in {"snapped", "snapFailed"}
  PROVE  OrderInv'
  <1> DEFINE n == Len(rt[r].settled)
  <1>1. /\ n \in Nat /\ \A k \in 1..Len(log) : log[k].call \in Nat
    <2>1. log \in Seq(Entry) /\ rt[r] \in Runtime BY DEF OrderInv, IInv, TypeOK
    <2>2. \A k \in 1..Len(log) : log[k] \in Entry BY <2>1
    <2>3. QED BY <2>1, <2>2, LenProperties DEF Entry, Runtime
  <1>2. ASSUME ProcOf[r] \in alive PROVE Served(o, r, log)
    <2>1. Served(rt[r], r, log) BY <1>2 DEF OrderInv
    <2>2. CASE /\ o.settled = rt[r].settled /\ o.at = rt[r].at
               /\ o.snapshotting = rt[r].snapshotting
               /\ rt[r].queue # <<>> => o.queue # <<>>
      BY <2>1, <2>2 DEF Served
    <2>3. CASE o.settled = rt[r].settled /\ o.at = "idle" /\ rt[r].at = "idle"
      BY <2>1, <2>3 DEF Served
    <2>4. CASE Len(o.settled) = n + 1 /\ o.at = "idle"
      <3>1. ASSUME NEW k \in 1..Len(log), log[k].by = r PROVE log[k].call <= n + 1
        <4>1. log[k].call <= n + (IF rt[r].at = "idle" THEN 0 ELSE 1)
          BY <2>1, <3>1 DEF Served
        <4>2. CASE rt[r].at = "idle" BY <1>1, <4>1, <4>2
        <4>3. CASE rt[r].at # "idle" BY <4>1, <4>3
        <4>4. QED BY <4>2, <4>3
      <3>2. Len(o.settled) + 0 = n + 1 BY <1>1, <2>4
      <3>3. QED BY <2>4, <3>1, <3>2 DEF Served
    <2>5. CASE /\ o.settled = rt[r].settled /\ o.queue # <<>> /\ o.snapshotting
               /\ rt[r].at = "appended" /\ ~rt[r].snapshotting
               /\ o.at \in {"snapped", "snapFailed"}
      BY <2>1, <2>5 DEF Served
    <2>6. QED BY <2>2, <2>3, <2>4, <2>5
  <1>3. QED BY <1>2, ReplaceServed

\* The steps of open() and close(), and a further call.
LEMMA OpenOrder ==
  ASSUME OrderInv, IInv', NEW r \in Runtimes,
         \/ SelectLease(r) \/ OpenStep(r) \/ Close(r) \/ CloseHandle(r)
         \/ \E c \in Calls : Record(r, c)
  PROVE  OrderInv'
  <1> DEFINE R == rt[r]
  <1>0. R \in Runtime /\ Sound(R, log) BY DEF OrderInv, IInv, TypeOK
  <1>1. ASSUME NEW o, rt' = [rt EXCEPT ![r] = o], log' = log, alive' = alive,
               o.settled = R.settled, o.at = R.at, o.snapshotting = R.snapshotting,
               R.queue # <<>> => o.queue # <<>>
        PROVE  OrderInv'
    BY <1>1, MovesServed
  <1>2. CASE SelectLease(r) \/ PutLease(r) \/ Close(r)
    <2>1. PICK p : /\ rt' = [rt EXCEPT ![r] = [R EXCEPT !.phase = p]]
                   /\ log' = log /\ alive' = alive
      BY <1>2 DEF SelectLease, PutLease, Close, file, hosts
    <2> DEFINE o == [R EXCEPT !.phase = p]
    <2>2. /\ o.settled = R.settled /\ o.at = R.at /\ o.snapshotting = R.snapshotting
          /\ o.queue = R.queue
      BY <1>0 DEF Runtime
    <2> HIDE DEF o
    <2>3. QED BY <1>1, <2>1, <2>2 DEF o
  <1>3. ASSUME NEW c \in Calls, Record(r, c) PROVE OrderInv'
    <2> DEFINE o == [R EXCEPT !.queue = Append(R.queue, c)]
    <2>1. rt' = [rt EXCEPT ![r] = o] /\ log' = log /\ alive' = alive
      BY <1>3 DEF Record, file, hosts
    <2>2. /\ o.settled = R.settled /\ o.at = R.at /\ o.snapshotting = R.snapshotting
          /\ o.queue # <<>>
      <3>1. R.queue \in Seq(Calls) BY <1>0 DEF Runtime
      <3>2. Append(R.queue, c) # <<>> BY <3>1, AppendProperties
      <3>3. QED BY <1>0, <3>2 DEF Runtime
    <2> HIDE DEF o
    <2>3. QED BY <1>1, <2>1, <2>2
  <1>4. CASE LoadSnapshot(r)
    <2> DEFINE o == [R EXCEPT !.phase = "replaying", !.state = snapshot,
                              !.snapSeq = Len(snapshot)]
    <2>1. rt' = [rt EXCEPT ![r] = o] /\ log' = log /\ alive' = alive
      BY <1>4 DEF LoadSnapshot, file, hosts
    <2>2. /\ o.settled = R.settled /\ o.at = R.at /\ o.snapshotting = R.snapshotting
          /\ o.queue = R.queue
      BY <1>0 DEF Runtime
    <2> HIDE DEF o
    <2>3. QED BY <1>1, <2>1, <2>2
  <1>5. CASE ReplayPage(r)
    <2> DEFINE o == [R EXCEPT !.state = Replayed(r),
                              !.phase = IF LastPage(r) THEN "open" ELSE "replaying"]
    <2>1. rt' = [rt EXCEPT ![r] = o] /\ log' = log /\ alive' = alive
      BY <1>5 DEF ReplayPage, file, hosts
    <2>2. /\ o.settled = R.settled /\ o.at = R.at /\ o.snapshotting = R.snapshotting
          /\ o.queue = R.queue
      BY <1>0 DEF Runtime
    <2> HIDE DEF o
    <2>3. QED BY <1>1, <2>1, <2>2
  <1>6. CASE OpenFails(r) \/ CloseHandle(r)
    <2>1. /\ rt' = [rt EXCEPT ![r] = Gone(R.settled)] /\ log' = log /\ alive' = alive
      BY <1>6 DEF OpenFails, CloseHandle, file, hosts
    <2>2. R.at = "idle"
      <3>1. CASE OpenFails(r) BY <1>0, <3>1 DEF OpenFails, In, Sound
      <3>2. CASE CloseHandle(r)
        BY <3>2 DEF CloseHandle, In, Runs, OrderInv, Served
      <3>3. QED BY <1>6, <3>1, <3>2
    <2>3. Gone(R.settled).settled = R.settled /\ Gone(R.settled).at = "idle" BY DEF Gone
    <2> DEFINE o == Gone(R.settled)
    <2> HIDE DEF o
    <2>4. QED BY <2>1, <2>2, <2>3, MovesServed DEF o
  <1>7. QED BY <1>2, <1>3, <1>4, <1>5, <1>6 DEF OpenStep

\* The steps of record().
LEMMA ServeOrder ==
  ASSUME OrderInv, IInv', NEW r \in Runtimes, Serve(r)
  PROVE  OrderInv'
  <1> DEFINE R == rt[r]
             F == Folded(R)
  <1>0. R \in Runtime BY DEF OrderInv, IInv, TypeOK
  <1>1. /\ F.settled = R.settled /\ F.queue = R.queue /\ F.at = R.at
        /\ F.snapshotting = R.snapshotting /\ F \in Runtime
    BY <1>0, FoldedType DEF Folded, Runtime
  <1>2. \A out : /\ Len(Answered(R, out).settled) = Len(R.settled) + 1
                 /\ Answered(R, out).at = "idle"
                 /\ Len(Answered(F, out).settled) = Len(R.settled) + 1
                 /\ Answered(F, out).at = "idle"
    <2>1. ASSUME NEW x \in Runtime, NEW out
          PROVE  /\ Len(Answered(x, out).settled) = Len(x.settled) + 1
                 /\ Answered(x, out).at = "idle"
      <3> DEFINE a == [call |-> Head(x.queue), out |-> out]
      <3>1. x.settled \in Seq(Answer) BY DEF Runtime
      <3>2. Answered(x, out).settled = Append(x.settled, a) /\ Answered(x, out).at = "idle"
        BY DEF Answered, Runtime
      <3> HIDE DEF a
      <3>3. x.settled \in Seq(Answer \union {a}) BY <3>1
      <3>4. Len(Append(x.settled, a)) = Len(x.settled) + 1 BY <3>3, AppendProperties
      <3>5. QED BY <3>2, <3>4
    <2> HIDE DEF F
    <2>2. QED BY <1>0, <1>1, <2>1
  <1>3. CASE RecordTransient(r) \/ AppendFails(r) \/ NoticeFails(r)
    <2>1. PICK out : rt' = [rt EXCEPT ![r] = Answered(R, out)] /\ log' = log /\ alive' = alive
      BY <1>3 DEF RecordTransient, AppendFails, NoticeFails, file, hosts
    <2>2. QED BY <1>2, <2>1, MovesServed
  <1>4. CASE Complete(r)
    <2>1. PICK out : rt' = [rt EXCEPT ![r] = Answered(F, out)] /\ log' = log /\ alive' = alive
      BY <1>4 DEF Complete, file, hosts
    <2>2. QED BY <1>2, <2>1, MovesServed
  <1>5. CASE SnapshotWritten(r)
    <2>1. PICK out : /\ rt' = [rt EXCEPT ![r] = [Answered(R, out) EXCEPT !.snapSeq = Len(R.state)]]
                     /\ log' = log /\ alive' = alive
      BY <1>5 DEF SnapshotWritten, file, hosts
    <2> DEFINE o == [Answered(R, out) EXCEPT !.snapSeq = Len(R.state)]
    <2>2. o.settled = Answered(R, out).settled /\ o.at = Answered(R, out).at
      BY <1>0 DEF Answered, Runtime
    <2>3. Len(o.settled) = Len(R.settled) + 1 /\ o.at = "idle" BY <1>2, <2>2
    <2> HIDE DEF o
    <2>4. QED BY <2>1, <2>3, MovesServed DEF o
  <1>6. CASE WriteSnapshot(r) \/ SnapshotFails(r)
    <2>1. PICK a \in {"snapped", "snapFailed"} :
            /\ rt' = [rt EXCEPT ![r] = [F EXCEPT !.snapshotting = TRUE, !.at = a]]
            /\ log' = log /\ alive' = alive
      BY <1>6 DEF WriteSnapshot, SnapshotFails, file, hosts
    <2>2. R.at = "appended" /\ ~F.snapshotting /\ R.queue # <<>>
      BY <1>6 DEF WriteSnapshot, SnapshotFails, Serving, SnapshotDue
    <2> DEFINE o == [F EXCEPT !.snapshotting = TRUE, !.at = a]
    <2>3. rt' = [rt EXCEPT ![r] = o] BY <2>1
    <2> HIDE DEF F
    <2>4. o.settled = F.settled /\ o.queue = F.queue /\ o.snapshotting /\ o.at = a
      BY <1>1 DEF Runtime
    <2> HIDE DEF o
    <2>5. /\ o.settled = rt[r].settled /\ o.queue # <<>> /\ o.snapshotting
          /\ rt[r].at = "appended" /\ ~rt[r].snapshotting
          /\ o.at \in {"snapped", "snapFailed"}
      BY <1>1, <2>2, <2>4
    <2>6. log' = log /\ alive' = alive BY <2>1
    <2>7. QED BY <2>3, <2>5, <2>6, MovesServed
  <1>7. CASE AppendEvent(r)
    <2>1. Head(R.queue) \in {"created", "fact", "notice"} /\ Head(R.queue) # "notice"
      <3>1. Head(R.queue) \in Calls BY <1>0, <1>7 DEF AppendEvent, Serving, Runtime
      <3>2. QED BY <1>7, <3>1 DEF AppendEvent, Calls
    <2>2. Serving(r, "idle") /\ Insert(r, Head(R.queue)) BY <1>7 DEF AppendEvent
    <2>3. QED BY <2>1, <2>2, InsertServed
  <1>8. CASE PostNotice(r)
    <2>1. Serving(r, "snapFailed") /\ Insert(r, "notice") BY <1>8 DEF PostNotice
    <2>2. QED BY <2>1, InsertServed
  <1>9. QED BY <1>3, <1>4, <1>5, <1>6, <1>7, <1>8 DEF Serve

\* The order of the calls is kept in every reachable state.
LEMMA InductiveOrder == Spec => []OrderInv
  <1>1. Init => OrderInv
    <2> SUFFICES ASSUME Init PROVE OrderInv OBVIOUS
    <2>1. IInv BY InitIInv, ConstantsAssumption
    <2>2. log = <<>> /\ Len(<<>>) = 0 /\ \A r \in Runtimes : rt[r] = Gone(<<>>)
      BY EmptySeq DEF Init
    <2>3. QED BY <2>1, <2>2 DEF OrderInv, InOrder, Served, Gone
  <1>2. OrderInv /\ IInv' /\ [Next]_vars => OrderInv'
    <2> SUFFICES ASSUME OrderInv, IInv', [Next]_vars PROVE OrderInv' OBVIOUS
    <2>1. ASSUME NEW r \in Runtimes,
                 \/ SelectLease(r) \/ OpenStep(r) \/ Serve(r)
                 \/ \E c \in Calls : Record(r, c)
                 \/ Close(r) \/ CloseHandle(r)
          PROVE  OrderInv'
      BY <2>1, OpenOrder, ServeOrder
    <2>2. ASSUME NEW p \in Procs, Crash(p) PROVE OrderInv'
      <3>1. /\ log' = log /\ alive' = alive \ {p}
            /\ \A r \in Runtimes : ProcOf[r] # p => rt'[r] = rt[r]
        BY <2>2 DEF Crash, file
      <3>2. QED BY <3>1 DEF OrderInv
    <2>3. ASSUME rt' = rt, log' = log, alive' = alive PROVE OrderInv'
      BY <2>3 DEF OrderInv
    <2>4. CASE \/ \E p \in Procs : CloseStore(p) \/ FreePid(p) \/ ReusePid(p)
               \/ DamageSnapshot \/ UNCHANGED vars
      BY <2>3, <2>4 DEF CloseStore, FreePid, ReusePid, DamageSnapshot, vars, file, hosts
    <2>5. QED BY <2>1, <2>2, <2>4 DEF Next
  <1>3. QED BY <1>1, <1>2, Inductive, PTL DEF Spec

-----------------------------------------------------------------------------
(* One writer in one process                                               *)

OneProcess == \A p, q \in Procs : p = q

Acquires(r) == rt[r].phase = "acquiring"

\* While the store is open the holder's process is known as such in memory and in
\* the database: together with the single thread of JavaScript this is what keeps
\* the two statements of a second #acquireLease out.
LeaseInv ==
  /\ \A q, r \in Runtimes : q # r => /\ ~ (HoldsHandle(q) /\ HoldsHandle(r))
                                     /\ ~ (HoldsHandle(q) /\ Acquires(r))
                                     /\ ~ (Acquires(q) /\ Acquires(r))
  /\ \A r \in Runtimes : HoldsHandle(r) /\ ProcOf[r] \in storeOpen =>
       ProcOf[r] \in handles /\ lease = ProcOf[r]

\* A runtime that holds the handle goes on holding it.
LEMMA KeepsHandle ==
  ASSUME TypeOK, LeaseInv, NEW r \in Runtimes, HoldsHandle(r), NEW o,
         rt' = [rt EXCEPT ![r] = o], o.phase \in {"loading", "replaying", "open", "closing"},
         UNCHANGED <<lease, hosts>>
  PROVE  LeaseInv'
  <1>1. rt \in [Runtimes -> Runtime] BY DEF TypeOK
  <1>2. \A q \in Runtimes : /\ HoldsHandle(q)' <=> HoldsHandle(q)
                            /\ Acquires(q)' <=> Acquires(q)
    BY <1>1 DEF HoldsHandle, Acquires
  <1>3. QED BY <1>2 DEF LeaseInv, hosts

\* The steps of open() and close().
LEMMA OpenLease ==
  ASSUME TypeOK, LeaseInv, OneProcess, ConstantsAssumption, NEW r \in Runtimes,
         \/ SelectLease(r) \/ OpenStep(r) \/ Close(r) \/ CloseHandle(r)
         \/ \E c \in Calls : Record(r, c)
  PROVE  LeaseInv'
  <1> DEFINE R == rt[r]
  <1>0. /\ rt \in [Runtimes -> Runtime] /\ R \in Runtime
        /\ \A q \in Runtimes : ProcOf[q] \in Procs /\ ProcOf[q] = ProcOf[r]
        /\ ProcOf[r] # None
    BY DEF TypeOK, OneProcess, ConstantsAssumption
  <1>1. CASE SelectLease(r)
    <2>1. \A q \in Runtimes : ~ HoldsHandle(q) /\ ~ Acquires(q)
      <3>1. \A q \in Runtimes : ~ Acquires(q)
        BY <1>0, <1>1 DEF SelectLease, In, Runs, Acquires
      <3>2. ASSUME NEW q \in Runtimes, HoldsHandle(q) PROVE FALSE
        <4>1. ProcOf[r] \in storeOpen /\ LeaseFree(ProcOf[r]) BY <1>1 DEF SelectLease
        <4>2. ProcOf[r] \in handles /\ lease = ProcOf[r] BY <1>0, <3>2, <4>1 DEF LeaseInv
        <4>3. QED BY <1>0, <4>1, <4>2 DEF LeaseFree
      <3>3. QED BY <3>1, <3>2
    <2>2. /\ \A q \in Runtimes : ~ HoldsHandle(q)'
          /\ \A q \in Runtimes : Acquires(q)' => q = r
      BY <1>0, <1>1, <2>1 DEF SelectLease, HoldsHandle, Acquires, Runtime
    <2>3. QED BY <2>2 DEF LeaseInv
  <1>2. CASE PutLease(r)
    <2>1. \A q \in Runtimes : q # r => ~ HoldsHandle(q) /\ ~ Acquires(q)
      BY <1>2 DEF PutLease, LeaseInv, Acquires
    <2>2. /\ \A q \in Runtimes : HoldsHandle(q)' => q = r
          /\ \A q \in Runtimes : ~ Acquires(q)'
      BY <1>0, <1>2, <2>1 DEF PutLease, HoldsHandle, Acquires, Runtime
    <2>3. ProcOf[r] \in handles' /\ lease' = ProcOf[r] BY <1>2 DEF PutLease
    <2>4. QED BY <2>2, <2>3 DEF LeaseInv
  <1>3. CASE LoadSnapshot(r) \/ ReplayPage(r) \/ Close(r)
    <2>1. PICK o : /\ rt' = [rt EXCEPT ![r] = o] /\ UNCHANGED <<lease, hosts>>
                   /\ o.phase \in {"replaying", "open", "closing"}
      <3>1. CASE LoadSnapshot(r)
        <4> DEFINE o == [R EXCEPT !.phase = "replaying", !.state = snapshot,
                                  !.snapSeq = Len(snapshot)]
        <4>1. o.phase = "replaying" BY <1>0 DEF Runtime
        <4>2. rt' = [rt EXCEPT ![r] = o] /\ UNCHANGED <<lease, hosts>>
          BY <3>1 DEF LoadSnapshot, file
        <4> HIDE DEF o
        <4>3. QED BY <4>1, <4>2
      <3>2. CASE ReplayPage(r)
        <4> DEFINE p == IF LastPage(r) THEN "open" ELSE "replaying"
                   o == [R EXCEPT !.state = Replayed(r), !.phase = p]
        <4>1. o.phase \in {"replaying", "open"} BY <1>0 DEF Runtime
        <4>2. rt' = [rt EXCEPT ![r] = o] /\ UNCHANGED <<lease, hosts>>
          BY <3>2 DEF ReplayPage, file
        <4> HIDE DEF o
        <4>3. QED BY <4>1, <4>2
      <3>3. CASE Close(r)
        <4> DEFINE o == [R EXCEPT !.phase = "closing"]
        <4>1. o.phase = "closing" BY <1>0 DEF Runtime
        <4>2. rt' = [rt EXCEPT ![r] = o] /\ UNCHANGED <<lease, hosts>>
          BY <3>3 DEF Close, file
        <4> HIDE DEF o
        <4>3. QED BY <4>1, <4>2
      <3>4. QED BY <1>3, <3>1, <3>2, <3>3
    <2>2. HoldsHandle(r) BY <1>3 DEF LoadSnapshot, ReplayPage, Close, In, HoldsHandle
    <2>3. QED BY <2>1, <2>2, KeepsHandle
  <1>4. ASSUME NEW c \in Calls, Record(r, c) PROVE LeaseInv'
    <2> DEFINE o == [R EXCEPT !.queue = Append(R.queue, c)]
    <2>1. o.phase = "open" BY <1>0, <1>4 DEF Runtime, Record, In
    <2>2. HoldsHandle(r) BY <1>4 DEF Record, In, HoldsHandle
    <2>3. rt' = [rt EXCEPT ![r] = o] /\ UNCHANGED <<lease, hosts>> BY <1>4 DEF Record, file
    <2> HIDE DEF o
    <2>4. QED BY <2>1, <2>2, <2>3, KeepsHandle
  <1>5. CASE OpenFails(r) \/ CloseHandle(r)
    <2>1. HoldsHandle(r) BY <1>5 DEF OpenFails, CloseHandle, In, HoldsHandle
    <2>2. rt' = [rt EXCEPT ![r] = Gone(R.settled)] BY <1>5 DEF OpenFails, CloseHandle
    <2>3. \A q \in Runtimes : ~ HoldsHandle(q)' /\ ~ Acquires(q)'
      BY <1>0, <2>1, <2>2 DEF LeaseInv, HoldsHandle, Acquires, Gone
    <2>4. QED BY <2>3 DEF LeaseInv
  <1>6. QED BY <1>1, <1>2, <1>3, <1>4, <1>5 DEF OpenStep

\* The steps of record() hold the handle before and after.
LEMMA ServeLease ==
  ASSUME TypeOK, LeaseInv, NEW r \in Runtimes, Serve(r)
  PROVE  LeaseInv'
  <1> DEFINE R == rt[r]
  <1>0. R \in Runtime /\ Folded(R).phase = R.phase /\ Folded(R) \in Runtime
    BY FoldedType DEF TypeOK, Folded, Runtime
  <1>1. R.phase \in {"open", "closing"} /\ HoldsHandle(r) /\ UNCHANGED <<lease, hosts>>
    BY DEF Serve, RecordTransient, AppendEvent, AppendFails, Complete, WriteSnapshot,
           SnapshotFails, SnapshotWritten, PostNotice, NoticeFails, Insert, Serving, In,
           HoldsHandle, file
  <1>2. \A x \in Runtime : \A out : Answered(x, out).phase = x.phase BY DEF Answered, Runtime
  <1>3. PICK o : rt' = [rt EXCEPT ![r] = o] /\ o.phase = R.phase
    <2>1. CASE RecordTransient(r) \/ AppendFails(r) \/ NoticeFails(r)
      BY <1>0, <1>2, <2>1 DEF RecordTransient, AppendFails, NoticeFails
    <2>2. CASE Complete(r)
      <3> DEFINE F == Folded(R)
      <3>1. PICK out : rt' = [rt EXCEPT ![r] = Answered(F, out)] BY <2>2 DEF Complete
      <3>2. F \in Runtime /\ F.phase = R.phase BY <1>0
      <3> HIDE DEF F
      <3>3. Answered(F, out).phase = R.phase BY <1>2, <3>2
      <3>4. QED BY <3>1, <3>3
    <2>3. CASE SnapshotWritten(r)
      <3>1. PICK out :
              rt' = [rt EXCEPT ![r] = [Answered(R, out) EXCEPT !.snapSeq = Len(R.state)]]
        BY <2>3 DEF SnapshotWritten
      <3> DEFINE o == [Answered(R, out) EXCEPT !.snapSeq = Len(R.state)]
      <3>2. o.phase = R.phase BY <1>0 DEF Answered, Runtime
      <3> HIDE DEF o
      <3>3. QED BY <3>1, <3>2 DEF o
    <2>4. CASE WriteSnapshot(r) \/ SnapshotFails(r)
      <3> DEFINE F == Folded(R)
      <3>1. PICK a : rt' = [rt EXCEPT ![r] = [F EXCEPT !.snapshotting = TRUE, !.at = a]]
        BY <2>4 DEF WriteSnapshot, SnapshotFails
      <3> DEFINE o == [F EXCEPT !.snapshotting = TRUE, !.at = a]
      <3>2. rt' = [rt EXCEPT ![r] = o] BY <3>1
      <3>3. F \in Runtime /\ F.phase = R.phase BY <1>0
      <3> HIDE DEF F
      <3>4. o.phase = R.phase BY <3>3 DEF Runtime
      <3> HIDE DEF o
      <3>5. QED BY <3>2, <3>4
    <2>5. CASE AppendEvent(r) \/ PostNotice(r)
      <3>1. PICK t : rt' = [rt EXCEPT ![r].pending = <<EventOf(r, t)>>, ![r].at = "appended"]
        BY <2>5 DEF AppendEvent, PostNotice, Insert
      <3> DEFINE o == [R EXCEPT !.pending = <<EventOf(r, t)>>, !.at = "appended"]
      <3>2. o.phase = R.phase BY <1>0 DEF Runtime
      <3>3. rt' = [rt EXCEPT ![r] = o] BY <3>1 DEF TypeOK
      <3> HIDE DEF o
      <3>4. QED BY <3>2, <3>3
    <2>6. QED BY <2>1, <2>2, <2>3, <2>4, <2>5 DEF Serve
  <1>4. QED BY <1>1, <1>3, KeepsHandle

\* In one process there is never a second write handle, and the log keeps the
\* order in which record() was called.
THEOREM OneWriter == ASSUME OneProcess PROVE Spec => []OneWriterInOrder
  <1>1. Init => LeaseInv
    BY DEF Init, LeaseInv, HoldsHandle, Acquires, Gone
  <1>2. LeaseInv /\ TypeOK /\ [Next]_vars => LeaseInv'
    <2> SUFFICES ASSUME LeaseInv, TypeOK, [Next]_vars PROVE LeaseInv' OBVIOUS
    <2>1. ASSUME NEW r \in Runtimes,
                 \/ SelectLease(r) \/ OpenStep(r) \/ Serve(r)
                 \/ \E c \in Calls : Record(r, c)
                 \/ Close(r) \/ CloseHandle(r)
          PROVE  LeaseInv'
      BY <2>1, OpenLease, ServeLease, ConstantsAssumption
    <2>2. ASSUME NEW p \in Procs, Crash(p) PROVE LeaseInv'
      <3>1. \A r \in Runtimes : rt'[r] = Gone(rt[r].settled)
        BY <2>2, ConstantsAssumption DEF Crash, OneProcess, ConstantsAssumption
      <3>2. \A s : Gone(s).phase = "none" BY DEF Gone
      <3>3. \A r \in Runtimes : rt'[r].phase = "none" BY <3>1, <3>2
      <3>4. QED BY <3>3 DEF LeaseInv, HoldsHandle, Acquires
    <2>3. ASSUME NEW p \in Procs, CloseStore(p) PROVE LeaseInv'
      <3>1. rt' = rt /\ \A r \in Runtimes : ProcOf[r] \notin storeOpen'
        BY <2>3, ConstantsAssumption DEF CloseStore, OneProcess, ConstantsAssumption
      <3>2. QED BY <3>1 DEF LeaseInv, HoldsHandle, Acquires
    <2>4. CASE \/ \E p \in Procs : FreePid(p) \/ ReusePid(p)
               \/ DamageSnapshot \/ UNCHANGED vars
      <3>1. UNCHANGED <<rt, lease, handles, storeOpen>>
        BY <2>4 DEF FreePid, ReusePid, DamageSnapshot, vars, file, hosts
      <3>2. QED BY <3>1 DEF LeaseInv, HoldsHandle, Acquires
    <2>5. QED BY <2>1, <2>2, <2>3, <2>4 DEF Next
  <1>3. LeaseInv => OneWriterPerProcess BY DEF LeaseInv, OneWriterPerProcess
  <1>4. OrderInv => SubmissionOrder BY DEF OrderInv, InOrder, SubmissionOrder
  <1>5. QED BY <1>1, <1>2, <1>3, <1>4, TypeCorrect, InductiveOrder, PTL
            DEF Spec, OneWriterInOrder
=============================================================================
