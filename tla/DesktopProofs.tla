---------------------------- MODULE DesktopProofs ----------------------------
(***************************************************************************)
(* Proofs about the machines around a session.  They share no state, so    *)
(* each has an invariant of its own, which every step of its machine and   *)
(* every step of another keeps.                                            *)
(***************************************************************************)
EXTENDS Desktop, SequenceTheorems, FiniteSetTheorems, WellFoundedInduction, TLAPS

-----------------------------------------------------------------------------
(* The session of a window: at most one piece of work at a time, and the   *)
(* entry `running` names it.                                               *)

\* Messages with pictures are left out: they look at `running` before an await and not
\* after it.
Dom == /\ "agent" \notin Requests /\ "none" \notin Requests
       /\ "image" \notin Ops /\ "none" \notin Ops

\* What the entry of `running` says, request by request: it is needed that an
\* operation holds the entry from its first check on, that only operations that
\* hold it drive or restore, and that nothing holds it when the process starts.
Held ==
  /\ running \in Requests \cup {"agent", "none"}
  /\ host = "up" => /\ agent # "idle" <=> running = "agent"
                    /\ \A r \in Requests : r \in Busy <=> running = r
Rests ==
  host = "down" => /\ agent = "idle" /\ running = "none"
                   /\ \A r \in Requests : req[r] = Free
OfRequests ==
  /\ req \in [Requests -> [op : Ops \cup {"none"}, at : Places]]
  /\ host \in {"up", "closing", "down"}
  /\ \A r \in Requests : /\ req[r].at # "put"
                         /\ req[r].at = "driving" => req[r].op \in {"card", "resume"}
                         /\ req[r].at = "restoring" => req[r].op = "restore"
                         /\ req[r].at = "abandoning" => req[r].op = "abandon"
EntryInv == OfRequests /\ Held /\ Rests

USE DEF Exclusive, Settling, Messages, Free

\* When a request is at work.
LEMMA BusyIs ==
  ASSUME Dom
  PROVE  \A r \in Requests :
           r \in Busy <=> \/ req[r].at = "driving"
                          \/ req[r].op \in Exclusive /\ req[r].at \notin {"free", "over"}
  BY DEF Busy, Dom

\* The same of the state after a step.
LEMMA BusyThen ==
  ASSUME Dom
  PROVE  \A r \in Requests :
           r \in Busy' <=> \/ req'[r].at = "driving"
                           \/ req'[r].op \in Exclusive /\ req'[r].at \notin {"free", "over"}
  BY DEF Busy, Dom

\* The end of a request, with or without its entry.
LEMMA GoesOver ==
  ASSUME Dom, EntryInv, NEW r \in Requests, Goes(r, "over"), host' = host, agent' = agent,
         running' \in {running, "none"}, host = "up" => running' = Left(r)
  PROVE  OfRequests' /\ Held' /\ (req[r].at # "free" => Rests')
<1>1. /\ req' \in [Requests -> [op : Ops \cup {"none"}, at : Places]]
      /\ req'[r].op = req[r].op /\ req'[r].at = "over"
      /\ \A q \in Requests \ {r} : req'[q] = req[q]
  BY DEF Goes, EntryInv, OfRequests, Places
<1>2. OfRequests'
  BY <1>1 DEF EntryInv, OfRequests
<1>3. Held'
  BY <1>1, BusyIs, BusyThen DEF EntryInv, Held, Left, Dom
<1>4. req[r].at # "free" => Rests'
  BY DEF EntryInv, Rests
<1> QED
  BY <1>2, <1>3, <1>4

\* A request goes from one place of its work to the next, and the entry stays.
LEMMA GoesOn ==
  ASSUME Dom, EntryInv, NEW r \in Requests, NEW place \in Places \ {"free", "over"}, Goes(r, place),
         req[r].at \in {"runtime", "opening", "recovering", "ready"},
         place \notin {"put", "abandoning"}, place = "driving" => req[r].op = "card", place = "restoring" => req[r].op = "restore",
         host' = host, agent' = agent, running' = running
  PROVE  EntryInv'
<1>1. /\ req' \in [Requests -> [op : Ops \cup {"none"}, at : Places]]
      /\ req'[r].op = req[r].op /\ req'[r].at = place
      /\ \A q \in Requests \ {r} : req'[q] = req[q]
  BY DEF Goes, EntryInv, OfRequests
<1>2. OfRequests'
  BY <1>1 DEF EntryInv, OfRequests
<1>3. Held'
  BY <1>1, BusyIs, BusyThen DEF EntryInv, Held, Dom
<1>4. Rests'
  BY DEF EntryInv, Rests
<1> QED
  BY <1>2, <1>3, <1>4 DEF EntryInv

\* What the requests do, one action after the other.
LEMMA ServeStep ==
  ASSUME Dom, EntryInv, NEW r \in Requests, Serve(r)
  PROVE  EntryInv'
<1>1. ASSUME NEW op \in Ops, Arrive(r, op) PROVE EntryInv'
  <2>1. PICK place \in {"over", "runtime"} :
          /\ req' = [req EXCEPT ![r] = [op |-> op, at |-> place]]
          /\ running' = IF op \in Exclusive /\ place = "runtime" THEN r ELSE running
          /\ place = "runtime" /\ op \in Exclusive => running = "none"
          /\ host = "up" /\ host' = "up" /\ agent' = agent /\ req[r] = Free
    BY <1>1 DEF Arrive
  <2>2. /\ req' \in [Requests -> [op : Ops \cup {"none"}, at : Places]]
        /\ req'[r].op = op /\ req'[r].at = place
        /\ \A q \in Requests \ {r} : req'[q] = req[q]
    BY <2>1 DEF EntryInv, OfRequests, Places
  <2>3. OfRequests'
    BY <2>1, <2>2 DEF EntryInv, OfRequests
  <2>4. Held'
    BY <2>1, <2>2, BusyIs, BusyThen DEF EntryInv, Held, Dom
  <2> QED
    BY <2>1, <2>3, <2>4 DEF EntryInv, Rests
<1>2. CASE AskRuntime(r)
  <2>1. CASE runtime = "open"
    BY <1>2, <2>1, GoesOn DEF AskRuntime, Places
  <2>2. CASE runtime = "absent"
    BY <1>2, <2>2, GoesOn DEF AskRuntime, Places
  <2>3. CASE runtime \notin {"open", "absent"}
    BY <1>2, <2>3, GoesOver DEF AskRuntime, Release, Left, EntryInv
  <2> QED
    BY <2>1, <2>2, <2>3
<1>3. CASE Opened(r)
  BY <1>3, GoesOn DEF Opened, Places
<1>4. CASE Recovered(r)
  BY <1>4, GoesOn DEF Recovered, Places
<1>5. CASE Message(r)
  <2>1. req[r].op # "image" /\ req[r].at = "ready" /\ req[r].op \in Messages
    BY <1>5 DEF Message, EntryInv, OfRequests, Dom
  <2>2. CASE running # "none" /\ agent = "idle"
    <3>1. host = "up" => Left(r) = running
      BY <2>1, BusyIs DEF EntryInv, Held, Left
    <3> QED
      BY <1>5, <2>1, <2>2, <3>1, GoesOver DEF Message, Over, EntryInv
  <2>3. CASE ~(running # "none" /\ agent = "idle")
    <3>1. Deliver(r) /\ host' = host
      BY <1>5, <2>1, <2>3 DEF Message
    <3>2. /\ req' \in [Requests -> [op : Ops \cup {"none"}, at : Places]]
          /\ req'[r].op = req[r].op /\ req'[r].at = "over"
          /\ \A q \in Requests \ {r} : req'[q] = req[q]
      BY <3>1 DEF Deliver, EntryInv, OfRequests, Places
    <3>3. OfRequests'
      BY <3>1, <3>2 DEF EntryInv, OfRequests
    <3>4. Held'
      BY <2>1, <2>3, <3>1, <3>2, BusyIs, BusyThen DEF EntryInv, Held, Dom, Deliver
    <3> QED
      BY <2>1, <3>1, <3>3, <3>4 DEF EntryInv, Rests
  <2> QED
    BY <2>2, <2>3
<1>6. CASE ImagesStored(r)
  BY <1>6 DEF ImagesStored, EntryInv, OfRequests
<1>7. CASE Restore(r)
  <2>1. CASE Release(r)
    BY <1>7, <2>1, GoesOver DEF Restore, Release, Left, EntryInv
  <2>2. CASE Goes(r, "restoring") /\ running' = running
    BY <1>7, <2>2, GoesOn DEF Restore, Places
  <2> QED
    BY <1>7, <2>1, <2>2 DEF Restore
<1>8. CASE Restored(r)
  BY <1>8, GoesOver DEF Restored, Release, Left, EntryInv
<1>9. CASE Card(r)
  <2>1. CASE Release(r)
    BY <1>9, <2>1, GoesOver DEF Card, Release, Left, EntryInv
  <2>2. CASE Goes(r, "driving") /\ running' = running
    BY <1>9, <2>2, GoesOn DEF Card, Places
  <2> QED
    BY <1>9, <2>1, <2>2 DEF Card
<1>10. CASE Resume(r)
  <2>1. CASE Over(r)
    <3>1. host = "up" => Left(r) = running
      BY <1>10, BusyIs DEF Resume, EntryInv, Held, Left
    <3> QED
      BY <1>10, <2>1, <3>1, GoesOver DEF Resume, Over, EntryInv
  <2>2. CASE running = "none" /\ running' = r /\ Goes(r, "driving")
    <3>1. /\ req' \in [Requests -> [op : Ops \cup {"none"}, at : Places]]
          /\ req'[r].op = "resume" /\ req'[r].at = "driving"
          /\ \A q \in Requests \ {r} : req'[q] = req[q]
          /\ host' = host /\ agent' = agent /\ req[r].at = "ready"
      BY <1>10, <2>2 DEF Resume, Goes, EntryInv, OfRequests, Places
    <3>2. OfRequests'
      BY <3>1 DEF EntryInv, OfRequests
    <3>3. Held'
      BY <2>2, <3>1, BusyIs, BusyThen DEF EntryInv, Held, Dom
    <3> QED
      BY <3>1, <3>2, <3>3 DEF EntryInv, Rests
  <2> QED
    BY <1>10, <2>1, <2>2 DEF Resume
<1>11. CASE DriveEnds(r)
  <2>1. host = "up" => running = r
    BY <1>11, BusyIs DEF DriveEnds, EntryInv, Held
  <2>2. /\ req' \in [Requests -> [op : Ops \cup {"none"}, at : Places]]
        /\ req'[r].op = req[r].op /\ req'[r].at = "over"
        /\ \A q \in Requests \ {r} : req'[q] = req[q]
        /\ host' = host /\ agent' = agent /\ req[r].at = "driving"
    BY <1>11 DEF DriveEnds, Goes, EntryInv, OfRequests, Places
  <2>3. OfRequests'
    BY <2>2 DEF EntryInv, OfRequests
  <2>4. Held'
    BY <1>11, <2>1, <2>2, BusyIs, BusyThen DEF EntryInv, Held, Dom, DriveEnds, Left
  <2> QED
    BY <2>2, <2>3, <2>4 DEF EntryInv, Rests
<1>12. CASE Abandon(r)
  <2>1. PICK place \in {"over", "abandoning"} : Goes(r, place)
    BY <1>12 DEF Abandon
  <2>2. /\ req' \in [Requests -> [op : Ops \cup {"none"}, at : Places]]
        /\ req'[r].op = "abandon" /\ req'[r].at = place
        /\ \A q \in Requests \ {r} : req'[q] = req[q]
        /\ req[r].op = "abandon" /\ req[r].at = "ready"
    BY <1>12, <2>1 DEF Abandon, Goes, EntryInv, OfRequests, Places
  <2> QED
    BY <1>12, <2>2, BusyIs, BusyThen DEF Abandon, EntryInv, OfRequests, Held, Rests, Dom
<1>13. CASE Abandoned(r)
  <2>1. /\ req' \in [Requests -> [op : Ops \cup {"none"}, at : Places]]
        /\ req'[r].op = req[r].op /\ req'[r].at = "over"
        /\ \A q \in Requests \ {r} : req'[q] = req[q]
    BY <1>13 DEF Abandoned, Goes, EntryInv, OfRequests, Places
  <2> QED
    BY <1>13, <2>1, BusyIs, BusyThen DEF Abandoned, EntryInv, OfRequests, Held, Rests, Dom
<1> QED
  BY <1>1, <1>2, <1>3, <1>4, <1>5, <1>6, <1>7, <1>8, <1>9, <1>10, <1>11, <1>12, <1>13 DEF Serve

\* The steps of the agent, of the window's stop button, and of the process.
LEMMA OtherStep ==
  ASSUME Dom, EntryInv,
         AgentStarts \/ AgentFails \/ AgentEnds \/ Interrupt
           \/ Close \/ RuntimeCloses \/ Die \/ Start
  PROVE  EntryInv'
<1>1. req' = req \/ Die
  BY DEF AgentStarts, AgentFails, AgentEnds, Interrupt, Close, RuntimeCloses, Start
<1>2. req' = req => Busy' \cap Requests = Busy \cap Requests
  BY BusyIs, BusyThen
<1>3. CASE AgentStarts
  BY <1>1, <1>2, <1>3 DEF AgentStarts, EntryInv, OfRequests, Held, Rests
<1>4. CASE AgentFails \/ AgentEnds
  <2>1. agent \in {"starting", "turn"} /\ NextBatch /\ host' = host /\ req' = req
    BY <1>4 DEF AgentFails, AgentEnds
  <2>2. Held'
    BY <1>2, <2>1 DEF EntryInv, Held, NextBatch, Left, Dom
  <2> QED
    BY <2>1, <2>2 DEF EntryInv, OfRequests, Rests
<1>5. CASE Interrupt \/ RuntimeCloses
  BY <1>2, <1>5 DEF Interrupt, RuntimeCloses, EntryInv, OfRequests, Held, Rests
<1>6. CASE Close
  BY <1>6 DEF Close, EntryInv, OfRequests, Held, Rests
<1>7. CASE Die
  BY <1>7 DEF Die, EntryInv, OfRequests, Held, Rests, Places
<1>8. CASE Start
  <2>1. \A r \in Requests : r \notin Busy' /\ running' # r
    BY <1>8, BusyThen DEF Start, EntryInv, Rests, Dom
  <2> QED
    BY <1>8, <2>1 DEF Start, EntryInv, OfRequests, Held, Rests
<1> QED
  BY <1>3, <1>4, <1>5, <1>6, <1>7, <1>8

\* The entry names what works.
LEMMA EntryIsTrue ==
  ASSUME Dom, EntryInv
  PROVE  OperationsExclude
<1>1. host = "up" => \A h \in Requests \cup {"agent"} : h \in Busy <=> running = h
  BY BusyIs DEF EntryInv, Held, Busy, Dom
<1>2. Busy \subseteq Requests \cup {"agent"}
  BY DEF Busy
<1>3. RunningIsTrue
  BY <1>1, <1>2 DEF RunningIsTrue, EntryInv, Held
<1>4. host = "up" => Busy = {} \/ Busy = {running}
  BY <1>1, <1>2 DEF EntryInv, Held
<1>5. OneIsBusy
  <2>1. Cardinality({}) = 0 /\ Cardinality({running}) = 1
    BY FS_EmptySet, FS_Singleton
  <2>2. host = "up" => Cardinality(Busy) \in {0, 1}
    BY <1>4, <2>1
  <2>3. \A n \in {0, 1} : n <= 1
    OBVIOUS
  <2> QED
    BY <2>2, <2>3 DEF OneIsBusy
<1> QED
  BY <1>3, <1>5 DEF OperationsExclude

HIDE DEF Exclusive, Settling, Messages, Free

\* The agent's turns, resumed turns, restores and card actions keep out of one
\* another's way, however requests, stops, shutdowns and restarts interleave, and
\* what the list of sessions shows as running, and the stop button reaches, is at work
\* (withExclusiveSessionOperation, onActive and onIdle of desktop-host.ts).
THEOREM OneAtATime ==
  ASSUME "image" \notin Ops
  PROVE  MachinesSpec => []OperationsExclude
<1>1. Dom
  BY DesktopAssumption DEF DesktopAssumption, Dom
<1>2. MachinesInit => EntryInv
  BY <1>1 DEF MachinesInit, Dom, Init, Fresh, Free, EntryInv, OfRequests, Held, Rests, Places
<1>3. EntryInv /\ [MachinesNext]_machineVars => EntryInv'
  <2> SUFFICES ASSUME EntryInv, [MachinesNext]_machineVars PROVE EntryInv'
    OBVIOUS
  <2>1. Next \/ UNCHANGED vars
    BY DEF MachinesNext, Moves, machineVars
  <2>2. CASE UNCHANGED vars
    BY <1>1, <2>2, BusyIs, BusyThen DEF vars, volatile, EntryInv, OfRequests, Held, Rests, Free
  <2>3. CASE Next
    BY <1>1, <2>3, ServeStep, OtherStep DEF Next
  <2> QED
    BY <2>1, <2>2, <2>3
<1>4. EntryInv => OperationsExclude
  BY <1>1, EntryIsTrue
<1> QED
  BY <1>2, <1>3, <1>4, PTL DEF MachinesSpec

-----------------------------------------------------------------------------
(* The state of a session: the log is what was recorded, and the list of   *)
(* edits is of proposals the log knows.                                    *)

\* The log is a sequence of what was recorded.
LogIsASequence == events \in Seq(Session!ToSet(events))

\* What is appended comes last.
LEMMA LastOfAppend ==
  ASSUME NEW s, NEW e, s \in Seq(Session!ToSet(s))
  PROVE  /\ Append(s, e) \in Seq(Session!ToSet(Append(s, e)))
         /\ Session!Last(Append(s, e)) = e
<1>1. Append(s, e) \in Seq(Session!ToSet(s) \cup {e})
  OBVIOUS
<1>2. /\ Len(s) \in Nat /\ Len(Append(s, e)) = Len(s) + 1
      /\ DOMAIN Append(s, e) = 1..Len(s) + 1
      /\ Append(s, e)[Len(s) + 1] = e
  OBVIOUS
<1>3. \A i \in 1..Len(Append(s, e)) : Append(s, e)[i] \in Session!ToSet(Append(s, e))
  BY <1>2 DEF Session!ToSet
<1>4. Append(s, e) \in Seq(Session!ToSet(Append(s, e)))
  <2> DEFINE new == Append(s, e)
             held == Session!ToSet(new)
  <2>1. new \in Seq(Session!ToSet(s) \cup {e}) /\ Len(new) = Len(s) + 1
    BY <1>1, <1>2
  <2>2. \A i \in 1..Len(s) + 1 : new[i] \in held
    BY <1>2, <1>3
  <2> HIDE DEF new, held
  <2>3. new \in [1..Len(s) + 1 -> held]
    BY <1>2, <2>1, <2>2, ElementOfSeq
  <2>4. new \in Seq(held)
    BY <1>2, <2>3
  <2> QED
    BY <2>4 DEF new, held
<1> QED
  BY <1>2, <1>4 DEF Session!Last

\* Only a step that records trust.cleared changes a mark that is set.
LEMMA TaintStep ==
  ASSUME NEW st, NEW e, st.taint # Session!None, e.type # "trust.cleared"
  PROVE  Session!Reduce(st, e).taint = st.taint
<1>1. Session!Taint(st, e) = st.taint
  BY DEF Session!Taint
<1>2. CASE e.type \in Session!TransientTypes
  BY <1>2 DEF Session!Reduce
<1>3. CASE e.type \notin Session!TransientTypes
  BY <1>1, <1>3 DEF Session!Reduce
<1> QED
  BY <1>2, <1>3


\* The entries of the list are of proposals the log knows.
Entry(ids) == [id : ids, applied : BOOLEAN, reviewed : BOOLEAN]
ProposalsAreLogged == reduced.proposals \in Seq(Entry(Session!Known("edit.proposed")))

SessionInv == LogIsASequence /\ ProposalsAreLogged

\* A proposal is recorded once.
LEMMA RecordedOnce ==
  ASSUME NEW e \in Session!Recordable
  PROVE  e.type = "edit.proposed" => e.id \notin Session!Known("edit.proposed")
  BY SMTT(60) DEF Session!Recordable, Session!Event

\* What the log knows stays known.
LEMMA KnownGrows ==
  ASSUME LogIsASequence, NEW e, Session!Record(e), NEW type
  PROVE  /\ Session!Known(type) \subseteq Session!Known(type)'
         /\ e.type = type => e.id \in Session!Known(type)'
<1>1. Session!ToSet(events) \subseteq Session!ToSet(events') /\ e \in Session!ToSet(events')
  <2>1. events' = Append(events, e)
    BY DEF Session!Record
  <2> QED
    BY <2>1 DEF LogIsASequence, Session!ToSet
<1> QED
  BY <1>1 DEF Session!Known, Session!Types

\* A set of numbers that is not empty has a least one.
LEMMA LeastOfNat ==
  ASSUME NEW S, S \subseteq Nat, S # {}
  PROVE  \E least \in S : \A j \in S : least <= j
<1>1. PICK least \in S : \A j \in S : ~ (<<j, least>> \in OpToRel(<, Nat))
  BY NatLessThanWellFounded, WFMin
<1>2. \A j \in S : ~ (j < least)
  BY <1>1 DEF OpToRel
<1> QED
  BY <1>2, SMT

\* Without an entry of its own, a new proposal comes last and at most one entry goes: the
\* oldest finished one, or the oldest of all when none is finished.
LEMMA OneIsGivenUp ==
  ASSUME NEW ids, NEW s \in Seq(Entry(ids)), NEW id, id \notin ids
  PROVE  LET new == [id |-> id, applied |-> FALSE, reviewed |-> FALSE]
         IN  \/ Session!AppendEditProposal(s, id) = Append(s, new)
             \/ \E victim \in 1..Len(s) + 1 :
                  /\ Session!AppendEditProposal(s, id) =
                       SubSeq(Append(s, new), 1, victim - 1)
                         \o SubSeq(Append(s, new), victim + 1, Len(s) + 1)
                  /\ \/ Session!IsTerminal(Append(s, new)[victim])
                     \/ \A i \in 1..Len(s) : ~ Session!IsTerminal(s[i])
<1> DEFINE new == [id |-> id, applied |-> FALSE, reviewed |-> FALSE]
           kept == Append(s, new)
           finished == Session!SelectInSeq(kept, Session!IsTerminal)
           victim == IF finished = 0 THEN 1 ELSE finished
<1>1. \A i \in 1..Len(s) : s[i] \in Entry(ids) /\ s[i].id # id
  <2>1. \A i \in 1..Len(s) : s[i] \in Entry(ids)
    OBVIOUS
  <2> QED
    BY <2>1 DEF Entry
<1>2. Session!RemoveFirstMatch(s, LAMBDA item : item.id = id) = s
  BY <1>1 DEF Session!RemoveFirstMatch
<1>3. Len(kept) = Len(s) + 1 /\ \A i \in 1..Len(s) : kept[i] = s[i]
  OBVIOUS
<1>4. Session!AppendEditProposal(s, id) =
        IF Len(kept) <= EDIT_PROPOSAL_LIMIT THEN kept ELSE Session!RemoveAt(kept, victim)
  BY <1>2 DEF Session!AppendEditProposal
<1>5. /\ victim \in 1..Len(s) + 1
      /\ Session!IsTerminal(kept[victim]) \/ \A i \in 1..Len(s) : ~ Session!IsTerminal(s[i])
  <2> DEFINE I == {i \in 1..Len(kept) : Session!IsTerminal(kept[i])}
  <2>1. CASE I = {}
    <3>1. finished = 0
      BY <2>1 DEF Session!SelectInSeq
    <3> QED
      BY <1>3, <2>1, <3>1
  <2>2. CASE I # {}
    <3>1. finished = Session!Min(I)
      BY <2>2 DEF Session!SelectInSeq
    <3>2. PICK least \in I : \A j \in I : least <= j
      <4>1. I \subseteq Nat
        OBVIOUS
      <4> HIDE DEF I
      <4> QED
        BY <2>2, <4>1, LeastOfNat
    <3>3. finished \in I
      BY <3>1, <3>2 DEF Session!Min
    <3>4. finished \in 1..Len(s) + 1 /\ Session!IsTerminal(kept[finished])
      BY <1>3, <3>3
    <3> HIDE DEF finished, kept
    <3> QED
      BY <3>4
  <2> QED
    BY <2>1, <2>2
<1> QED
  BY <1>3, <1>4, <1>5 DEF Session!RemoveAt

\* A sequence without one of its places has what was in the others.
LEMMA OneLess ==
  ASSUME NEW S, NEW t \in Seq(S), NEW k \in 1..Len(t)
  PROVE  LET rest == SubSeq(t, 1, k - 1) \o SubSeq(t, k + 1, Len(t))
         IN  rest \in Seq(S) /\ \A i \in 1..Len(t) : i # k => \E j \in DOMAIN rest : rest[j] = t[i]
<1> DEFINE front == SubSeq(t, 1, k - 1)
           back == SubSeq(t, k + 1, Len(t))
           rest == front \o back
<1>1. /\ front \in Seq(S) /\ Len(front) = k - 1 /\ \A i \in 1..k - 1 : front[i] = t[i]
      /\ back \in Seq(S) /\ Len(back) = Len(t) - k /\ \A i \in 1..Len(t) - k : back[i] = t[k + i]
  OBVIOUS
<1> HIDE DEF front, back
<1>2. /\ rest \in Seq(S) /\ Len(rest) = Len(t) - 1
      /\ \A i \in 1..Len(t) - 1 : rest[i] = IF i <= k - 1 THEN front[i] ELSE back[i - (k - 1)]
  <2>1. /\ rest \in Seq(S) /\ Len(rest) = Len(front) + Len(back)
        /\ \A i \in 1..Len(front) + Len(back) : rest[i] = IF i <= Len(front) THEN front[i] ELSE back[i - Len(front)]
    BY <1>1, ConcatProperties
  <2> HIDE DEF rest
  <2>2. Len(front) + Len(back) = Len(t) - 1
    BY <1>1
  <2> QED
    BY <1>1, <2>1, <2>2
<1> HIDE DEF rest
<1>3. ASSUME NEW i \in 1..k - 1 PROVE i \in DOMAIN rest /\ rest[i] = t[i]
  <2>1. i \in 1..Len(t) - 1 /\ i <= k - 1
    OBVIOUS
  <2> QED
    BY <1>1, <1>2, <2>1
<1>4. ASSUME NEW i \in k + 1..Len(t) PROVE i - 1 \in DOMAIN rest /\ rest[i - 1] = t[i]
  <2>1. /\ i - k \in 1..Len(t) - k /\ k + (i - k) = i /\ (i - 1) - (k - 1) = i - k
        /\ i - 1 \in 1..Len(t) - 1 /\ ~ (i - 1 <= k - 1)
    OBVIOUS
  <2>2. rest[i - 1] = back[i - k] /\ back[i - k] = t[k + (i - k)]
    BY <1>1, <1>2, <2>1
  <2> QED
    BY <1>2, <2>1, <2>2
<1>5. ASSUME NEW i \in 1..Len(t), i # k PROVE \E j \in DOMAIN rest : rest[j] = t[i]
  <2>1. CASE i < k
    BY <1>3, <2>1
  <2>2. CASE i > k
    BY <1>4, <2>2
  <2> QED
    BY <1>5, <2>1, <2>2
<1> QED
  BY <1>2, <1>5 DEF rest, front, back

\* The list keeps what it is made of.
LEMMA EntriesKept ==
  ASSUME LogIsASequence, ProposalsAreLogged, NEW e \in Session!Recordable, Session!Record(e)
  PROVE  ProposalsAreLogged'
<1> DEFINE ids == Session!Known("edit.proposed")
           s == reduced.proposals
           new == [id |-> e.id, applied |-> FALSE, reviewed |-> FALSE]
<1>1. s \in Seq(Entry(ids)) /\ s \in Seq(Entry(ids'))
  <2>1. Entry(ids) \subseteq Entry(ids')
    BY KnownGrows DEF Entry
  <2>2. s \in Seq(Entry(ids))
    BY DEF ProposalsAreLogged
  <2> HIDE DEF ids, s
  <2> QED
    BY <2>1, <2>2, SeqMonotonic
<1>2. reduced'.proposals = s \/ reduced'.proposals = Session!EditProposals(reduced, e)
  BY DEF Session!Record, Session!Reduce
<1>3. CASE e.type = "edit.proposed"
  <2>1. new \in Entry(ids') /\ e.id \notin ids
    BY <1>3, KnownGrows, RecordedOnce DEF Entry
  <2>2. Session!EditProposals(reduced, e) = Session!AppendEditProposal(s, e.id)
    BY <1>3 DEF Session!EditProposals
  <2>3. Append(s, new) \in Seq(Entry(ids')) /\ Len(Append(s, new)) = Len(s) + 1
    BY <1>1, <2>1
  <2> HIDE DEF ids, s, new
  <2>4. Session!AppendEditProposal(s, e.id) \in Seq(Entry(ids'))
    <3>1. CASE Session!AppendEditProposal(s, e.id) = Append(s, new)
      BY <2>3, <3>1
    <3>2. ASSUME NEW victim \in 1..Len(s) + 1,
                 Session!AppendEditProposal(s, e.id) =
                   SubSeq(Append(s, new), 1, victim - 1) \o SubSeq(Append(s, new), victim + 1, Len(s) + 1)
          PROVE  Session!AppendEditProposal(s, e.id) \in Seq(Entry(ids'))
      BY <2>3, <3>2, OneLess
    <3> QED
      BY <1>1, <2>1, <3>1, <3>2, OneIsGivenUp DEF new
  <2> QED
    BY <1>1, <1>2, <2>2, <2>4 DEF ProposalsAreLogged, ids, s
<1>4. ASSUME NEW field \in {"applied", "reviewed"}
      PROVE  Session!PatchEditProposal(s, e.id, field) \in Seq(Entry(ids'))
  <2>1. \A x \in Entry(ids') : [x EXCEPT ![field] = TRUE] \in Entry(ids')
    BY DEF Entry
  <2> DEFINE to == Session!PatchEditProposal(s, e.id, field)
  <2>2. to = [i \in 1..Len(s) |-> IF s[i].id = e.id THEN [s[i] EXCEPT ![field] = TRUE] ELSE s[i]]
    BY <1>1 DEF Session!PatchEditProposal
  <2>3. \A i \in 1..Len(s) : s[i] \in Entry(ids')
    BY <1>1
  <2> HIDE DEF s, ids
  <2>4. to \in [1..Len(s) -> Entry(ids')]
    BY <2>1, <2>2, <2>3
  <2> HIDE DEF to
  <2>5. to \in Seq(Entry(ids')) 
    BY <1>1, <2>4
  <2> QED
    BY <2>5 DEF to, s, ids
<1>5. CASE e.type # "edit.proposed"
  BY <1>1, <1>2, <1>4, <1>5 DEF Session!EditProposals, ProposalsAreLogged
<1> QED
  BY <1>3, <1>5

\* The log and the list.
LEMMA SessionKept == SessionInv /\ [MachinesNext]_machineVars => SessionInv'
<1> SUFFICES ASSUME SessionInv, [MachinesNext]_machineVars PROVE SessionInv'
  OBVIOUS
<1>1. Session!Next \/ UNCHANGED stateVars
  BY DEF MachinesNext, Moves, machineVars
<1>2. CASE UNCHANGED stateVars
  BY <1>2 DEF stateVars, SessionInv, LogIsASequence, ProposalsAreLogged, Session!Known, Session!Types
<1>3. CASE Session!Next
  <2>1. PICK e \in Session!Recordable : Session!Record(e)
    BY <1>3 DEF Session!Next
  <2>2. LogIsASequence'
    BY <2>1, LastOfAppend DEF Session!Record, SessionInv, LogIsASequence
  <2> QED
    BY <2>1, <2>2, EntriesKept DEF SessionInv
<1> QED
  BY <1>1, <1>2, <1>3

LEMMA SessionStarts == MachinesInit => SessionInv
BY DEF MachinesInit, Session!Init, Session!EmptySessionState, SessionInv, LogIsASequence, ProposalsAreLogged

\* Only a user's clearing takes the mark away.
LEMMA MarkStays ==
  ASSUME SessionInv, NEW e \in Session!Recordable, Session!Record(e), reduced.taint # Session!None
  PROVE  reduced'.taint = reduced.taint \/ Session!Last(events').type = "trust.cleared"
<1>1. Session!Last(events') = e
  BY LastOfAppend DEF Session!Record, SessionInv, LogIsASequence
<1>2. CASE e.type # "trust.cleared"
  BY <1>2, TaintStep DEF Session!Record
<1> QED
  BY <1>1, <1>2

\* The list gives up an open edit only when all of its edits are open.
LEMMA OpenStay ==
  ASSUME SessionInv, NEW e \in Session!Recordable, Session!Record(e),
         NEW item \in Session!ToSet(reduced.proposals), ~ Session!IsTerminal(item),
         \A kept \in Session!ToSet(reduced'.proposals) : kept.id # item.id
  PROVE  \A other \in Session!ToSet(reduced.proposals) : ~ Session!IsTerminal(other)
<1> DEFINE ids == Session!Known("edit.proposed")
           s == reduced.proposals
           new == [id |-> e.id, applied |-> FALSE, reviewed |-> FALSE]
<1>1. s \in Seq(Entry(ids))
  BY DEF SessionInv, ProposalsAreLogged
<1>2. PICK at \in 1..Len(s) : s[at] = item
  BY <1>1 DEF Session!ToSet
<1>3. reduced'.proposals = s \/ reduced'.proposals = Session!EditProposals(reduced, e)
  BY DEF Session!Record, Session!Reduce
<1>4. reduced'.proposals # s
  BY <1>2
<1>5. ASSUME NEW field \in {"applied", "reviewed"}
      PROVE  reduced'.proposals # Session!PatchEditProposal(s, e.id, field)
  <2> DEFINE to == Session!PatchEditProposal(s, e.id, field)
  <2>1. to = [i \in 1..Len(s) |-> IF s[i].id = e.id THEN [s[i] EXCEPT ![field] = TRUE] ELSE s[i]]
    BY <1>1 DEF Session!PatchEditProposal
  <2>2. \A x \in Entry(ids) : [x EXCEPT ![field] = TRUE].id = x.id
    BY DEF Entry
  <2>3. DOMAIN to = 1..Len(s) /\ to[at].id = item.id
    <3>1. s[at] \in Entry(ids)
      BY <1>1, <1>2
    <3> HIDE DEF to, s, ids
    <3> QED
      BY <1>2, <2>1, <2>2, <3>1
  <2>4. to[at] \in Session!ToSet(to)
    BY <2>3 DEF Session!ToSet
  <2> HIDE DEF to
  <2> QED
    BY <2>3, <2>4 DEF to
<1>6. CASE e.type = "edit.proposed"
  <2>1. e.id \notin ids
    BY <1>6, RecordedOnce
  <2>2. reduced'.proposals = Session!AppendEditProposal(s, e.id)
    BY <1>3, <1>4, <1>6 DEF Session!EditProposals
  <2>3. /\ Append(s, new) \in Seq(Entry(ids \cup {e.id})) /\ Len(Append(s, new)) = Len(s) + 1
        /\ \A i \in 1..Len(s) : Append(s, new)[i] = s[i]
    <3>1. new \in Entry(ids \cup {e.id}) /\ s \in Seq(Entry(ids \cup {e.id}))
      <4>1. Entry(ids) \subseteq Entry(ids \cup {e.id}) /\ new \in Entry(ids \cup {e.id})
        BY DEF Entry
      <4> HIDE DEF ids, s, new
      <4> QED
        BY <1>1, <4>1, SeqMonotonic
    <3> HIDE DEF ids, s, new
    <3> QED
      BY <3>1
  <2>4. PICK victim \in 1..Len(s) + 1 :
           /\ reduced'.proposals = SubSeq(Append(s, new), 1, victim - 1)
                                      \o SubSeq(Append(s, new), victim + 1, Len(s) + 1)
           /\ \/ Session!IsTerminal(Append(s, new)[victim])
              \/ \A i \in 1..Len(s) : ~ Session!IsTerminal(s[i])
    <3>1. Session!ToSet(s) \subseteq Session!ToSet(Append(s, new))
      BY <1>1, <2>3 DEF Session!ToSet
    <3>2. reduced'.proposals # Append(s, new)
      BY <3>1
    <3> HIDE DEF ids, s
    <3> QED
      BY <1>1, <2>1, <2>2, <3>2, OneIsGivenUp
  <2>5. victim = at
    <3>1. at \in 1..Len(Append(s, new)) /\ Append(s, new)[at] = item /\ victim \in 1..Len(Append(s, new))
      BY <1>2, <2>3
    <3>2. ASSUME at # victim PROVE item \in Session!ToSet(reduced'.proposals)
      <4> DEFINE t == Append(s, new)
                 rest == SubSeq(t, 1, victim - 1) \o SubSeq(t, victim + 1, Len(t))
      <4>1. reduced'.proposals = rest
        BY <2>3, <2>4
      <4>2. t \in Seq(Entry(ids \cup {e.id})) /\ at \in 1..Len(t) /\ t[at] = item /\ victim \in 1..Len(t)
        BY <2>3, <3>1
      <4> HIDE DEF t
      <4>3. \E j \in DOMAIN rest : rest[j] = item
        BY <3>2, <4>2, OneLess
      <4> QED
        BY <4>1, <4>3 DEF Session!ToSet
    <3> QED
      BY <3>2
  <2> QED
    BY <1>1, <1>2, <2>3, <2>4, <2>5 DEF Session!ToSet
<1>7. CASE e.type # "edit.proposed"
  BY <1>3, <1>4, <1>5, <1>7 DEF Session!EditProposals
<1> QED
  BY <1>6, <1>7

\* Only a user's clearing takes the mark of untrusted content away, and no later
\* source replaces it; an edit nobody has decided on is given up last (reduce.ts,
\* bounded-index.ts).
THEOREM TaintIsSticky == MachinesSpec => TaintSticks
<1>1. SessionInv /\ [MachinesNext]_machineVars =>
        /\ [reduced.taint # Session!None =>
              reduced'.taint = reduced.taint \/ Session!Last(events').type = "trust.cleared"]_stateVars
        /\ [\A item \in Session!ToSet(reduced.proposals) :
              ~ Session!IsTerminal(item) /\ (\A kept \in Session!ToSet(reduced'.proposals) : kept.id # item.id)
              => \A other \in Session!ToSet(reduced.proposals) : ~ Session!IsTerminal(other)]_stateVars
  <2> SUFFICES ASSUME SessionInv, [MachinesNext]_machineVars, ~ UNCHANGED stateVars
               PROVE  /\ reduced.taint # Session!None =>
                           reduced'.taint = reduced.taint \/ Session!Last(events').type = "trust.cleared"
                      /\ \A item \in Session!ToSet(reduced.proposals) :
                           ~ Session!IsTerminal(item)
                             /\ (\A kept \in Session!ToSet(reduced'.proposals) : kept.id # item.id)
                           => \A other \in Session!ToSet(reduced.proposals) : ~ Session!IsTerminal(other)
    OBVIOUS
  <2>1. PICK e \in Session!Recordable : Session!Record(e)
    BY DEF MachinesNext, Moves, machineVars, Session!Next
  <2> QED
    BY <2>1, MarkStays, OpenStay
<1> QED
  BY <1>1, SessionStarts, SessionKept, PTL DEF MachinesSpec, TaintSticks, Session!TaintSticks,
     Session!OpenProposalsStay, stateVars, Session!vars

-----------------------------------------------------------------------------
(* Folds.  What a fold computes is the end of a run over the events, so   *)
(* one event more is one step more.                                        *)

\* Induction, over the set of the numbers for which it holds.
LEMMA Induction ==
  ASSUME NEW S, S \subseteq Nat, 0 \in S, \A n \in S : n + 1 \in S
  PROVE  S = Nat
<1> DEFINE T == Nat \ S
<1>1. SUFFICES ASSUME T # {} PROVE FALSE
  OBVIOUS
<1>2. PICK x \in T : \A y \in T : x <= y
  BY <1>1, LeastOfNat
<1>3. x - 1 \in S
  BY <1>2
<1> QED
  BY <1>2, <1>3

\* A set of numbers up to n has a greatest one.
LEMMA GreatestIs ==
  ASSUME NEW n \in Nat, NEW T, T \subseteq 1..n, T # {}
  PROVE  Session!Max(T) \in T /\ \A y \in T : y <= Session!Max(T)
<1> DEFINE Above == {b \in Nat : \A y \in T : y <= b}
<1>1. Above \subseteq Nat /\ n \in Above
  OBVIOUS
<1>2. PICK b \in Above : \A c \in Above : b <= c
  <2> HIDE DEF Above
  <2> QED
    BY <1>1, LeastOfNat
<1>3. b \in T
  <2> SUFFICES ASSUME b \notin T PROVE FALSE
    OBVIOUS
  <2>1. b # 0
    <3>1. PICK y \in T : y \in 1..n
      OBVIOUS
    <3>2. y <= b /\ b \in Nat
      OBVIOUS
    <3> QED
      BY <3>1, <3>2
  <2>2. b - 1 \in Above
    BY <2>1
  <2> QED
    BY <1>2, <2>2
<1>4. \E x \in T : \A y \in T : x >= y
  BY <1>3
<1> QED
  BY <1>4 DEF Session!Max

-----------------------------------------------------------------------------
\* The two folds over the events of a session: reduce() and the traces.
Folded(which, x, e) == IF which = "state" THEN Session!Reduce(x, e) ELSE Session!TraceStep(x, e)

\* A run of a fold, event by event.
Runs(which, f, base, s) ==
  f[0] = base /\ \A k \in 1..Len(s) : f[k] = Folded(which, f[k - 1], s[k])

\* What MapThenFoldSet computes, set by set of the places of s.
FoldedSet(which, h, base, s, t) ==
  IF t = {} THEN base ELSE Folded(which, h[t \ {Session!Max(t)}], s[Session!Max(t)])
FoldsSets(which, h, base, s, N) == h = [t \in SUBSET (1..N) |-> FoldedSet(which, h, base, s, t)]

\* A function that folds every set of places exists.
LEMMA FoldExists ==
  ASSUME NEW which, NEW base, NEW s, NEW N \in Nat
  PROVE  \E h : FoldsSets(which, h, base, s, N)
<1> USE DEF FoldsSets
<1> DEFINE Folds(h, n) == FoldsSets(which, h, base, s, n)
           S == {n \in Nat : \E h : Folds(h, n)}
<1>1. 0 \in S
  <2>1. SUBSET (1..0) = {{}}
    OBVIOUS
  <2> DEFINE h == [t \in {{}} |-> base]
  <2>2. h = [t \in SUBSET (1..0) |-> FoldedSet(which, h, base, s, t)]
    BY <2>1 DEF FoldedSet
  <2> QED
    BY <2>2
<1>2. ASSUME NEW n \in S PROVE n + 1 \in S
  <2>1. PICK h : Folds(h, n)
    OBVIOUS
  <2>2. \A t \in SUBSET (1..n) : h[t] = FoldedSet(which, h, base, s, t)
    BY <2>1
  <2> DEFINE g == [t \in SUBSET (1..n + 1) |->
                     IF n + 1 \in t THEN Folded(which, h[t \ {n + 1}], s[n + 1]) ELSE h[t]]
  <2>3. ASSUME NEW t \in SUBSET (1..n + 1) PROVE g[t] = FoldedSet(which, g, base, s, t)
    <3>1. ASSUME NEW u \in SUBSET (1..n + 1), n + 1 \notin u PROVE u \in SUBSET (1..n) /\ g[u] = h[u]
      BY <3>1
    <3>2. CASE n + 1 \in t
      <4>1. Session!Max(t) = n + 1
        <5>1. n + 1 \in Nat /\ t \subseteq 1..n + 1 /\ t # {}
          BY <3>2
        <5>2. Session!Max(t) \in t /\ \A y \in t : y <= Session!Max(t)
          BY <5>1, GreatestIs
        <5>3. Session!Max(t) \in 1..n + 1 /\ n + 1 <= Session!Max(t)
          BY <3>2, <5>1, <5>2
        <5> QED
          BY <5>3
      <4>2. g[t \ {n + 1}] = h[t \ {n + 1}]
        BY <3>1
      <4>3. g[t] = Folded(which, h[t \ {n + 1}], s[n + 1])
        BY <3>2
      <4> HIDE DEF g
      <4> QED
        BY <3>2, <4>1, <4>2, <4>3 DEF FoldedSet
    <3>3. CASE n + 1 \notin t
      <4>1. t \in SUBSET (1..n) /\ g[t] = FoldedSet(which, h, base, s, t)
        BY <2>2, <3>1, <3>3
      <4>2. g[t \ {Session!Max(t)}] = h[t \ {Session!Max(t)}]
        BY <3>1, <3>3
      <4> HIDE DEF g
      <4> QED
        BY <4>1, <4>2 DEF FoldedSet
    <3> QED
      BY <3>2, <3>3
  <2>4. g = [t \in SUBSET (1..n + 1) |-> g[t]]
    OBVIOUS
  <2> HIDE DEF g
  <2>5. Folds(g, n + 1)
    BY <2>3, <2>4, Zenon
  <2> QED
    BY <2>5
<1> HIDE DEF S
<1>3. S = Nat
  BY <1>1, <1>2, Induction DEF S
<1> QED
  BY <1>3 DEF S

\* What a fold computes is the end of a run.
LEMMA FoldRuns ==
  ASSUME NEW which, NEW base, NEW s, NEW h, Len(s) \in Nat, FoldsSets(which, h, base, s, Len(s))
  PROVE  \E f : Runs(which, f, base, s) /\ h[1..Len(s)] = f[Len(s)]
<1> DEFINE N == Len(s)
           f == [k \in 0..N |-> h[1..k]]
<1>0. N \in Nat
  OBVIOUS
<1>1. \A t \in SUBSET (1..N) : h[t] = FoldedSet(which, h, base, s, t)
  BY DEF FoldsSets
<1>2. f[0] = base
  <2>1. 1..0 = {} /\ {} \in SUBSET (1..N) /\ 0 \in 0..N
    BY <1>0
  <2>2. h[{}] = base
    BY <1>1, <2>1 DEF FoldedSet
  <2> QED
    BY <2>1, <2>2
<1>3. ASSUME NEW k \in 1..N PROVE f[k] = Folded(which, f[k - 1], s[k])
  <2>1. k \in Nat /\ k <= N /\ 1..k \in SUBSET (1..N) /\ k \in 1..k
    BY <1>0
  <2>2. Session!Max(1..k) = k
    <3>1. Session!Max(1..k) \in 1..k /\ \A y \in 1..k : y <= Session!Max(1..k)
      BY <2>1, GreatestIs
    <3> QED
      BY <2>1, <3>1
  <2>3. (1..k) \ {k} = 1..k - 1
    BY <2>1
  <2>4. h[1..k] = FoldedSet(which, h, base, s, 1..k)
    BY <1>1, <2>1
  <2>5. FoldedSet(which, h, base, s, 1..k) = Folded(which, h[1..k - 1], s[k])
    BY <2>1, <2>2, <2>3 DEF FoldedSet
  <2>6. k - 1 \in 0..N /\ k \in 0..N
    BY <1>0
  <2> QED
    BY <2>4, <2>5, <2>6
<1>4. f[N] = h[1..N]
  BY <1>0
<1> HIDE DEF f
<1> QED
  BY <1>2, <1>3, <1>4 DEF Runs

\* What reduce() makes of a sequence of events is the end of a run of it.
LEMMA ReduceAllRuns ==
  ASSUME NEW base, NEW s, Len(s) \in Nat, DOMAIN s = 1..Len(s)
  PROVE  \E f : Runs("state", f, base, s) /\ Session!ReduceAll(base, s) = f[Len(s)]
<1> DEFINE N == Len(s)
           Of(h, t) == IF t = {} THEN base
                       ELSE Session!Reduce(h[t \ {Session!Max(t)}], s[Session!Max(t)])
           chosen == CHOOSE h : h = [t \in SUBSET (1..N) |-> Of(h, t)]
<1>1. \A h, t : Of(h, t) = FoldedSet("state", h, base, s, t)
  BY DEF FoldedSet, Folded
<1>2. Session!ReduceAll(base, s) = chosen[1..N]
  BY DEF Session!ReduceAll, Session!FoldLeft, Session!MapThenFoldSet
<1> HIDE DEF Of
<1>3. \E h : h = [t \in SUBSET (1..N) |-> Of(h, t)]
  <2>1. PICK h : FoldsSets("state", h, base, s, N)
    BY FoldExists
  <2> QED
    BY <1>1, <2>1 DEF FoldsSets
<1>4. chosen = [t \in SUBSET (1..N) |-> Of(chosen, t)]
  BY <1>3
<1> HIDE DEF chosen
<1>5. FoldsSets("state", chosen, base, s, N)
  BY <1>1, <1>4 DEF FoldsSets
<1> QED
  BY <1>2, <1>5, FoldRuns

\* What deriveTraces has made of a sequence of events so far.
Traced(s) == Session!FoldLeft(Session!TraceStep, [done |-> << >>, current |-> Session!NoTrace], s)

\* The same of deriveTraces.
LEMMA TracedRuns ==
  ASSUME NEW s, Len(s) \in Nat, DOMAIN s = 1..Len(s)
  PROVE  \E f : Runs("traces", f, [done |-> << >>, current |-> Session!NoTrace], s) /\ Traced(s) = f[Len(s)]
<1> DEFINE N == Len(s)
           base == [done |-> << >>, current |-> Session!NoTrace]
           Of(h, t) == IF t = {} THEN base
                       ELSE Session!TraceStep(h[t \ {Session!Max(t)}], s[Session!Max(t)])
           chosen == CHOOSE h : h = [t \in SUBSET (1..N) |-> Of(h, t)]
<1>1. \A h, t : Of(h, t) = FoldedSet("traces", h, base, s, t)
  BY DEF FoldedSet, Folded
<1>2. Traced(s) = chosen[1..N]
  BY DEF Traced, Session!FoldLeft, Session!MapThenFoldSet
<1> HIDE DEF Of, base
<1>3. \E h : h = [t \in SUBSET (1..N) |-> Of(h, t)]
  <2>1. PICK h : FoldsSets("traces", h, base, s, N)
    BY FoldExists
  <2> QED
    BY <1>1, <2>1 DEF FoldsSets
<1>4. chosen = [t \in SUBSET (1..N) |-> Of(chosen, t)]
  BY <1>3
<1> HIDE DEF chosen
<1>5. FoldsSets("traces", chosen, base, s, N)
  BY <1>1, <1>4 DEF FoldsSets
<1> QED
  BY <1>2, <1>5, FoldRuns DEF base

\* A run over one event more goes on where the run without it ends.
LEMMA RunsOn ==
  ASSUME NEW which, NEW base, NEW E, NEW s \in Seq(E), NEW e \in E, NEW f, NEW g,
         Runs(which, f, base, s), Runs(which, g, base, Append(s, e))
  PROVE  g[Len(s) + 1] = Folded(which, f[Len(s)], e)
<1> DEFINE N == Len(s)
           S == {k \in Nat : k <= N => g[k] = f[k]}
<1>1. /\ N \in Nat /\ Len(Append(s, e)) = N + 1 /\ Append(s, e)[N + 1] = e
      /\ \A k \in 1..N : Append(s, e)[k] = s[k]
  OBVIOUS
<1>2. 0 \in S
  BY DEF Runs
<1>3. ASSUME NEW k \in S PROVE k + 1 \in S
  <2> SUFFICES ASSUME k + 1 <= N PROVE g[k + 1] = f[k + 1]
    OBVIOUS
  <2>1. k \in Nat /\ k + 1 \in 1..N /\ k + 1 \in 1..N + 1 /\ k + 1 - 1 = k /\ g[k] = f[k]
    BY <1>1
  <2> QED
    BY <1>1, <2>1 DEF Runs
<1> HIDE DEF S
<1>4. S = Nat
  BY <1>2, <1>3, Induction DEF S
<1>5. g[N] = f[N] /\ N + 1 \in 1..N + 1 /\ N + 1 - 1 = N
  BY <1>1, <1>4 DEF S
<1> QED
  BY <1>1, <1>5 DEF Runs

\* reduce() over no event and over one more (reduce.ts, ReduceAll).
LEMMA ReduceOneMore ==
  ASSUME NEW base, NEW E, NEW s \in Seq(E), NEW e \in E
  PROVE  /\ Session!ReduceAll(base, << >>) = base
         /\ Session!ReduceAll(base, Append(s, e)) = Session!Reduce(Session!ReduceAll(base, s), e)
<1>1. PICK f : Runs("state", f, base, s) /\ Session!ReduceAll(base, s) = f[Len(s)]
  BY ReduceAllRuns
<1>2. PICK g : Runs("state", g, base, Append(s, e)) /\ Session!ReduceAll(base, Append(s, e)) = g[Len(s) + 1]
  <2>1. Len(Append(s, e)) = Len(s) + 1 /\ Len(s) + 1 \in Nat /\ DOMAIN Append(s, e) = 1..Len(s) + 1
    OBVIOUS
  <2> QED
    BY <2>1, ReduceAllRuns
<1>3. PICK z : Runs("state", z, base, << >>) /\ Session!ReduceAll(base, << >>) = z[Len(<< >>)]
  <2>1. Len(<< >>) = 0 /\ DOMAIN << >> = 1..Len(<< >>)
    OBVIOUS
  <2> QED
    BY <2>1, ReduceAllRuns
<1>4. g[Len(s) + 1] = Folded("state", f[Len(s)], e)
  BY <1>1, <1>2, RunsOn
<1> QED
  BY <1>1, <1>2, <1>3, <1>4 DEF Runs, Folded

\* The traces of no event and of one more (derive-trace.ts).
LEMMA TraceOneMore ==
  ASSUME NEW E, NEW s \in Seq(E), NEW e \in E
  PROVE  /\ Traced(<< >>) = [done |-> << >>, current |-> Session!NoTrace]
         /\ Traced(Append(s, e)) = Session!TraceStep(Traced(s), e)
<1> DEFINE base == [done |-> << >>, current |-> Session!NoTrace]
<1>1. PICK f : Runs("traces", f, base, s) /\ Traced(s) = f[Len(s)]
  BY TracedRuns
<1>2. PICK g : Runs("traces", g, base, Append(s, e)) /\ Traced(Append(s, e)) = g[Len(s) + 1]
  <2>1. Len(Append(s, e)) = Len(s) + 1 /\ Len(s) + 1 \in Nat /\ DOMAIN Append(s, e) = 1..Len(s) + 1
    OBVIOUS
  <2> QED
    BY <2>1, TracedRuns
<1>3. PICK z : Runs("traces", z, base, << >>) /\ Traced(<< >>) = z[Len(<< >>)]
  <2>1. Len(<< >>) = 0 /\ DOMAIN << >> = 1..Len(<< >>)
    OBVIOUS
  <2> QED
    BY <2>1, TracedRuns
<1> HIDE DEF base
<1>4. g[Len(s) + 1] = Folded("traces", f[Len(s)], e)
  BY <1>1, <1>2, RunsOn
<1> QED
  BY <1>1, <1>2, <1>3, <1>4 DEF Runs, Folded, base

-----------------------------------------------------------------------------
(* The state from a snapshot and from the whole log.                       *)

\* The size of a set is the same in the session.
LEMMA SameSessionCount == \A S : Session!Cardinality(S) = Cardinality(S)
BY DEF Session!Cardinality, Cardinality

\* A set written as a list and read back is the set.
LEMMA SetAgain ==
  ASSUME NEW S, IsFiniteSet(S)
  PROVE  Session!ToSet(Session!SetToSeq(S)) = S
<1> DEFINE n == Cardinality(S)
           g == Session!SetToSeq(S)
<1>1. n \in Nat /\ ExistsBijection(1..n, S)
  BY FS_CardinalityType
<1>2. PICK f \in [1..n -> S] : IsInjective(f)
  BY <1>1 DEF ExistsBijection, Bijection, Injection, IsInjective
<1>3. g = CHOOSE h \in [1..n -> S] : IsInjective(h)
  BY SameSessionCount DEF Session!SetToSeq, Session!IsInjective, IsInjective
<1>4. g \in [1..n -> S] /\ IsInjective(g)
  BY <1>2, <1>3
<1> HIDE DEF g
<1>5. g \in Injection(1..n, S)
  BY <1>4 DEF Injection, IsInjective
<1>6. IsFiniteSet(1..n) /\ Cardinality(1..n) = n
  BY <1>1, FS_Interval
<1>7. g \in Surjection(1..n, S)
  BY <1>5, <1>6, FS_Injection
<1>8. \A x \in S : \E i \in 1..n : g[i] = x
  BY <1>7 DEF Surjection
<1>9. Session!ToSet(g) = {g[i] : i \in 1..n}
  BY <1>4 DEF Session!ToSet
<1> QED
  BY <1>4, <1>8, <1>9 DEF g

\* A state has every field, and the sets in it are finite.
IsState(st) ==
  /\ st = [status |-> st.status, turn |-> st.turn, blocks |-> st.blocks, message |-> st.message,
           taint |-> st.taint, todos |-> st.todos, proposals |-> st.proposals,
           presentations |-> st.presentations, running |-> st.running,
           interrupted |-> st.interrupted, subagents |-> st.subagents, ptys |-> st.ptys,
           usage |-> st.usage, compactions |-> st.compactions, checkpoints |-> st.checkpoints,
           notices |-> st.notices, error |-> st.error, lastSeq |-> st.lastSeq]
  /\ IsFiniteSet(st.running) /\ IsFiniteSet(st.subagents) /\ IsFiniteSet(st.ptys)

\* A session begins in a state, and an event makes another state of it.
LEMMA EmptyIsState == IsState(Session!EmptySessionState)
BY FS_EmptySet DEF IsState, Session!EmptySessionState

LEMMA ReducedIsState ==
  ASSUME NEW st, NEW e, IsState(st)
  PROVE  IsState(Session!Reduce(st, e))
<1>1. CASE e.type \in Session!TransientTypes
  BY <1>1 DEF Session!Reduce
<1>2. CASE e.type \notin Session!TransientTypes
  <2> DEFINE to == Session!Reduce(st, e)
  <2>1. /\ to.running = Session!Running(st, e)
        /\ to.subagents = Session!Members(st.subagents, e, "subagent.start", "subagent.end")
        /\ to.ptys = Session!Members(st.ptys, e, "shell.session.opened", "shell.session.closed")
    BY <1>2 DEF Session!Reduce
  <2>2. \A set, x : IsFiniteSet(set) => IsFiniteSet(set \cup {x}) /\ IsFiniteSet(set \ {x})
    BY FS_AddElement, FS_RemoveElement
  <2>3. IsFiniteSet(to.running)
    <3>1. IsFiniteSet(st.running) /\ IsFiniteSet(st.running \cup {e.id}) /\ IsFiniteSet(st.running \ {e.id}) /\ IsFiniteSet({})
      BY <2>2, FS_EmptySet DEF IsState
    <3>2. to.running \in {st.running, st.running \cup {e.id}, st.running \ {e.id}, {}}
      BY <2>1 DEF Session!Running
    <3> HIDE DEF to
    <3> QED
      BY <3>1, <3>2
  <2>4. \A set, opened, closed : IsFiniteSet(set) => IsFiniteSet(Session!Members(set, e, opened, closed))
    BY <2>2 DEF Session!Members
  <2>5. IsFiniteSet(to.subagents) /\ IsFiniteSet(to.ptys)
    BY <2>1, <2>4 DEF IsState
  <2>6. to = [status |-> to.status, turn |-> to.turn, blocks |-> to.blocks, message |-> to.message,
           taint |-> to.taint, todos |-> to.todos, proposals |-> to.proposals,
           presentations |-> to.presentations, running |-> to.running,
           interrupted |-> to.interrupted, subagents |-> to.subagents, ptys |-> to.ptys,
           usage |-> to.usage, compactions |-> to.compactions, checkpoints |-> to.checkpoints,
           notices |-> to.notices, error |-> to.error, lastSeq |-> to.lastSeq]
    BY <1>2 DEF Session!Reduce
  <2> HIDE DEF to
  <2>7. IsState(to)
    BY <2>3, <2>5, <2>6 DEF IsState
  <2> QED
    BY <2>7 DEF to
<1> QED
  BY <1>1, <1>2

\* What a snapshot is read back as (snapshot.ts).
LEMMA SnapshotIsTheState ==
  ASSUME NEW st, IsState(st)
  PROVE  Session!DeserializeSessionState(Session!SerializeSessionState(st)) = st
<1> DEFINE row == [st EXCEPT !.running = Session!SetToSeq(@), !.subagents = Session!SetToSeq(@),
                             !.ptys = Session!SetToSeq(@)]
<1>1. Session!SerializeSessionState(st) = row
  BY DEF Session!SerializeSessionState
<1>2. /\ DOMAIN row = DOMAIN st
      /\ \A x \in DOMAIN st \ {"running", "subagents", "ptys"} : row[x] = st[x]
      /\ {"running", "subagents", "ptys"} \subseteq DOMAIN st
      /\ row.running = Session!SetToSeq(st.running)
      /\ row.subagents = Session!SetToSeq(st.subagents)
      /\ row.ptys = Session!SetToSeq(st.ptys)
  BY DEF IsState
<1> HIDE DEF row
<1>3. /\ Session!ToSet(row.running) = st.running
      /\ Session!ToSet(row.subagents) = st.subagents
      /\ Session!ToSet(row.ptys) = st.ptys
  BY <1>2, SetAgain DEF IsState
<1> DEFINE back == Session!DeserializeSessionState(row)
<1>4. back = [row EXCEPT !.running = Session!ToSet(@), !.subagents = Session!ToSet(@),
                         !.ptys = Session!ToSet(@)]
  BY DEF Session!DeserializeSessionState
<1>5. DOMAIN back = DOMAIN st /\ \A x \in DOMAIN st : back[x] = st[x]
  BY <1>2, <1>3, <1>4
<1>6. /\ back = [x \in DOMAIN back |-> back[x]]
      /\ st = [x \in DOMAIN st |-> st[x]]
  <2>1. row = [x \in DOMAIN row |-> row[x]]
    BY DEF row
  <2>2. back = [x \in DOMAIN back |-> back[x]]
    BY <1>4
  <2>3. st = [x \in DOMAIN st |-> st[x]]
    BY DEF IsState
  <2> QED
    BY <2>2, <2>3
<1> HIDE DEF back
<1>7. back = st
  BY <1>5, <1>6
<1> QED
  BY <1>1, <1>7 DEF back

\* Every snapshot of the log, and what the events behind it make of it.
SnapshotsResume ==
  \A k \in 0..Len(events) :
    LET st == Session!ReduceAll(Session!EmptySessionState, SubSeq(events, 1, k))
    IN  IsState(st) /\ Session!ReduceAll(st, SubSeq(events, k + 1, Len(events))) = reduced

\* A part of a sequence with one more element.
LEMMA PartsOfAppend ==
  ASSUME NEW E, NEW s \in Seq(E), NEW e \in E, NEW k \in 0..Len(s)
  PROVE  /\ SubSeq(Append(s, e), 1, k) = SubSeq(s, 1, k)
         /\ SubSeq(Append(s, e), k + 1, Len(s) + 1) = Append(SubSeq(s, k + 1, Len(s)), e)
         /\ SubSeq(s, k + 1, Len(s)) \in Seq(E)
<1> DEFINE t == Append(s, e)
<1>1. t \in Seq(E) /\ Len(t) = Len(s) + 1 /\ t[Len(s) + 1] = e /\ \A i \in 1..Len(s) : t[i] = s[i]
  OBVIOUS
<1> HIDE DEF t
<1>2. SubSeq(t, 1, k) = SubSeq(s, 1, k)
  <2> DEFINE a == SubSeq(t, 1, k)
             b == SubSeq(s, 1, k)
  <2>1. a \in Seq(E) /\ b \in Seq(E) /\ Len(a) = k /\ Len(b) = k /\ \A i \in 1..k : a[i] = b[i]
    BY <1>1
  <2> HIDE DEF a, b
  <2>2. a = b
    BY <2>1, SeqEqual
  <2> QED
    BY <2>2 DEF a, b
<1>3. /\ SubSeq(t, k + 1, Len(t)) = Append(SubSeq(s, k + 1, Len(s)), e)
      /\ SubSeq(s, k + 1, Len(s)) \in Seq(E)
  <2> DEFINE a == SubSeq(t, k + 1, Len(t))
             c == SubSeq(s, k + 1, Len(s))
             b == Append(c, e)
  <2>0. c \in Seq(E) /\ Len(c) = Len(s) - k /\ \A i \in 1..Len(s) - k : c[i] = s[k + i]
    OBVIOUS
  <2>1. a \in Seq(E) /\ Len(a) = Len(s) + 1 - k /\ \A i \in 1..Len(s) + 1 - k : a[i] = t[k + i]
    BY <1>1
  <2> HIDE DEF c
  <2>2. b \in Seq(E) /\ Len(b) = Len(s) + 1 - k /\ b[Len(s) + 1 - k] = e /\ \A i \in 1..Len(s) - k : b[i] = c[i]
    BY <2>0
  <2> HIDE DEF a, b
  <2>3. \A i \in 1..Len(s) + 1 - k : a[i] = b[i]
    <3> TAKE i \in 1..Len(s) + 1 - k
    <3>1. CASE i = Len(s) + 1 - k
      BY <1>1, <2>1, <2>2, <3>1
    <3>2. CASE i # Len(s) + 1 - k
      <4>1. i \in 1..Len(s) - k /\ k + i \in 1..Len(s)
        BY <3>2
      <4> QED
        BY <1>1, <2>0, <2>1, <2>2, <4>1
    <3> QED
      BY <3>1, <3>2
  <2>4. a = b
    BY <2>1, <2>2, <2>3, SeqEqual
  <2> QED
    BY <2>0, <2>4 DEF a, b, c
<1> QED
  BY <1>1, <1>2, <1>3 DEF t

\* One event more is behind every snapshot but the newest.
LEMMA SnapshotsStep ==
  ASSUME LogIsASequence, LogIsASequence', SnapshotsResume, NEW e, Session!Record(e)
  PROVE  SnapshotsResume'
<1> DEFINE Empty == Session!EmptySessionState
<1>0. PICK E : E = Session!ToSet(events) \cup {e}
  OBVIOUS
<1>1. PICK s : s = events /\ s \in Seq(E)
  BY <1>0 DEF LogIsASequence
<1>2. PICK st0 : st0 = reduced
  OBVIOUS
<1>3. events' = Append(s, e) /\ reduced' = Session!Reduce(st0, e) /\ e \in E
  BY <1>0, <1>1, <1>2 DEF Session!Record
<1>4. PICK t : t = Append(s, e)
  OBVIOUS
<1>5. t \in Seq(E) /\ Len(t) = Len(s) + 1 /\ Len(s) \in Nat
  BY <1>1, <1>3, <1>4
<1> DEFINE At(u, k) == Session!ReduceAll(Empty, SubSeq(u, 1, k))
<1> SUFFICES ASSUME NEW k \in 0..Len(t)
             PROVE  IsState(At(t, k)) /\ Session!ReduceAll(At(t, k), SubSeq(t, k + 1, Len(t))) = Session!Reduce(st0, e)
  BY <1>3, <1>4 DEF SnapshotsResume, Session!ReduceAll, Session!EmptySessionState
<1>6. \A j \in 0..Len(s) : IsState(At(s, j)) /\ Session!ReduceAll(At(s, j), SubSeq(s, j + 1, Len(s))) = st0
  BY <1>1, <1>2 DEF SnapshotsResume
<1>7. CASE k \in 0..Len(s)
  <2>1. /\ SubSeq(t, 1, k) = SubSeq(s, 1, k)
        /\ SubSeq(t, k + 1, Len(t)) = Append(SubSeq(s, k + 1, Len(s)), e)
        /\ SubSeq(s, k + 1, Len(s)) \in Seq(E)
    <3> HIDE DEF At
    <3>1. s \in Seq(E) /\ e \in E /\ k \in 0..Len(s)
      BY <1>1, <1>3, <1>7
    <3>2. /\ SubSeq(Append(s, e), 1, k) = SubSeq(s, 1, k)
          /\ SubSeq(Append(s, e), k + 1, Len(s) + 1) = Append(SubSeq(s, k + 1, Len(s)), e)
          /\ SubSeq(s, k + 1, Len(s)) \in Seq(E)
      BY <3>1, PartsOfAppend
    <3> QED
      BY <1>4, <1>5, <3>2
  <2>2. At(t, k) = At(s, k)
    BY <2>1
  <2>3. Session!ReduceAll(At(s, k), Append(SubSeq(s, k + 1, Len(s)), e))
          = Session!Reduce(Session!ReduceAll(At(s, k), SubSeq(s, k + 1, Len(s))), e)
    <3> HIDE DEF At
    <3>1. PICK rest \in Seq(E) : rest = SubSeq(s, k + 1, Len(s))
      BY <2>1
    <3>2. PICK base : base = At(s, k)
      OBVIOUS
    <3>3. Session!ReduceAll(base, Append(rest, e)) = Session!Reduce(Session!ReduceAll(base, rest), e)
      BY <1>3, ReduceOneMore
    <3> QED
      BY <3>1, <3>2, <3>3
  <2> QED
    BY <1>6, <1>7, <2>1, <2>2, <2>3
<1>8. CASE k = Len(t)
  <2>1. SubSeq(t, 1, k) = t /\ SubSeq(t, k + 1, Len(t)) = << >> /\ SubSeq(s, 1, Len(s)) = s
    BY <1>1, <1>5, <1>8
  <2>2. At(s, Len(s)) = st0 /\ IsState(st0)
    <3>1. Len(s) \in 0..Len(s) /\ SubSeq(s, Len(s) + 1, Len(s)) = << >>
      BY <1>1, <1>5
    <3>2. Session!ReduceAll(At(s, Len(s)), << >>) = At(s, Len(s))
      BY <1>1, <1>3, ReduceOneMore
    <3> QED
      BY <1>6, <3>1, <3>2
  <2>3. At(t, k) = Session!Reduce(st0, e)
    <3>1. At(t, k) = Session!ReduceAll(Empty, Append(s, e)) /\ At(s, Len(s)) = Session!ReduceAll(Empty, s)
      BY <1>4, <2>1
    <3> HIDE DEF At, Empty
    <3>2. Session!ReduceAll(Empty, Append(s, e)) = Session!Reduce(Session!ReduceAll(Empty, s), e)
      BY <1>1, <1>3, ReduceOneMore
    <3> QED
      BY <2>2, <3>1, <3>2
  <2>4. Session!ReduceAll(At(t, k), << >>) = At(t, k)
    BY <1>1, <1>3, ReduceOneMore
  <2> QED
    BY <2>1, <2>2, <2>3, <2>4, ReducedIsState
<1> QED
  BY <1>5, <1>7, <1>8

\* Of an empty log there is one snapshot.
LEMMA SnapshotsStart == MachinesInit => SnapshotsResume
<1> SUFFICES ASSUME MachinesInit PROVE SnapshotsResume
  OBVIOUS
<1>1. events = << >> /\ reduced = Session!EmptySessionState
  BY DEF MachinesInit, Session!Init
<1>2. /\ Len(<< >>) = 0 /\ 0..0 = {0} /\ SubSeq(<< >>, 1, 0) = << >> /\ SubSeq(<< >>, 0 + 1, 0) = << >>
      /\ << >> \in Seq({0})
  OBVIOUS
<1>3. \A base : Session!ReduceAll(base, << >>) = base
  BY <1>2, ReduceOneMore
<1> QED
  BY <1>1, <1>2, <1>3, EmptyIsState DEF SnapshotsResume

\* A snapshot taken anywhere resumes the session (snapshot.ts, session-runtime.ts).
LEMMA SnapshotsDo == SnapshotsResume => Session!SnapshotResumes
<1> SUFFICES ASSUME SnapshotsResume, NEW k \in 0..Len(events)
             PROVE  LET row == Session!SerializeSessionState(
                                 Session!ReduceAll(Session!EmptySessionState, SubSeq(events, 1, k)))
                    IN  Session!ReduceAll(Session!DeserializeSessionState(row), SubSeq(events, k + 1, Len(events)))
                          = reduced
  BY DEF Session!SnapshotResumes
<1>1. PICK st : st = Session!ReduceAll(Session!EmptySessionState, SubSeq(events, 1, k))
  OBVIOUS
<1>2. IsState(st) /\ Session!ReduceAll(st, SubSeq(events, k + 1, Len(events))) = reduced
  BY <1>1 DEF SnapshotsResume
<1>3. Session!DeserializeSessionState(Session!SerializeSessionState(st)) = st
  BY <1>2, SnapshotIsTheState
<1> QED
  BY <1>1, <1>2, <1>3

-----------------------------------------------------------------------------
(* The mark of untrusted content and its sources.                          *)

\* What brings content nobody has vouched for.
Flagged(e) == e.type \in {"tool.start", "context.injected", "subagent.end"} /\ e.flag

\* The events that may be recorded next, as far as the mark and the traces tell them apart.
LEMMA Recorded ==
  ASSUME DesktopAssumption, NEW e \in Session!Recordable
  PROVE  /\ e.type \notin Session!TransientTypes
         /\ e.type = "turn.start" => reduced.turn = Session!None /\ e.id \in TurnIds
         /\ e.type \in {"turn.end", "tool.start", "tool.end", "tool.code.dispatch", "usage.recorded"}
              => reduced.turn # Session!None
         /\ e.type = "turn.end" => e.id = reduced.turn
         /\ e.type = "tool.start" => e.id \in Calls
         /\ e.type = "tool.end" =>
              e.id \in reduced.running \/ (e.id \in Calls /\ e.id \notin Session!Known("tool.start"))
         /\ e.type = "tool.code.dispatch" => e.id \in reduced.running
         /\ e.type = "subagent.start" => e.id \in Agents
         /\ e.type = "subagent.end" => e.id \in reduced.subagents
         /\ e.type = "context.injected" => e.id = "injected"
<1>1. e.type \notin Session!TransientTypes
  BY SMTT(60) DEF Session!Recordable, Session!Event, Session!TransientTypes
<1>2. e.type = "turn.start" => reduced.turn = Session!None /\ e.id \in Session!NewTurn
  BY SMTT(60) DEF Session!Recordable, Session!Event, Session!InTurn
<1>3. e.type \in {"turn.end", "tool.start", "tool.end", "tool.code.dispatch", "usage.recorded"}
        => reduced.turn # Session!None
  BY SMTT(60) DEF Session!Recordable, Session!Event, Session!InTurn
<1>4. e.type = "turn.end" => e.id = reduced.turn
  BY SMTT(60) DEF Session!Recordable, Session!Event
<1>5. /\ e.type = "tool.start" => e.id \in Calls
      /\ e.type = "tool.end" =>
           e.id \in reduced.running \/ (e.id \in Calls /\ e.id \notin Session!Known("tool.start"))
  BY SMTT(60) DEF Session!Recordable, Session!Event
<1>6. e.type = "tool.code.dispatch" => e.id \in reduced.running
  BY SMTT(60) DEF Session!Recordable, Session!Event
<1>7. /\ e.type = "subagent.start" => e.id \in Agents
      /\ e.type = "subagent.end" => e.id \in reduced.subagents
      /\ e.type = "context.injected" => e.id = "injected"
  BY SMTT(60) DEF Session!Recordable, Session!Event
<1>8. Session!NewTurn \subseteq TurnIds
  <2> DEFINE fresh == TurnIds \ Session!Known("turn.start")
             one == CHOOSE turn \in fresh : TRUE
  <2>1. Session!NewTurn = IF fresh = {} THEN {} ELSE {one}
    BY DEF Session!NewTurn
  <2>2. fresh # {} => one \in fresh
    OBVIOUS
  <2> QED
    BY <2>1, <2>2
<1> QED
  BY <1>1, <1>2, <1>3, <1>4, <1>5, <1>6, <1>7, <1>8

\* The sources in a log since the mark was last cleared, and the mark they make.
SourcesIn(s) ==
  {i \in DOMAIN s : Flagged(s[i]) /\ \A c \in DOMAIN s : s[c].type = "trust.cleared" => c < i}
MarkIs(s, mark) ==
  /\ \A i \in SourcesIn(s) : s[i].id # Session!None
  /\ mark = IF SourcesIn(s) = {} THEN Session!None ELSE s[Session!Min(SourcesIn(s))].id

\* What Min names.
LEMMA LeastIs ==
  ASSUME NEW S, S \subseteq Nat, S # {}
  PROVE  Session!Min(S) \in S /\ \A y \in S : Session!Min(S) <= y
<1>1. \E x \in S : \A y \in S : x <= y
  BY LeastOfNat
<1> QED
  BY <1>1 DEF Session!Min

\* One event more clears the sources, is one of them or leaves them alone.
LEMMA SourcesGrow ==
  ASSUME NEW E, NEW s \in Seq(E), NEW e \in E
  PROVE  SourcesIn(Append(s, e)) = IF e.type = "trust.cleared" THEN {}
                                   ELSE IF Flagged(e) THEN SourcesIn(s) \cup {Len(s) + 1} ELSE SourcesIn(s)
<1>1. PICK t : t = Append(s, e)
  OBVIOUS
<1>2. /\ DOMAIN t = 1..Len(s) + 1 /\ DOMAIN s = 1..Len(s) /\ t[Len(s) + 1] = e /\ Len(s) \in Nat
      /\ \A i \in 1..Len(s) : t[i] = s[i]
  BY <1>1
<1>3. CASE e.type = "trust.cleared"
  BY <1>1, <1>2, <1>3 DEF SourcesIn, Flagged
<1>4. CASE e.type # "trust.cleared"
  <2>1. ASSUME NEW i \in 1..Len(s) PROVE i \in SourcesIn(t) <=> i \in SourcesIn(s)
    BY <1>2, <1>4, <2>1 DEF SourcesIn
  <2>2. Len(s) + 1 \in SourcesIn(t) <=> Flagged(e)
    BY <1>2, <1>4 DEF SourcesIn
  <2>3. SourcesIn(t) \subseteq 1..Len(s) + 1 /\ SourcesIn(s) \subseteq 1..Len(s)
    BY <1>2 DEF SourcesIn
  <2> DEFINE grown == IF Flagged(e) THEN SourcesIn(s) \cup {Len(s) + 1} ELSE SourcesIn(s)
  <2>4. grown \subseteq 1..Len(s) + 1 /\ \A i \in 1..Len(s) + 1 : i \in SourcesIn(t) <=> i \in grown
    BY <1>2, <2>1, <2>2, <2>3
  <2> HIDE DEF grown
  <2>5. SourcesIn(t) = grown
    BY <2>3, <2>4
  <2> QED
    BY <1>1, <1>4, <2>5 DEF grown
<1> QED
  BY <1>3, <1>4

\* The mark stays that of the log.
LEMMA MarkStep ==
  ASSUME NEW E, NEW s \in Seq(E), NEW e \in E, NEW st, MarkIs(s, st.taint),
         e.type \notin Session!TransientTypes, Flagged(e) => e.id # Session!None
  PROVE  MarkIs(Append(s, e), Session!Reduce(st, e).taint)
<1>1. PICK t : t = Append(s, e)
  OBVIOUS
<1>2. /\ t[Len(s) + 1] = e /\ Len(s) \in Nat
      /\ \A i \in 1..Len(s) : t[i] = s[i]
      /\ SourcesIn(s) \subseteq 1..Len(s)
  BY <1>1 DEF SourcesIn
<1>3. SourcesIn(t) = IF e.type = "trust.cleared" THEN {}
                     ELSE IF Flagged(e) THEN SourcesIn(s) \cup {Len(s) + 1} ELSE SourcesIn(s)
  BY <1>1, SourcesGrow
<1>4. Session!Reduce(st, e).taint = Session!Taint(st, e)
  BY DEF Session!Reduce
<1>5. Session!Taint(st, e) = IF e.type = "trust.cleared" THEN Session!None
                             ELSE IF Flagged(e) /\ st.taint = Session!None THEN e.id ELSE st.taint
  BY DEF Session!Taint, Flagged
<1>6. SourcesIn(s) # {} => Session!Min(SourcesIn(s)) \in SourcesIn(s) /\ \A y \in SourcesIn(s) : Session!Min(SourcesIn(s)) <= y
  BY <1>2, LeastIs
<1>7. st.taint = IF SourcesIn(s) = {} THEN Session!None ELSE s[Session!Min(SourcesIn(s))].id
  BY DEF MarkIs
<1>8. st.taint = Session!None <=> SourcesIn(s) = {}
  BY <1>6, <1>7 DEF MarkIs
<1>9. \A i \in SourcesIn(t) : t[i].id # Session!None
  BY <1>2, <1>3 DEF MarkIs
<1>10. CASE e.type = "trust.cleared"
  BY <1>1, <1>3, <1>4, <1>5, <1>10 DEF MarkIs
<1>11. CASE e.type # "trust.cleared" /\ ~ Flagged(e)
  <2>1. SourcesIn(t) = SourcesIn(s) /\ Session!Taint(st, e) = st.taint
    BY <1>3, <1>5, <1>11
  <2>2. SourcesIn(s) # {} => t[Session!Min(SourcesIn(s))] = s[Session!Min(SourcesIn(s))]
    BY <1>2, <1>6
  <2> QED
    BY <1>1, <1>4, <1>7, <1>9, <2>1, <2>2 DEF MarkIs
<1>12. CASE e.type # "trust.cleared" /\ Flagged(e) /\ SourcesIn(s) = {}
  <2>1. SourcesIn(t) = {Len(s) + 1} /\ Session!Taint(st, e) = e.id
    BY <1>3, <1>5, <1>8, <1>12
  <2>2. Session!Min({Len(s) + 1}) = Len(s) + 1
    BY <1>2 DEF Session!Min
  <2> QED
    BY <1>1, <1>2, <1>4, <1>9, <2>1, <2>2 DEF MarkIs
<1>13. CASE e.type # "trust.cleared" /\ Flagged(e) /\ SourcesIn(s) # {}
  <2>1. SourcesIn(t) = SourcesIn(s) \cup {Len(s) + 1} /\ Session!Taint(st, e) = st.taint
    BY <1>3, <1>5, <1>8, <1>13
  <2>2. Session!Min(SourcesIn(t)) \in SourcesIn(t) /\ \A y \in SourcesIn(t) : Session!Min(SourcesIn(t)) <= y
    <3>1. SourcesIn(t) \subseteq Nat /\ SourcesIn(t) # {}
      BY <1>2, <2>1
    <3> QED
      BY <3>1, LeastIs
  <2>3. Session!Min(SourcesIn(t)) = Session!Min(SourcesIn(s))
    <3>1. PICK a : a = Session!Min(SourcesIn(t))
      OBVIOUS
    <3>2. PICK b : b = Session!Min(SourcesIn(s))
      OBVIOUS
    <3>3. b \in SourcesIn(s) /\ b \in 1..Len(s) /\ (\A y \in SourcesIn(s) : b <= y) /\ a <= b
      BY <1>2, <1>6, <1>13, <2>1, <2>2, <3>1, <3>2
    <3>4. a \in SourcesIn(s) \/ a = Len(s) + 1
      BY <2>1, <2>2, <3>1
    <3>5. a # Len(s) + 1
      BY <1>2, <3>3
    <3>6. b <= a /\ a \in 1..Len(s)
      BY <1>2, <3>3, <3>4, <3>5
    <3> QED
      BY <3>1, <3>2, <3>3, <3>6
  <2>4. t[Session!Min(SourcesIn(s))] = s[Session!Min(SourcesIn(s))]
    BY <1>2, <1>6, <1>13
  <2> QED
    BY <1>1, <1>4, <1>7, <1>9, <1>13, <2>1, <2>3, <2>4 DEF MarkIs
<1> QED
  BY <1>10, <1>11, <1>12, <1>13

\* The mark is that of the log, and the agents at work are agents.
MarkInv == MarkIs(events, reduced.taint) /\ reduced.subagents \subseteq Agents

\* A recorded event keeps the mark right.
LEMMA MarkKept ==
  ASSUME DesktopAssumption, LogIsASequence, MarkInv, NEW e \in Session!Recordable, Session!Record(e)
  PROVE  MarkInv'
<1>1. PICK E : E = Session!ToSet(events) \cup {e}
  OBVIOUS
<1>2. PICK s : s = events /\ s \in Seq(E) /\ e \in E
  BY <1>1 DEF LogIsASequence
<1>3. PICK st : st = reduced
  OBVIOUS
<1>4. Flagged(e) => e.id # Session!None
  BY Recorded DEF Flagged, MarkInv, DesktopAssumption, Session!None
<1>5. MarkIs(Append(s, e), Session!Reduce(st, e).taint)
  BY <1>2, <1>3, <1>4, Recorded, MarkStep DEF MarkInv
<1>6. events' = Append(s, e) /\ reduced' = Session!Reduce(st, e)
  BY <1>2, <1>3 DEF Session!Record
<1>7. Session!Reduce(st, e).subagents = Session!Members(st.subagents, e, "subagent.start", "subagent.end")
  BY Recorded DEF Session!Reduce
<1>8. reduced'.subagents \subseteq Agents
  BY <1>3, <1>6, <1>7, Recorded DEF Session!Members, MarkInv
<1>9. MarkIs(events, reduced.taint)'
  BY <1>5, <1>6 DEF MarkIs, SourcesIn
<1> QED
  BY <1>8, <1>9 DEF MarkInv

\* No source, no mark.
LEMMA MarkStarts == MachinesInit => MarkInv
BY DEF MachinesInit, Session!Init, Session!EmptySessionState, MarkInv, MarkIs, SourcesIn

\* The mark names the first source since it was last cleared (reduce.ts).
LEMMA MarkHasASource == MarkInv => Session!TaintHasASource
BY DEF MarkInv, MarkIs, SourcesIn, Flagged, Session!TaintHasASource, Session!Sources

-----------------------------------------------------------------------------
(* The traces and the turns.                                               *)

\* The turns of a log, and what is to be seen in them.
StartsIn(s) == {i \in DOMAIN s : s[i].type = "turn.start"}
TurnIn(s, i) == {k \in DOMAIN s : i <= k /\ \A j \in StartsIn(s) : j <= i \/ k < j}
SeenAt(s, i, k) ==
  \/ s[k].type = "tool.code.dispatch"
  \/ /\ s[k].type = "tool.end"
     /\ \E j \in TurnIn(s, i) : j < k /\ s[j].type = "tool.start" /\ s[j].id = s[k].id
SeenIn(s, i) == {k \in TurnIn(s, i) : SeenAt(s, i, k)}
PaidIn(s, i) == {k \in TurnIn(s, i) : s[k].type = "usage.recorded"}
UpTo(s, i) == {j \in StartsIn(s) : j <= i}
SeenNow(s, i, e) ==
  \/ e.type = "tool.code.dispatch"
  \/ e.type = "tool.end" /\ \E j \in TurnIn(s, i) : s[j].type = "tool.start" /\ s[j].id = e.id
IsLast(s, i) == i \in StartsIn(s) /\ \A j \in StartsIn(s) : j <= i

\* The trace of the turn with a number, finished or not.
TraceOf(acc, n) == IF n <= Len(acc.done) THEN acc.done[n] ELSE acc.current

\* Only turn.start starts a turn.
LEMMA StartsStay ==
  ASSUME NEW E, NEW s \in Seq(E), NEW e \in E, e.type # "turn.start"
  PROVE  StartsIn(Append(s, e)) = StartsIn(s) /\ StartsIn(s) \subseteq 1..Len(s)
<1>1. PICK t : t = Append(s, e)
  OBVIOUS
<1>2. /\ DOMAIN t = 1..Len(s) + 1 /\ DOMAIN s = 1..Len(s) /\ t[Len(s) + 1] = e /\ Len(s) \in Nat
      /\ \A j \in 1..Len(s) : t[j] = s[j]
  BY <1>1
<1>3. StartsIn(t) = StartsIn(s) /\ StartsIn(s) \subseteq 1..Len(s)
  <2>1. \A j \in 1..Len(s) + 1 : j \in StartsIn(t) <=> j \in StartsIn(s)
    BY <1>2 DEF StartsIn
  <2>2. StartsIn(t) \subseteq 1..Len(s) + 1 /\ StartsIn(s) \subseteq 1..Len(s) /\ Len(s) + 1 \notin StartsIn(t)
    BY <1>2 DEF StartsIn
  <2>3. 1..Len(s) \subseteq 1..Len(s) + 1
    BY <1>2
  <2> QED
    BY <2>1, <2>2, <2>3
<1> QED
  BY <1>1, <1>3

\* An event that starts no turn belongs to the last one.
LEMMA TurnGrows ==
  ASSUME NEW E, NEW s \in Seq(E), NEW e \in E, e.type # "turn.start", NEW i \in StartsIn(s)
  PROVE  /\ StartsIn(Append(s, e)) = StartsIn(s) /\ UpTo(Append(s, e), i) = UpTo(s, i)
         /\ IsLast(Append(s, e), i) = IsLast(s, i)
         /\ TurnIn(Append(s, e), i) = IF IsLast(s, i) THEN TurnIn(s, i) \cup {Len(s) + 1} ELSE TurnIn(s, i)
<1>1. PICK t : t = Append(s, e)
  OBVIOUS
<1>2. /\ DOMAIN t = 1..Len(s) + 1 /\ DOMAIN s = 1..Len(s) /\ t[Len(s) + 1] = e /\ Len(s) \in Nat
      /\ \A j \in 1..Len(s) : t[j] = s[j]
  BY <1>1
<1>3. StartsIn(t) = StartsIn(s) /\ StartsIn(s) \subseteq 1..Len(s)
  BY <1>1, StartsStay
<1>4. UpTo(t, i) = UpTo(s, i) /\ IsLast(t, i) = IsLast(s, i)
  BY <1>3 DEF UpTo, IsLast
<1> DEFINE grown == IF IsLast(s, i) THEN TurnIn(s, i) \cup {Len(s) + 1} ELSE TurnIn(s, i)
<1>5. \A k \in 1..Len(s) : k \in TurnIn(t, i) <=> k \in TurnIn(s, i)
  BY <1>2, <1>3 DEF TurnIn
<1>6. Len(s) + 1 \in TurnIn(t, i) <=> IsLast(s, i)
  <2>1. Len(s) + 1 \in TurnIn(t, i) <=> i <= Len(s) + 1 /\ \A j \in StartsIn(s) : j <= i \/ Len(s) + 1 < j
    BY <1>2, <1>3 DEF TurnIn
  <2>2. i \in 1..Len(s) /\ \A j \in StartsIn(s) : ~ (Len(s) + 1 < j)
    BY <1>2, <1>3
  <2> QED
    BY <1>2, <2>1, <2>2 DEF IsLast
<1>7. TurnIn(t, i) \subseteq 1..Len(s) + 1 /\ TurnIn(s, i) \subseteq 1..Len(s)
  BY <1>2 DEF TurnIn
<1>8. grown \subseteq 1..Len(s) + 1 /\ \A k \in 1..Len(s) + 1 : k \in TurnIn(t, i) <=> k \in grown
  BY <1>2, <1>5, <1>6, <1>7
<1> HIDE DEF grown
<1>9. TurnIn(t, i) = grown
  BY <1>7, <1>8
<1> QED
  BY <1>1, <1>3, <1>4, <1>9 DEF grown

\* A turn that starts leaves the turns before it alone.
LEMMA TurnBegins ==
  ASSUME NEW E, NEW s \in Seq(E), NEW e \in E, e.type = "turn.start"
  PROVE  LET t == Append(s, e)
             N == Len(s) + 1
         IN  /\ StartsIn(t) = StartsIn(s) \cup {N} /\ UpTo(t, N) = StartsIn(t) /\ TurnIn(t, N) = {N}
             /\ \A i \in StartsIn(s) : UpTo(t, i) = UpTo(s, i) /\ TurnIn(t, i) = TurnIn(s, i)
<1>1. PICK t : t = Append(s, e)
  OBVIOUS
<1>2. /\ DOMAIN t = 1..Len(s) + 1 /\ DOMAIN s = 1..Len(s) /\ t[Len(s) + 1] = e /\ Len(s) \in Nat
      /\ \A j \in 1..Len(s) : t[j] = s[j]
  BY <1>1
<1> DEFINE N == Len(s) + 1
<1>3. StartsIn(t) = StartsIn(s) \cup {N} /\ StartsIn(s) \subseteq 1..Len(s)
  <2>1. \A j \in 1..Len(s) : j \in StartsIn(t) <=> j \in StartsIn(s)
    BY <1>2 DEF StartsIn
  <2>2. StartsIn(t) \subseteq 1..N /\ StartsIn(s) \subseteq 1..Len(s) /\ N \in StartsIn(t)
    BY <1>2 DEF StartsIn
  <2>3. \A j \in 1..N : j \in StartsIn(t) <=> j \in StartsIn(s) \cup {N}
    BY <1>2, <2>1, <2>2
  <2> QED
    BY <1>2, <2>2, <2>3
<1>4. UpTo(t, N) = StartsIn(t)
  BY <1>2, <1>3 DEF UpTo
<1>5. TurnIn(t, N) = {N}
  BY <1>2, <1>3 DEF TurnIn
<1>6. ASSUME NEW i \in StartsIn(s) PROVE UpTo(t, i) = UpTo(s, i) /\ TurnIn(t, i) = TurnIn(s, i)
  <2>1. i \in 1..Len(s)
    BY <1>3
  <2>2. UpTo(t, i) = UpTo(s, i)
    BY <1>2, <1>3, <2>1 DEF UpTo
  <2>3. \A k \in 1..Len(s) : k \in TurnIn(t, i) <=> k \in TurnIn(s, i)
    <3>1. \A k \in 1..Len(s) : k < N
      BY <1>2
    <3> QED
      BY <1>2, <1>3, <3>1 DEF TurnIn
  <2>4. N \notin TurnIn(t, i)
    BY <1>2, <1>3, <2>1 DEF TurnIn
  <2>5. TurnIn(t, i) \subseteq 1..N /\ TurnIn(s, i) \subseteq 1..Len(s)
    BY <1>2 DEF TurnIn
  <2>6. TurnIn(t, i) \subseteq 1..Len(s)
    BY <1>2, <2>4, <2>5
  <2>7. TurnIn(t, i) = TurnIn(s, i)
    BY <2>3, <2>5, <2>6
  <2> QED
    BY <2>2, <2>7
<1> QED
  BY <1>1, <1>3, <1>4, <1>5, <1>6

\* In a turn that stays the same, the same is seen.
LEMMA SeenStays ==
  ASSUME NEW E, NEW s \in Seq(E), NEW e \in E, NEW i, TurnIn(Append(s, e), i) = TurnIn(s, i)
  PROVE  SeenIn(Append(s, e), i) = SeenIn(s, i) /\ PaidIn(Append(s, e), i) = PaidIn(s, i)
<1>1. PICK t : t = Append(s, e)
  OBVIOUS
<1>2. \A k \in TurnIn(s, i) : t[k] = s[k]
  BY <1>1 DEF TurnIn
<1>3. TurnIn(t, i) = TurnIn(s, i)
  BY <1>1
<1>4. \A k \in TurnIn(s, i) : SeenAt(t, i, k) <=> SeenAt(s, i, k)
  BY <1>2, <1>3 DEF SeenAt
<1> QED
  BY <1>1, <1>2, <1>3, <1>4 DEF SeenIn, PaidIn

\* Of the event the last turn grows by, what is seen and paid.
LEMMA SeenGrows ==
  ASSUME NEW E, NEW s \in Seq(E), NEW e \in E, NEW i,
         TurnIn(Append(s, e), i) = TurnIn(s, i) \cup {Len(s) + 1}
  PROVE  /\ SeenIn(Append(s, e), i) = IF SeenNow(s, i, e) THEN SeenIn(s, i) \cup {Len(s) + 1} ELSE SeenIn(s, i)
         /\ PaidIn(Append(s, e), i) = IF e.type = "usage.recorded" THEN PaidIn(s, i) \cup {Len(s) + 1} ELSE PaidIn(s, i)
<1>1. PICK t : t = Append(s, e)
  OBVIOUS
<1>2. PICK N : N = Len(s) + 1
  OBVIOUS
<1>3. /\ N \in Nat /\ t[N] = e /\ TurnIn(t, i) = TurnIn(s, i) \cup {N}
      /\ \A k \in TurnIn(s, i) : t[k] = s[k] /\ k < N /\ k \in Nat
  BY <1>1, <1>2 DEF TurnIn
<1>4. ASSUME NEW k \in TurnIn(s, i) PROVE SeenAt(t, i, k) <=> SeenAt(s, i, k)
  <2>1. \A j \in TurnIn(t, i) : j < k => j \in TurnIn(s, i)
    BY <1>3
  <2> QED
    BY <1>3, <2>1 DEF SeenAt
<1>5. SeenAt(t, i, N) <=> SeenNow(s, i, e)
  <2>1. \A j \in TurnIn(t, i) : j < N <=> j \in TurnIn(s, i)
    BY <1>3
  <2> QED
    BY <1>3, <2>1 DEF SeenAt, SeenNow
<1>6. SeenIn(t, i) = IF SeenNow(s, i, e) THEN SeenIn(s, i) \cup {N} ELSE SeenIn(s, i)
  BY <1>3, <1>4, <1>5 DEF SeenIn
<1>7. PaidIn(t, i) = IF e.type = "usage.recorded" THEN PaidIn(s, i) \cup {N} ELSE PaidIn(s, i)
  BY <1>3 DEF PaidIn
<1> QED
  BY <1>1, <1>2, <1>6, <1>7

\* Parts of a log are finite, and one more place makes one more.
LEMMA OneMorePlace ==
  ASSUME NEW n \in Nat, NEW T, T \subseteq 1..n
  PROVE  /\ IsFiniteSet(T) /\ Cardinality(T) \in Nat
         /\ Cardinality(T \cup {n + 1}) = Cardinality(T) + 1
<1>1. IsFiniteSet(1..n)
  BY FS_Interval
<1>2. IsFiniteSet(T)
  BY <1>1, FS_Subset
<1>3. n + 1 \notin T
  OBVIOUS
<1> QED
  BY <1>2, <1>3, FS_AddElement, FS_CardinalityType

\* The number of a turn: how many have started up to it.
LEMMA NumberIs ==
  ASSUME NEW E, NEW s \in Seq(E), NEW i \in StartsIn(s)
  PROVE  /\ Cardinality(UpTo(s, i)) \in 1..Cardinality(StartsIn(s)) /\ Cardinality(StartsIn(s)) \in Nat
         /\ IsLast(s, i) <=> Cardinality(UpTo(s, i)) = Cardinality(StartsIn(s))
<1>1. StartsIn(s) \subseteq 1..Len(s) /\ UpTo(s, i) \subseteq StartsIn(s) /\ Len(s) \in Nat /\ i \in UpTo(s, i)
  BY DEF StartsIn, UpTo
<1>2. IsFiniteSet(StartsIn(s)) /\ IsFiniteSet(UpTo(s, i))
  BY <1>1, OneMorePlace, FS_Subset
<1>3. /\ Cardinality(StartsIn(s)) \in Nat /\ Cardinality(UpTo(s, i)) \in Nat
      /\ Cardinality(UpTo(s, i)) <= Cardinality(StartsIn(s))
      /\ Cardinality(UpTo(s, i)) # 0
  BY <1>1, <1>2, FS_CardinalityType, FS_Subset, FS_EmptySet
<1>4. UpTo(s, i) = StartsIn(s) <=> Cardinality(UpTo(s, i)) = Cardinality(StartsIn(s))
  <2>1. Cardinality(StartsIn(s)) = Cardinality(UpTo(s, i)) => StartsIn(s) = UpTo(s, i)
    BY <1>1, <1>2, FS_Subset
  <2> QED
    BY <2>1
<1>5. IsLast(s, i) <=> UpTo(s, i) = StartsIn(s)
  BY DEF IsLast, UpTo
<1> QED
  BY <1>3, <1>4, <1>5

\* What a trace is made of.
TraceRows == [turn : TurnIds \cup {Session!None}, steps : Seq(Calls), started : SUBSET Calls, cost : Nat,
              interrupted : BOOLEAN, rejected : Nat, reason : {"unknown", "ended", "interrupted"}]

\* A trace is that of the turn which starts at i.
TraceIs(s, i, trace) ==
  /\ trace.turn = s[i].id
  /\ Len(trace.steps) = Cardinality(SeenIn(s, i))
  /\ trace.cost = Cardinality(PaidIn(s, i))

\* The traces so far: one for each turn that is over and one for the open turn, which
\* knows the calls at work; each of those has started in the turn.
TracesAre(s, acc, turn, atWork) ==
  /\ acc = [done |-> acc.done, current |-> acc.current]
  /\ acc.done \in Seq(TraceRows) /\ acc.current \in TraceRows
  /\ acc.current.turn = turn /\ acc.current.started = atWork
  /\ turn = Session!None => acc.current = Session!NoTrace
  /\ Cardinality(StartsIn(s)) = Len(acc.done) + (IF turn = Session!None THEN 0 ELSE 1)
  /\ \A i \in StartsIn(s) : TraceIs(s, i, TraceOf(acc, Cardinality(UpTo(s, i))))
  /\ \A i \in StartsIn(s) : IsLast(s, i) =>
       \A c \in atWork : \E j \in TurnIn(s, i) : s[j].type = "tool.start" /\ s[j].id = c

\* What an event is to a log, of what the traces tell apart.
Fits(s, turn, atWork, e) ==
  /\ e.type = "turn.start" => turn = Session!None /\ e.id \in TurnIds
  /\ e.type \in {"turn.end", "tool.start", "tool.end", "tool.code.dispatch", "usage.recorded"}
       => turn # Session!None
  /\ e.type = "turn.end" => e.id = turn
  /\ e.type = "tool.start" => e.id \in Calls
  /\ e.type = "tool.end" =>
       e.id \in atWork \/ (e.id \in Calls /\ \A j \in DOMAIN s : s[j].type = "tool.start" => s[j].id # e.id)
  /\ e.type = "tool.code.dispatch" => e.id \in atWork

\* The calls at work after an event.
RunningAfter(atWork, e) ==
  CASE e.type = "tool.start" -> atWork \cup {e.id}
    [] e.type = "tool.end" -> atWork \ {e.id}
    [] e.type = "turn.end" -> {}
    [] OTHER -> atWork

\* The trace of no turn.
LEMMA NoTraceIs ==
  /\ Session!NoTrace \in TraceRows /\ Session!NoTrace.turn = Session!None /\ Session!NoTrace.started = {}
  /\ Session!NoTrace.steps = << >> /\ Session!NoTrace.cost = 0
BY DEF TraceRows, Session!NoTrace

\* An event in a turn that does not end it: what the trace of the turn becomes.
LEMMA CurrentStep ==
  ASSUME NEW acc, acc = [done |-> acc.done, current |-> acc.current], acc.current \in TraceRows,
         acc.current.turn # Session!None, NEW e, e.type \notin {"turn.start", "turn.end"},
         e.type \in {"tool.start", "tool.end", "tool.code.dispatch"} => e.id \in Calls
  PROVE  LET cur == acc.current
             to == Session!TraceStep(acc, e)
             seen == e.type = "tool.code.dispatch" \/ (e.type = "tool.end" /\ e.id \in cur.started)
         IN  /\ to = [done |-> acc.done, current |-> to.current] /\ to.current \in TraceRows
             /\ to.current.turn = cur.turn /\ to.current.started = RunningAfter(cur.started, e)
             /\ Len(to.current.steps) = IF seen THEN Len(cur.steps) + 1 ELSE Len(cur.steps)
             /\ to.current.cost = IF e.type = "usage.recorded" THEN cur.cost + 1 ELSE cur.cost
<1>1. PICK cur : cur = acc.current /\ cur \in TraceRows
  OBVIOUS
<1>2. PICK done : done = acc.done
  OBVIOUS
<1>3. PICK to : to = Session!TraceStep(acc, e)
  OBVIOUS
<1>4. cur # Session!NoTrace
  BY <1>1, NoTraceIs
<1>5. acc = [done |-> done, current |-> cur]
  BY <1>1, <1>2
<1>6. cur.steps \in Seq(Calls) /\ cur.cost \in Nat /\ cur.started \subseteq Calls
  BY <1>1 DEF TraceRows
<1> DEFINE With(next) == [done |-> done, current |-> next]
<1>7. \A next : [acc EXCEPT !.current = next] = With(next)
  BY <1>5
<1> SUFFICES /\ to = With(to.current) /\ to.current \in TraceRows
             /\ to.current.turn = cur.turn /\ to.current.started = RunningAfter(cur.started, e)
             /\ Len(to.current.steps) = IF e.type = "tool.code.dispatch" \/ (e.type = "tool.end" /\ e.id \in cur.started)
                                        THEN Len(cur.steps) + 1 ELSE Len(cur.steps)
             /\ to.current.cost = IF e.type = "usage.recorded" THEN cur.cost + 1 ELSE cur.cost
  BY <1>1, <1>2, <1>3
<1>8. CASE e.type = "usage.recorded"
  <2>1. to = With([cur EXCEPT !.cost = @ + 1])
    BY <1>1, <1>3, <1>4, <1>7, <1>8 DEF Session!TraceStep
  <2>2. RunningAfter(cur.started, e) = cur.started
    BY <1>8 DEF RunningAfter
  <2> QED
    BY <1>1, <1>6, <1>8, <2>1, <2>2 DEF TraceRows
<1>9. CASE e.type = "tool.start"
  <2>1. to = With([cur EXCEPT !.started = @ \cup {e.id}])
    BY <1>1, <1>3, <1>4, <1>7, <1>9 DEF Session!TraceStep
  <2>2. RunningAfter(cur.started, e) = cur.started \cup {e.id}
    BY <1>9 DEF RunningAfter
  <2> QED
    BY <1>1, <1>6, <1>9, <2>1, <2>2 DEF TraceRows
<1>10. CASE e.type = "tool.end" /\ e.id \in cur.started
  <2>1. to = With([cur EXCEPT !.steps = Append(@, e.id), !.started = @ \ {e.id}])
    BY <1>1, <1>3, <1>4, <1>7, <1>10 DEF Session!TraceStep
  <2>2. RunningAfter(cur.started, e) = cur.started \ {e.id}
    BY <1>10 DEF RunningAfter
  <2>3. Append(cur.steps, e.id) \in Seq(Calls) /\ Len(Append(cur.steps, e.id)) = Len(cur.steps) + 1
    BY <1>6, <1>10
  <2> QED
    BY <1>1, <1>6, <1>10, <2>1, <2>2, <2>3 DEF TraceRows
<1>11. CASE e.type = "tool.end" /\ e.id \notin cur.started
  <2>1. to = With(cur)
    BY <1>1, <1>3, <1>4, <1>5, <1>11 DEF Session!TraceStep
  <2>2. RunningAfter(cur.started, e) = cur.started
    BY <1>11 DEF RunningAfter
  <2> QED
    BY <1>1, <1>6, <1>11, <2>1, <2>2
<1>12. CASE e.type = "tool.code.dispatch"
  <2>1. PICK next : next = [cur EXCEPT !.steps = Append(@, e.id)]
    OBVIOUS
  <2>2. to = With(next)
    BY <1>1, <1>3, <1>4, <1>7, <1>12, <2>1 DEF Session!TraceStep
  <2>3. RunningAfter(cur.started, e) = cur.started
    BY <1>12 DEF RunningAfter
  <2>4. Append(cur.steps, e.id) \in Seq(Calls) /\ Len(Append(cur.steps, e.id)) = Len(cur.steps) + 1
    BY <1>6, <1>12
  <2>5. /\ next \in TraceRows /\ next.turn = cur.turn /\ next.started = cur.started
        /\ next.cost = cur.cost /\ next.steps = Append(cur.steps, e.id)
    BY <1>1, <2>1, <2>4 DEF TraceRows
  <2> QED
    BY <1>12, <2>2, <2>3, <2>4, <2>5
<1>13. CASE e.type \notin {"usage.recorded", "tool.start", "tool.end", "tool.code.dispatch"}
  <2>1. \/ to = With(cur)
        \/ to = With([cur EXCEPT !.interrupted = TRUE])
        \/ to = With([cur EXCEPT !.rejected = @ + 1])
    BY <1>1, <1>3, <1>4, <1>5, <1>7, <1>13 DEF Session!TraceStep
  <2>2. PICK next : to = With(next) /\ next \in {cur, [cur EXCEPT !.interrupted = TRUE], [cur EXCEPT !.rejected = @ + 1]}
    BY <2>1
  <2>3. RunningAfter(cur.started, e) = cur.started
    BY <1>13 DEF RunningAfter
  <2>4. cur.rejected \in Nat
    BY <1>1 DEF TraceRows
  <2>5. /\ next \in TraceRows /\ next.turn = cur.turn /\ next.started = cur.started
        /\ next.cost = cur.cost /\ next.steps = cur.steps
    <3>1. CASE next = cur
      BY <1>1, <3>1
    <3>2. CASE next = [cur EXCEPT !.interrupted = TRUE]
      BY <1>1, <3>2 DEF TraceRows
    <3>3. CASE next = [cur EXCEPT !.rejected = @ + 1]
      BY <1>1, <2>4, <3>3 DEF TraceRows
    <3> QED
      BY <2>2, <3>1, <3>2, <3>3
  <2> QED
    BY <1>13, <2>2, <2>3, <2>5
<1> QED
  BY <1>8, <1>9, <1>10, <1>11, <1>12, <1>13

\* The same, when nothing of it concerns an open turn.
LEMMA ClosedStep ==
  ASSUME NEW acc, acc.current = Session!NoTrace, NEW e, e.type # "turn.start"
  PROVE  Session!TraceStep(acc, e) = acc
BY DEF Session!TraceStep

\* A turn starts, and one ends.
LEMMA StartStep ==
  ASSUME NEW acc, acc = [done |-> acc.done, current |-> acc.current], NEW e,
         e.type = "turn.start", e.id \in TurnIds
  PROVE  \E first \in TraceRows :
           /\ Session!TraceStep(acc, e) = [done |-> acc.done, current |-> first]
           /\ first.turn = e.id /\ first.started = {} /\ first.steps = << >> /\ first.cost = 0
<1> DEFINE first == [Session!NoTrace EXCEPT !.turn = e.id]
<1>1. Session!TraceStep(acc, e) = [acc EXCEPT !.current = first]
  BY DEF Session!TraceStep
<1>2. /\ first \in TraceRows /\ first.turn = e.id /\ first.started = {}
      /\ first.steps = << >> /\ first.cost = 0
  BY NoTraceIs DEF TraceRows
<1> HIDE DEF first
<1>3. [acc EXCEPT !.current = first] = [done |-> acc.done, current |-> first]
  OBVIOUS
<1> QED
  BY <1>1, <1>2, <1>3

\* The trace of a turn that ends is finished.
LEMMA EndStep ==
  ASSUME NEW acc, acc.current \in TraceRows, NEW e,
         e.type = "turn.end", acc.current.turn # Session!None, e.id = acc.current.turn
  PROVE  \E last \in TraceRows :
           /\ Session!TraceStep(acc, e) = [done |-> Append(acc.done, last), current |-> Session!NoTrace]
           /\ last.turn = acc.current.turn /\ last.steps = acc.current.steps /\ last.cost = acc.current.cost
<1> DEFINE last == Session!Finalize(acc.current, TRUE)
<1>1. acc.current # Session!NoTrace
  BY NoTraceIs
<1>2. Session!TraceStep(acc, e) = [done |-> Append(acc.done, last), current |-> Session!NoTrace]
  BY <1>1 DEF Session!TraceStep
<1>3. last = [acc.current EXCEPT !.reason = "ended"]
  BY DEF Session!Finalize
<1> HIDE DEF last
<1>4. /\ last \in TraceRows /\ last.turn = acc.current.turn
      /\ last.steps = acc.current.steps /\ last.cost = acc.current.cost
  BY <1>3 DEF TraceRows
<1> QED
  BY <1>2, <1>4

\* A turn starts: a new last place, seen nothing of yet.
LEMMA TracesBegin ==
  ASSUME DesktopAssumption, NEW E, NEW s \in Seq(E), NEW e \in E, NEW acc, NEW turn, NEW atWork,
         TracesAre(s, acc, turn, atWork), Fits(s, turn, atWork, e), e.type = "turn.start"
  PROVE  TracesAre(Append(s, e), Session!TraceStep(acc, e), e.id, atWork)
<1> DEFINE t == Append(s, e)
           N == Len(s) + 1
           to == Session!TraceStep(acc, e)
<1>1. turn = Session!None /\ e.id \in TurnIds /\ e.id # Session!None /\ atWork = {}
  BY NoTraceIs DEF Fits, TracesAre, DesktopAssumption, Session!None
<1>2. PICK first \in TraceRows :
        /\ to = [done |-> acc.done, current |-> first]
        /\ first.turn = e.id /\ first.started = {} /\ first.steps = << >> /\ first.cost = 0
  BY <1>1, StartStep DEF TracesAre
<1>3. /\ StartsIn(t) = StartsIn(s) \cup {N} /\ UpTo(t, N) = StartsIn(t) /\ TurnIn(t, N) = {N}
      /\ \A i \in StartsIn(s) : UpTo(t, i) = UpTo(s, i) /\ TurnIn(t, i) = TurnIn(s, i)
  BY TurnBegins
<1>4. /\ Len(s) \in Nat /\ StartsIn(s) \subseteq 1..Len(s) /\ t[N] = e /\ \A i \in 1..Len(s) : t[i] = s[i]
  BY DEF StartsIn
<1>5. /\ acc.done \in Seq(TraceRows) /\ Cardinality(StartsIn(s)) = Len(acc.done)
      /\ \A i \in StartsIn(s) : TraceIs(s, i, TraceOf(acc, Cardinality(UpTo(s, i))))
  BY <1>1 DEF TracesAre
<1>6. Cardinality(StartsIn(t)) = Len(acc.done) + 1
  BY <1>3, <1>4, <1>5, OneMorePlace
<1>7. SeenIn(t, N) = {} /\ PaidIn(t, N) = {}
  <2>1. \A j \in TurnIn(t, N) : t[j].type = "turn.start"
    BY <1>3, <1>4
  <2> HIDE DEF t, N
  <2> QED
    BY <2>1 DEF SeenIn, SeenAt, PaidIn
<1>8. ASSUME NEW i \in StartsIn(t) PROVE TraceIs(t, i, TraceOf(to, Cardinality(UpTo(t, i))))
  <2>1. CASE i = N
    <3>1. TraceOf(to, Cardinality(UpTo(t, i))) = first
      <4>1. UpTo(t, i) = StartsIn(t) /\ Len(acc.done) \in Nat
        BY <1>3, <1>5, <2>1
      <4>2. to.done = acc.done /\ to.current = first
        BY <1>2
      <4> HIDE DEF t, to
      <4> QED
        BY <1>6, <4>1, <4>2 DEF TraceOf
    <3>2. Len(<< >>) = 0 /\ Cardinality({}) = 0
      BY FS_EmptySet
    <3> HIDE DEF t, to, N
    <3> QED
      BY <1>2, <1>4, <1>7, <2>1, <3>1, <3>2 DEF TraceIs
  <2>2. CASE i \in StartsIn(s)
    <3>1. Cardinality(UpTo(s, i)) \in 1..Len(acc.done)
      BY <1>5, <2>2, NumberIs
    <3>2. TraceOf(to, Cardinality(UpTo(t, i))) = TraceOf(acc, Cardinality(UpTo(s, i)))
      BY <1>2, <1>3, <2>2, <3>1 DEF TraceOf
    <3>3. SeenIn(t, i) = SeenIn(s, i) /\ PaidIn(t, i) = PaidIn(s, i)
      BY <1>3, <2>2, SeenStays
    <3>4. t[i] = s[i]
      BY <1>4, <2>2
    <3> HIDE DEF t, to, N
    <3> QED
      BY <1>5, <2>2, <3>2, <3>3, <3>4 DEF TraceIs
  <2> QED
    BY <1>3, <2>1, <2>2
<1> HIDE DEF t, N
<1>9. /\ to = [done |-> to.done, current |-> to.current] /\ to.done = acc.done /\ to.current = first
  BY <1>2
<1> HIDE DEF to
<1> QED
  BY <1>1, <1>2, <1>5, <1>6, <1>8, <1>9 DEF TracesAre, t, to

\* A turn ends: its trace is the last of those that are done.
LEMMA TracesEnd ==
  ASSUME NEW E, NEW s \in Seq(E), NEW e \in E, NEW acc, NEW turn, NEW atWork,
         TracesAre(s, acc, turn, atWork), Fits(s, turn, atWork, e), e.type = "turn.end"
  PROVE  TracesAre(Append(s, e), Session!TraceStep(acc, e), Session!None, {})
<1> DEFINE t == Append(s, e)
           to == Session!TraceStep(acc, e)
<1>1. turn # Session!None /\ e.id = turn /\ acc.current.turn = turn
  BY DEF Fits, TracesAre
<1>2. PICK last \in TraceRows :
        /\ to = [done |-> Append(acc.done, last), current |-> Session!NoTrace]
        /\ last.turn = acc.current.turn /\ last.steps = acc.current.steps /\ last.cost = acc.current.cost
  BY <1>1, EndStep DEF TracesAre
<1>3. /\ acc.done \in Seq(TraceRows) /\ Cardinality(StartsIn(s)) = Len(acc.done) + 1
      /\ \A i \in StartsIn(s) : TraceIs(s, i, TraceOf(acc, Cardinality(UpTo(s, i))))
  BY <1>1 DEF TracesAre
<1>4. /\ Append(acc.done, last) \in Seq(TraceRows) /\ Len(Append(acc.done, last)) = Len(acc.done) + 1
      /\ Append(acc.done, last)[Len(acc.done) + 1] = last /\ Len(acc.done) \in Nat
      /\ \A n \in 1..Len(acc.done) : Append(acc.done, last)[n] = acc.done[n]
  BY <1>2, <1>3
<1>5. /\ StartsIn(s) \subseteq 1..Len(s) /\ \A i \in 1..Len(s) : t[i] = s[i]
  BY DEF StartsIn
<1>6. ASSUME NEW i \in StartsIn(s) PROVE TraceIs(t, i, TraceOf(to, Cardinality(UpTo(s, i))))
  <2> DEFINE n == Cardinality(UpTo(s, i))
  <2>1. n \in 1..Len(acc.done) + 1
    BY <1>3, NumberIs
  <2>2. SeenIn(t, i) = SeenIn(s, i) /\ PaidIn(t, i) = PaidIn(s, i)
    <3>1. CASE IsLast(s, i)
      <4>1. TurnIn(t, i) = TurnIn(s, i) \cup {Len(s) + 1}
        BY <1>1, <3>1, TurnGrows
      <4> QED
        BY <1>1, <4>1, SeenGrows DEF SeenNow
    <3>2. CASE ~ IsLast(s, i)
      <4>1. TurnIn(t, i) = TurnIn(s, i)
        BY <1>1, <3>2, TurnGrows
      <4> QED
        BY <4>1, SeenStays
    <3> QED
      BY <3>1, <3>2
  <2>3. t[i] = s[i]
    BY <1>5
  <2>4. to.done = Append(acc.done, last)
    BY <1>2
  <2> HIDE DEF t, to, n
  <2>5. /\ TraceOf(to, n).turn = TraceOf(acc, n).turn /\ TraceOf(to, n).steps = TraceOf(acc, n).steps
        /\ TraceOf(to, n).cost = TraceOf(acc, n).cost
    <3>1. CASE n <= Len(acc.done)
      BY <1>4, <2>1, <2>4, <3>1 DEF TraceOf
    <3>2. CASE ~ (n <= Len(acc.done))
      <4>1. n = Len(acc.done) + 1
        BY <1>4, <2>1, <3>2
      <4>2. TraceOf(to, n) = last /\ TraceOf(acc, n) = acc.current
        BY <1>4, <2>4, <3>2, <4>1 DEF TraceOf
      <4> QED
        BY <1>2, <4>2
    <3> QED
      BY <3>1, <3>2
  <2>6. TraceIs(s, i, TraceOf(acc, n))
    BY <1>3 DEF n
  <2>7. TraceIs(t, i, TraceOf(to, n))
    BY <2>2, <2>3, <2>5, <2>6 DEF TraceIs
  <2> QED
    BY <2>7 DEF n
<1>7. \A i \in StartsIn(s) : StartsIn(t) = StartsIn(s) /\ UpTo(t, i) = UpTo(s, i)
  BY <1>1, TurnGrows
<1>8. StartsIn(t) = StartsIn(s)
  BY <1>1, StartsStay
<1>9. to.done = Append(acc.done, last) /\ to.current = Session!NoTrace /\ to = [done |-> to.done, current |-> to.current]
  BY <1>2
<1> HIDE DEF t, to
<1> QED
  BY <1>3, <1>4, <1>6, <1>7, <1>8, <1>9, NoTraceIs DEF TracesAre, t, to

\* Nothing that happens between turns is seen in one.
LEMMA TracesIdle ==
  ASSUME NEW E, NEW s \in Seq(E), NEW e \in E, NEW acc, NEW atWork,
         TracesAre(s, acc, Session!None, atWork), Fits(s, Session!None, atWork, e), e.type # "turn.start"
  PROVE  TracesAre(Append(s, e), Session!TraceStep(acc, e), Session!None, atWork)
<1> DEFINE t == Append(s, e)
<1>1. e.type \notin {"turn.end", "tool.start", "tool.end", "tool.code.dispatch", "usage.recorded"}
  BY DEF Fits
<1>2. Session!TraceStep(acc, e) = acc /\ atWork = {}
  BY ClosedStep, NoTraceIs DEF TracesAre
<1>3. StartsIn(t) = StartsIn(s) /\ StartsIn(s) \subseteq 1..Len(s) /\ \A i \in 1..Len(s) : t[i] = s[i]
  BY StartsStay
<1>4. ASSUME NEW i \in StartsIn(s) PROVE TraceIs(t, i, TraceOf(acc, Cardinality(UpTo(t, i))))
  <2>1. UpTo(t, i) = UpTo(s, i) /\ t[i] = s[i]
    BY <1>3, TurnGrows
  <2>2. SeenIn(t, i) = SeenIn(s, i) /\ PaidIn(t, i) = PaidIn(s, i)
    <3>1. CASE IsLast(s, i)
      <4>1. TurnIn(t, i) = TurnIn(s, i) \cup {Len(s) + 1}
        BY <3>1, TurnGrows
      <4> QED
        BY <1>1, <4>1, SeenGrows DEF SeenNow
    <3>2. CASE ~ IsLast(s, i)
      <4>1. TurnIn(t, i) = TurnIn(s, i)
        BY <3>2, TurnGrows
      <4> QED
        BY <4>1, SeenStays
    <3> QED
      BY <3>1, <3>2
  <2>3. TraceIs(s, i, TraceOf(acc, Cardinality(UpTo(s, i))))
    BY DEF TracesAre
  <2> HIDE DEF t
  <2> QED
    BY <2>1, <2>2, <2>3 DEF TraceIs
<1> HIDE DEF t
<1> QED
  BY <1>2, <1>3, <1>4 DEF TracesAre, t

\* An event in a turn is added to the trace of the turn, the last one.
LEMMA TracesGoOn ==
  ASSUME NEW E, NEW s \in Seq(E), NEW e \in E, NEW acc, NEW turn, NEW atWork, turn # Session!None,
         TracesAre(s, acc, turn, atWork), Fits(s, turn, atWork, e), e.type \notin {"turn.start", "turn.end"}
  PROVE  TracesAre(Append(s, e), Session!TraceStep(acc, e), turn, RunningAfter(atWork, e))
<1> DEFINE t == Append(s, e)
           N == Len(s) + 1
           to == Session!TraceStep(acc, e)
           cur == acc.current
           seen == e.type = "tool.code.dispatch" \/ (e.type = "tool.end" /\ e.id \in atWork)
<1>1. /\ cur \in TraceRows /\ cur.turn = turn /\ cur.started = atWork /\ atWork \subseteq Calls
      /\ acc.done \in Seq(TraceRows) /\ acc = [done |-> acc.done, current |-> acc.current]
      /\ Cardinality(StartsIn(s)) = Len(acc.done) + 1
      /\ \A i \in StartsIn(s) : TraceIs(s, i, TraceOf(acc, Cardinality(UpTo(s, i))))
      /\ \A i \in StartsIn(s) : IsLast(s, i) =>
           \A c \in atWork : \E j \in TurnIn(s, i) : s[j].type = "tool.start" /\ s[j].id = c
  BY DEF TracesAre, TraceRows
<1>2. e.type \in {"tool.start", "tool.end", "tool.code.dispatch"} => e.id \in Calls
  BY <1>1 DEF Fits
<1>3. /\ to = [done |-> acc.done, current |-> to.current] /\ to.current \in TraceRows
      /\ to.current.turn = turn /\ to.current.started = RunningAfter(atWork, e)
      /\ Len(to.current.steps) = IF seen THEN Len(cur.steps) + 1 ELSE Len(cur.steps)
      /\ to.current.cost = IF e.type = "usage.recorded" THEN cur.cost + 1 ELSE cur.cost
  BY <1>1, <1>2, CurrentStep
<1>4. /\ StartsIn(t) = StartsIn(s) /\ StartsIn(s) \subseteq 1..Len(s) /\ Len(s) \in Nat
      /\ t[N] = e /\ \A i \in 1..Len(s) : t[i] = s[i]
  BY StartsStay
<1>5. ASSUME NEW i \in StartsIn(s), IsLast(s, i) PROVE SeenNow(s, i, e) <=> seen
  <2>1. \A j \in TurnIn(s, i) : j \in DOMAIN s
    BY DEF TurnIn
  <2> QED
    BY <1>1, <1>5, <2>1 DEF SeenNow, Fits
<1> HIDE DEF seen
<1>6. ASSUME NEW i \in StartsIn(s) PROVE TraceIs(t, i, TraceOf(to, Cardinality(UpTo(t, i))))
  <2>1. UpTo(t, i) = UpTo(s, i) /\ t[i] = s[i]
    BY <1>4, TurnGrows
  <2>2. /\ Cardinality(UpTo(s, i)) \in 1..Len(acc.done) + 1 /\ Len(acc.done) \in Nat
        /\ IsLast(s, i) <=> Cardinality(UpTo(s, i)) = Len(acc.done) + 1
    BY <1>1, NumberIs
  <2>3. to.done = acc.done
    BY <1>3
  <2>4. TraceIs(s, i, TraceOf(acc, Cardinality(UpTo(s, i))))
    BY <1>1
  <2>5. CASE IsLast(s, i)
    <3>1. TurnIn(t, i) = TurnIn(s, i) \cup {N}
      BY <2>5, TurnGrows
    <3>2. /\ SeenIn(t, i) = IF seen THEN SeenIn(s, i) \cup {N} ELSE SeenIn(s, i)
          /\ PaidIn(t, i) = IF e.type = "usage.recorded" THEN PaidIn(s, i) \cup {N} ELSE PaidIn(s, i)
      BY <1>5, <2>5, <3>1, SeenGrows
    <3>3. SeenIn(s, i) \subseteq 1..Len(s) /\ PaidIn(s, i) \subseteq 1..Len(s)
      BY DEF SeenIn, PaidIn, TurnIn
    <3>4. TraceOf(to, Cardinality(UpTo(s, i))) = to.current /\ TraceOf(acc, Cardinality(UpTo(s, i))) = cur
      <4> HIDE DEF to
      <4> QED
        BY <2>2, <2>3, <2>5 DEF TraceOf
    <3>5. /\ Cardinality(SeenIn(s, i) \cup {N}) = Cardinality(SeenIn(s, i)) + 1
          /\ Cardinality(PaidIn(s, i) \cup {N}) = Cardinality(PaidIn(s, i)) + 1
      BY <1>4, <3>3, OneMorePlace
    <3>6. cur.turn = s[i].id /\ Len(cur.steps) = Cardinality(SeenIn(s, i)) /\ cur.cost = Cardinality(PaidIn(s, i))
      BY <2>4, <3>4 DEF TraceIs
    <3> HIDE DEF to, t, N, cur
    <3>7. to.current.turn = t[i].id
      BY <1>1, <1>3, <2>1, <3>6
    <3>8. Len(to.current.steps) = Cardinality(SeenIn(t, i))
      BY <1>3, <3>2, <3>5, <3>6
    <3>9. to.current.cost = Cardinality(PaidIn(t, i))
      BY <1>3, <3>2, <3>5, <3>6
    <3> QED
      BY <2>1, <3>4, <3>7, <3>8, <3>9 DEF TraceIs
  <2>6. CASE ~ IsLast(s, i)
    <3>1. TurnIn(t, i) = TurnIn(s, i)
      BY <2>6, TurnGrows
    <3>2. SeenIn(t, i) = SeenIn(s, i) /\ PaidIn(t, i) = PaidIn(s, i)
      BY <3>1, SeenStays
    <3> HIDE DEF to, t
    <3>3. TraceOf(to, Cardinality(UpTo(s, i))) = TraceOf(acc, Cardinality(UpTo(s, i)))
      BY <2>2, <2>3, <2>6 DEF TraceOf
    <3> QED
      BY <2>1, <2>4, <3>2, <3>3 DEF TraceIs
  <2> QED
    BY <2>5, <2>6
<1>7. ASSUME NEW i \in StartsIn(s), IsLast(s, i), NEW c \in RunningAfter(atWork, e)
      PROVE  \E j \in TurnIn(t, i) : t[j].type = "tool.start" /\ t[j].id = c
  <2>1. TurnIn(t, i) = TurnIn(s, i) \cup {N} /\ TurnIn(s, i) \subseteq 1..Len(s)
    BY <1>7, TurnGrows DEF TurnIn
  <2>2. c \in atWork \/ (e.type = "tool.start" /\ c = e.id)
    BY <1>7 DEF RunningAfter
  <2>3. CASE c \in atWork
    <3>1. PICK j \in TurnIn(s, i) : s[j].type = "tool.start" /\ s[j].id = c
      BY <1>1, <1>7, <2>3
    <3> HIDE DEF t, N
    <3> QED
      BY <1>4, <2>1, <3>1
  <2>4. CASE e.type = "tool.start" /\ c = e.id
    <3> HIDE DEF t, N
    <3> QED
      BY <1>4, <2>1, <2>4
  <2> QED
    BY <2>2, <2>3, <2>4
<1>8. \A i \in StartsIn(s) : IsLast(t, i) = IsLast(s, i)
  BY TurnGrows
<1>9. to = [done |-> to.done, current |-> to.current] /\ to.done = acc.done
  BY <1>3
<1> HIDE DEF t, to, N
<1> QED
  BY <1>1, <1>3, <1>4, <1>6, <1>7, <1>8, <1>9 DEF TracesAre, t, to

\* The traces of the log.
TraceInv == TracesAre(events, Traced(events), reduced.turn, reduced.running)

\* A recorded event keeps the traces right.
LEMMA TracesKept ==
  ASSUME DesktopAssumption, LogIsASequence, TraceInv, NEW e \in Session!Recordable, Session!Record(e)
  PROVE  TraceInv'
<1>1. PICK E : E = Session!ToSet(events) \cup {e}
  OBVIOUS
<1>2. PICK s : s = events /\ s \in Seq(E) /\ e \in E
  BY <1>1 DEF LogIsASequence
<1>3. PICK st : st = reduced
  OBVIOUS
<1>4. events' = Append(s, e) /\ reduced' = Session!Reduce(st, e)
  BY <1>2, <1>3 DEF Session!Record
<1>5. TracesAre(s, Traced(s), st.turn, st.running)
  BY <1>2, <1>3 DEF TraceInv
<1>6. Fits(s, st.turn, st.running, e)
  <2>1. e.type = "tool.end" /\ e.id \notin Session!Known("tool.start")
          => \A j \in DOMAIN s : s[j].type = "tool.start" => s[j].id # e.id
    BY <1>2 DEF Session!Known, Session!Types, Session!ToSet
  <2> QED
    BY <1>3, <2>1, Recorded DEF Fits
<1>7. Traced(Append(s, e)) = Session!TraceStep(Traced(s), e)
  BY <1>2, TraceOneMore
<1>8. /\ Session!Reduce(st, e).turn = Session!OpenTurn(st, e)
      /\ Session!Reduce(st, e).running = RunningAfter(st.running, e)
  BY Recorded DEF Session!Reduce, Session!Running, RunningAfter
<1>9. TracesAre(Append(s, e), Session!TraceStep(Traced(s), e), Session!OpenTurn(st, e), RunningAfter(st.running, e))
  <2>1. CASE e.type = "turn.start"
    <3>1. Session!OpenTurn(st, e) = e.id /\ RunningAfter(st.running, e) = st.running
      BY <2>1 DEF Session!OpenTurn, RunningAfter
    <3> QED
      BY <1>2, <1>5, <1>6, <2>1, <3>1, TracesBegin
  <2>2. CASE e.type = "turn.end"
    <3>1. Session!OpenTurn(st, e) = Session!None /\ RunningAfter(st.running, e) = {}
      BY <2>2 DEF Session!OpenTurn, RunningAfter
    <3> QED
      BY <1>2, <1>5, <1>6, <2>2, <3>1, TracesEnd
  <2>3. CASE e.type \notin {"turn.start", "turn.end"} /\ st.turn = Session!None
    <3>1. Session!OpenTurn(st, e) = Session!None /\ RunningAfter(st.running, e) = st.running
      BY <1>6, <2>3 DEF Session!OpenTurn, RunningAfter, Fits
    <3> QED
      BY <1>2, <1>5, <1>6, <2>3, <3>1, TracesIdle
  <2>4. CASE e.type \notin {"turn.start", "turn.end"} /\ st.turn # Session!None
    <3>1. Session!OpenTurn(st, e) = st.turn
      BY <2>4 DEF Session!OpenTurn
    <3> QED
      BY <1>2, <1>5, <1>6, <2>4, <3>1, TracesGoOn
  <2> QED
    BY <2>1, <2>2, <2>3, <2>4
<1>10. PICK t : t = Append(s, e)
  OBVIOUS
<1>11. PICK to : to = Session!Reduce(st, e)
  OBVIOUS
<1>12. TracesAre(t, Traced(t), to.turn, to.running) /\ events' = t /\ reduced' = to
  BY <1>4, <1>7, <1>8, <1>9, <1>10, <1>11
<1> QED
  BY <1>12 DEF TraceInv

\* No turn, no trace.
LEMMA TracesStart == MachinesInit => TraceInv
<1> SUFFICES ASSUME MachinesInit PROVE TraceInv
  OBVIOUS
<1>1. events = << >> /\ reduced.turn = Session!None /\ reduced.running = {}
  BY DEF MachinesInit, Session!Init, Session!EmptySessionState
<1>2. Traced(<< >>) = [done |-> << >>, current |-> Session!NoTrace]
  <2>1. << >> \in Seq({0})
    OBVIOUS
  <2> QED
    BY <2>1, TraceOneMore
<1>3. StartsIn(<< >>) = {} /\ Cardinality({}) = 0 /\ Len(<< >>) = 0 /\ << >> \in Seq(TraceRows)
  BY FS_EmptySet DEF StartsIn
<1>4. PICK acc : acc = [done |-> << >>, current |-> Session!NoTrace]
  OBVIOUS
<1>5. acc.done = << >> /\ acc.current = Session!NoTrace /\ acc = [done |-> acc.done, current |-> acc.current]
  BY <1>4
<1>6. Cardinality(StartsIn(<< >>)) = 0 /\ Len(acc.done) = 0 /\ acc.done \in Seq(TraceRows)
  BY <1>3, <1>5
<1>7. TracesAre(<< >>, acc, Session!None, {})
  BY <1>3, <1>5, <1>6, NoTraceIs DEF TracesAre
<1> QED
  BY <1>1, <1>2, <1>4, <1>7 DEF TraceInv

\* A trace per turn, in order, with the turn's calls and its cost (derive-trace.ts).
LEMMA TracesAreTurns == LogIsASequence /\ TraceInv => Session!TracesAreTheTurns
<1> SUFFICES ASSUME LogIsASequence, TraceInv PROVE Session!TracesAreTheTurns
  OBVIOUS
<1>1. PICK E : E = Session!ToSet(events)
  OBVIOUS
<1>2. PICK s : s = events /\ s \in Seq(E)
  BY <1>1 DEF LogIsASequence
<1>3. PICK acc : acc = Traced(s)
  OBVIOUS
<1>4. PICK turn : turn = reduced.turn
  OBVIOUS
<1>5. PICK atWork : atWork = reduced.running
  OBVIOUS
<1>6. TracesAre(s, acc, turn, atWork)
  BY <1>2, <1>3, <1>4, <1>5 DEF TraceInv
<1>7. Session!DeriveTraces(events) = IF acc.current = Session!NoTrace THEN acc.done
                                     ELSE Append(acc.done, Session!Finalize(acc.current, FALSE))
  BY <1>2, <1>3 DEF Session!DeriveTraces, Traced
<1>8. PICK traces : traces = Session!DeriveTraces(events)
  OBVIOUS
<1>9. /\ acc.done \in Seq(TraceRows) /\ acc.current \in TraceRows /\ Len(acc.done) \in Nat
      /\ acc.current = Session!NoTrace <=> turn = Session!None
      /\ Cardinality(StartsIn(s)) = Len(acc.done) + (IF turn = Session!None THEN 0 ELSE 1)
      /\ \A i \in StartsIn(s) : TraceIs(s, i, TraceOf(acc, Cardinality(UpTo(s, i))))
  BY <1>6, NoTraceIs DEF TracesAre
<1>10. PICK last : last = Session!Finalize(acc.current, FALSE)
  OBVIOUS
<1>11. last.turn = acc.current.turn /\ last.steps = acc.current.steps /\ last.cost = acc.current.cost
  BY <1>9, <1>10 DEF Session!Finalize, TraceRows
<1> DEFINE total == Cardinality(StartsIn(s))
           extra == Append(acc.done, last)
<1>12. /\ Len(extra) = Len(acc.done) + 1 /\ extra[Len(acc.done) + 1] = last
       /\ \A n \in 1..Len(acc.done) : extra[n] = acc.done[n]
  BY <1>9
<1>13. \/ turn = Session!None /\ traces = acc.done /\ total = Len(acc.done)
       \/ turn # Session!None /\ traces = extra /\ total = Len(acc.done) + 1
  <2>1. CASE turn = Session!None
    <3>1. traces = acc.done
      BY <1>7, <1>8, <1>9, <2>1
    <3> QED
      BY <1>9, <2>1, <3>1
  <2>2. CASE turn # Session!None
    <3>1. traces = extra
      BY <1>7, <1>8, <1>9, <1>10, <2>2
    <3>2. total = Len(acc.done) + 1
      BY <1>9, <2>2
    <3> QED
      BY <2>2, <3>1, <3>2
  <2> QED
    BY <2>1, <2>2
<1> HIDE DEF total, extra
<1>14. Len(traces) = Cardinality(StartsIn(s))
  BY <1>12, <1>13 DEF total
<1>15. ASSUME NEW i \in StartsIn(s) PROVE TraceIs(s, i, traces[Cardinality(UpTo(s, i))])
  <2>1. PICK n : n = Cardinality(UpTo(s, i))
    OBVIOUS
  <2>2. n \in 1..Cardinality(StartsIn(s))
    BY <1>2, <2>1, NumberIs
  <2>3. CASE n <= Len(acc.done)
    <3>1. n \in 1..Len(acc.done)
      <4>1. n \in 1..total
        BY <2>2 DEF total
      <4> QED
        BY <1>9, <1>13, <2>3, <4>1
    <3>2. traces[n] = acc.done[n]
      BY <1>12, <1>13, <3>1
    <3> QED
      BY <1>9, <2>1, <2>3, <3>2 DEF TraceOf
  <2>4. CASE ~ (n <= Len(acc.done))
    <3>1. n = Len(acc.done) + 1 /\ turn # Session!None
      <4>1. n \in 1..total
        BY <2>2 DEF total
      <4> QED
        BY <1>9, <1>13, <2>4, <4>1
    <3>2. traces[n] = last
      BY <1>12, <1>13, <3>1
    <3>3. TraceOf(acc, n) = acc.current
      BY <2>4 DEF TraceOf
    <3>4. TraceIs(s, i, acc.current)
      BY <1>9, <2>1, <3>3
    <3> QED
      BY <1>11, <2>1, <3>2, <3>4 DEF TraceIs
  <2> QED
    BY <2>3, <2>4
<1>16. Session!Starts = StartsIn(s)
  BY <1>2 DEF Session!Starts, StartsIn
<1>17. ASSUME NEW i \in StartsIn(s)
       PROVE  /\ {j \in StartsIn(s) : j <= i} = UpTo(s, i) /\ Session!Turn(i) = TurnIn(s, i)
              /\ Session!CallsSeen(i) = SeenIn(s, i) /\ Session!Paid(i) = PaidIn(s, i)
  <2>1. Session!Turn(i) = TurnIn(s, i)
    BY <1>2, <1>16 DEF Session!Turn, TurnIn
  <2> QED
    BY <1>2, <2>1 DEF UpTo, Session!CallsSeen, Session!Paid, SeenIn, SeenAt, PaidIn
<1>18. /\ Len(traces) = Session!Cardinality(Session!Starts)
       /\ \A i \in Session!Starts :
            LET trace == traces[Session!Cardinality({j \in Session!Starts : j <= i})]
            IN  /\ trace.turn = events[i].id
                /\ Len(trace.steps) = Session!Cardinality(Session!CallsSeen(i))
                /\ trace.cost = Session!Cardinality(Session!Paid(i))
  BY <1>2, <1>14, <1>15, <1>16, <1>17, SameSessionCount DEF TraceIs
<1> QED
  BY <1>8, <1>18 DEF Session!TracesAreTheTurns

-----------------------------------------------------------------------------
\* What the log says of the state.
DerivedInv == LogIsASequence /\ SnapshotsResume /\ MarkInv /\ TraceInv

\* Every step of a machine keeps the state that of the log.
LEMMA DerivedKept == DesktopAssumption /\ DerivedInv /\ [MachinesNext]_machineVars => DerivedInv'
<1> SUFFICES ASSUME DesktopAssumption, DerivedInv, [MachinesNext]_machineVars PROVE DerivedInv'
  OBVIOUS
<1>1. Session!Next \/ UNCHANGED stateVars
  BY DEF MachinesNext, Moves, machineVars
<1>2. CASE UNCHANGED stateVars
  BY <1>2 DEF stateVars, DerivedInv, LogIsASequence, SnapshotsResume, MarkInv, TraceInv
<1>3. CASE Session!Next
  <2>1. PICK e \in Session!Recordable : Session!Record(e)
    BY <1>3 DEF Session!Next
  <2>2. LogIsASequence'
    BY <2>1, LastOfAppend DEF Session!Record, DerivedInv, LogIsASequence
  <2>3. SnapshotsResume'
    BY <2>1, <2>2, SnapshotsStep DEF DerivedInv
  <2>4. MarkInv'
    BY <2>1, MarkKept DEF DerivedInv
  <2>5. TraceInv'
    BY <2>1, TracesKept DEF DerivedInv
  <2> QED
    BY <2>2, <2>3, <2>4, <2>5 DEF DerivedInv
<1> QED
  BY <1>1, <1>2, <1>3

\* The state of a session is the same from a snapshot and from the whole log, its mark of
\* untrusted content names the first source since it was cleared, and its traces are its turns
\* (reduce.ts, snapshot.ts, derive-trace.ts).
THEOREM StateFollowsTheLog == MachinesSpec => []StateIsDerived
<1>1. MachinesInit => DerivedInv
  BY SessionStarts, SnapshotsStart, MarkStarts, TracesStart DEF DerivedInv, SessionInv
<1>2. DerivedInv => StateIsDerived
  BY SnapshotsDo, MarkHasASource, TracesAreTurns DEF DerivedInv, StateIsDerived
<1> QED
  BY <1>1, <1>2, DerivedKept, DesktopAssumption, PTL DEF MachinesSpec

-----------------------------------------------------------------------------
(* The files contents are kept in: a writer beyond its first sync has a    *)
(* synced file, and a reference without doubt a whole one on the disk.     *)

\* Where a writer may stand.
Standing == [pc : {"idle", "writing", "written", "replacing", "renamed", "reusing"},
             content : Contents, synced : BOOLEAN]

\* A writer beyond its first sync has a synced file, and one that stands between
\* its check and its end stands on a whole one.
WriterStands(w) ==
  LET c == writer[w].content IN
  /\ c \in Contents
  /\ writer[w].pc \in {"written", "replacing", "renamed", "reusing"} => writer[w].synced
  /\ writer[w].pc \in {"renamed", "reusing"} => file[c] = "whole"

\* What a reference names without doubt is whole, synced, and entered on the disk.
IsKept(c) == file[c] = "whole" /\ listed[c] = "whole"

BlobsInv ==
  /\ writer \in [Writers -> Standing]
  /\ file \in [Contents -> Blobs!FileStates] /\ listed \in [Contents -> Blobs!FileStates]
  /\ refs \subseteq Contents
  /\ \A w \in Writers : WriterStands(w)
  /\ \A c \in Contents : file[c] = "whole" => c \in synced
  /\ \A c \in refs \ unsure : IsKept(c)

\* A writer that is idle, or that goes on with its content.
LEMMA OneBlobWriter ==
  ASSUME BlobsInv, NEW w \in Writers, NEW to, writer' = [writer EXCEPT ![w] = to],
         to \in Standing,
         to.pc \in {"written", "replacing", "renamed", "reusing"} => to.synced,
         to.pc \in {"renamed", "reusing"} => file'[to.content] = "whole",
         \A c \in Contents : file[c] = "whole" => file'[c] = "whole"
  PROVE  /\ writer' \in [Writers -> Standing]
         /\ \A v \in Writers : WriterStands(v)'
<1>1. /\ writer' \in [Writers -> Standing]
      /\ writer'[w] = to /\ \A v \in Writers \ {w} : writer'[v] = writer[v]
  BY DEF BlobsInv
<1> QED
  BY <1>1 DEF BlobsInv, WriterStands, Standing

\* An idle writer.
LEMMA IdleIs ==
  ASSUME NEW c \in Contents
  PROVE  /\ Blobs!Idle \in Standing
         /\ Blobs!Idle.pc = "idle"
  BY DEF Blobs!Idle, Standing

\* One step of a writer.
LEMMA BlobWriterStep ==
  ASSUME BlobsInv, NEW w \in Writers,
         (\E c \in Contents : Blobs!Put(w, c)) \/ Blobs!PutFails(w) \/ Blobs!Write(w) \/ Blobs!Check(w) \/ Blobs!Rename(w)
           \/ Blobs!FsyncDir(w) \/ Blobs!Reuse(w)
  PROVE  BlobsInv'
<1> DEFINE c == writer[w].content
<1>1. /\ c \in Contents /\ WriterStands(w)
  BY DEF BlobsInv, WriterStands
<1>2. /\ Blobs!Idle \in Standing
      /\ Blobs!Idle.pc = "idle"
  BY <1>1, IdleIs
<1>3. ASSUME NEW b \in Contents, Blobs!Put(w, b) PROVE BlobsInv'
  <2> DEFINE to == [pc |-> "writing", content |-> b, synced |-> FALSE]
  <2>1. to \in Standing /\ to.pc = "writing"
    BY DEF Standing
  <2> QED
    BY <1>3, <2>1, OneBlobWriter DEF Blobs!Put, BlobsInv, IsKept
<1>4. CASE Blobs!PutFails(w)
  BY <1>2, <1>4, OneBlobWriter DEF Blobs!PutFails, BlobsInv, IsKept
<1>5. CASE Blobs!Write(w)
  <2> DEFINE to == [writer[w] EXCEPT !.pc = "written", !.synced = TRUE]
  <2>1. writer' = [writer EXCEPT ![w] = to]
    BY <1>5 DEF Blobs!Write
  <2>2. to \in Standing /\ to.pc = "written" /\ to.synced
    BY DEF BlobsInv, Standing
  <2> QED
    BY <1>5, <2>1, <2>2, OneBlobWriter DEF Blobs!Write, BlobsInv, IsKept
<1>6. CASE Blobs!Check(w)
  <2>1. PICK pc \in {"reusing", "replacing"} :
          /\ writer' = [writer EXCEPT ![w] = [writer[w] EXCEPT !.pc = pc]]
          /\ pc = "reusing" => file[c] = "whole"
    BY <1>1, <1>6 DEF Blobs!Check, Blobs!Goto, Blobs!ValidBlob, BlobsInv
  <2> DEFINE to == [writer[w] EXCEPT !.pc = pc]
  <2>2. to \in Standing /\ to.pc = pc /\ to.content = c /\ to.synced
    BY <1>1, <1>6 DEF BlobsInv, Standing, Blobs!Check, Blobs!At, WriterStands
  <2> QED
    BY <1>1, <1>6, <2>1, <2>2, OneBlobWriter DEF Blobs!Check, BlobsInv, IsKept
<1>7. CASE Blobs!Rename(w)
  <2> DEFINE to == [writer[w] EXCEPT !.pc = "renamed"]
  <2>1. writer' = [writer EXCEPT ![w] = to]
    BY <1>7 DEF Blobs!Rename, Blobs!Goto
  <2>2. /\ to \in Standing /\ to.pc = "renamed" /\ to.content = c /\ to.synced
        /\ writer[w].synced
    BY <1>1, <1>7 DEF BlobsInv, Standing, Blobs!Rename, Blobs!At, WriterStands
  <2>3. /\ file' \in [Contents -> Blobs!FileStates] /\ file'[c] = "whole"
        /\ \A b \in Contents \ {c} : file'[b] = file[b]
        /\ synced' = synced \union {c} /\ UNCHANGED <<listed, refs, unsure>>
    BY <1>1, <1>7, <2>2 DEF Blobs!Rename, BlobsInv, Blobs!FileStates
  <2> QED
    BY <1>1, <2>1, <2>2, <2>3, OneBlobWriter DEF BlobsInv, IsKept
<1>8. CASE Blobs!FsyncDir(w)
  <2>1. /\ writer' = [writer EXCEPT ![w] = Blobs!Idle] /\ refs' = refs \union {c} /\ unsure' = unsure \ {c}
        /\ file' = file /\ synced' = synced /\ file[c] = "whole"
    BY <1>1, <1>8 DEF Blobs!FsyncDir, Blobs!Returned, Blobs!At, WriterStands
  <2>2. /\ listed' \in [Contents -> Blobs!FileStates] /\ listed'[c] = "whole"
        /\ \A b \in Contents \ {c} : listed'[b] = listed[b]
    BY <1>1, <1>8, <2>1 DEF Blobs!FsyncDir, BlobsInv
  <2> QED
    BY <1>1, <1>2, <2>1, <2>2, OneBlobWriter DEF BlobsInv, IsKept
<1>9. CASE Blobs!Reuse(w)
  <2>1. /\ writer' = [writer EXCEPT ![w] = Blobs!Idle] /\ refs' = refs \union {c}
        /\ unsure' = unsure \union ({c} \ {b \in Contents : listed[b] = "whole"})
        /\ UNCHANGED <<file, synced, listed>> /\ file[c] = "whole"
    BY <1>1, <1>9 DEF Blobs!Reuse, Blobs!Returned, Blobs!At, WriterStands
  <2> QED
    BY <1>1, <1>2, <2>1, OneBlobWriter DEF BlobsInv, IsKept
<1> QED
  BY <1>3, <1>4, <1>5, <1>6, <1>7, <1>8, <1>9

\* A power failure undoes and damages nothing a reference rests on.
LEMMA PowerFails ==
  ASSUME BlobsInv, Blobs!Crash
  PROVE  BlobsInv'
<1>1. PICK lost \in SUBSET Contents :
      \E broken \in SUBSET {c \in Contents : c \notin synced /\ file[c] = "whole"} :
        file' = [c \in Contents |-> IF c \in lost THEN listed[c]
                                    ELSE IF c \in broken THEN "damaged" ELSE file[c]]
  BY DEF Blobs!Crash
<1>2. PICK broken \in SUBSET {c \in Contents : c \notin synced /\ file[c] = "whole"} :
        file' = [c \in Contents |-> IF c \in lost THEN listed[c]
                                    ELSE IF c \in broken THEN "damaged" ELSE file[c]]
  BY <1>1
<1>3. broken = {}
  BY DEF BlobsInv
<1>4. \A c \in Contents : file'[c] \in {file[c], listed[c]}
  BY <1>2, <1>3
<1>5. file' \in [Contents -> Blobs!FileStates] /\ listed' = file'
  BY <1>2, <1>3 DEF Blobs!Crash, BlobsInv
<1>6. \A c \in Contents : file'[c] = "whole" => c \in synced'
  BY DEF Blobs!Crash
<1>7. \A c \in refs' \ unsure' : IsKept(c)'
  BY <1>4, <1>5 DEF Blobs!Crash, BlobsInv, IsKept
<1>8. \A w \in Writers : writer'[w] = Blobs!Idle
  BY DEF Blobs!Crash
<1>9. ASSUME NEW w \in Writers
      PROVE  /\ Blobs!Idle \in Standing
             /\ Blobs!Idle.pc = "idle"
  BY IdleIs DEF BlobsInv, Standing
<1>10. writer' \in [Writers -> Standing]
  BY <1>9 DEF Blobs!Crash
<1>11. \A w \in Writers : WriterStands(w)'
  BY <1>8, <1>9 DEF WriterStands, Standing
<1>12. refs' \subseteq Contents
  BY DEF Blobs!Crash, BlobsInv
<1> QED
  BY <1>5, <1>6, <1>7, <1>10, <1>11, <1>12 DEF BlobsInv

\* A damaged file is no longer referred to.
LEMMA DamageDone ==
  ASSUME BlobsInv, NEW c \in Contents, Blobs!Tamper(c)
  PROVE  BlobsInv'
<1>1. /\ file' \in [Contents -> Blobs!FileStates] /\ file'[c] = "damaged"
      /\ \A b \in Contents \ {c} : file'[b] = file[b]
  BY DEF Blobs!Tamper, BlobsInv, Blobs!FileStates
<1>2. /\ listed' \in [Contents -> Blobs!FileStates]
      /\ \A b \in Contents \ {c} : listed'[b] = listed[b]
  BY DEF Blobs!Tamper, BlobsInv, Blobs!FileStates
<1>3. \A w \in Writers : WriterStands(w)'
  BY <1>1 DEF Blobs!Tamper, BlobsInv, WriterStands
<1> QED
  BY <1>1, <1>2, <1>3 DEF Blobs!Tamper, BlobsInv, IsKept

LEMMA BlobsStart == MachinesInit => BlobsInv
<1> SUFFICES ASSUME Blobs!Init PROVE BlobsInv
  BY DEF MachinesInit
<1>0. PICK b \in Contents : TRUE
  BY DesktopAssumption DEF DesktopAssumption
<1>1. Blobs!Idle \in Standing /\ Blobs!Idle.pc = "idle"
  BY IdleIs
<1>2. ASSUME NEW w \in Writers PROVE WriterStands(w)
  BY <1>1 DEF Blobs!Init, WriterStands, Standing
<1> QED
  BY <1>1, <1>2 DEF Blobs!Init, BlobsInv, Blobs!FileStates

LEMMA BlobsMove == BlobsInv /\ [MachinesNext]_machineVars => BlobsInv'
<1> SUFFICES ASSUME BlobsInv, [MachinesNext]_machineVars PROVE BlobsInv'
  OBVIOUS
<1>1. Blobs!Next \/ UNCHANGED blobVars
  BY DEF MachinesNext, Moves, machineVars
<1>2. CASE UNCHANGED blobVars
  BY <1>2 DEF blobVars, BlobsInv, WriterStands, IsKept
<1>3. CASE Blobs!Next
  BY <1>3, BlobWriterStep, PowerFails, DamageDone DEF Blobs!Next
<1> QED
  BY <1>1, <1>2, <1>3

\* What is counted, and what may be lost or in doubt.
BlobTypes == synced \subseteq Contents /\ unsure \subseteq refs /\ temps \in Nat

LEMMA SameBlobsCount == \A S : Blobs!Cardinality(S) = Cardinality(S)
BY DEF Blobs!Cardinality, Cardinality

LEMMA BlobTypesKept == BlobsInv /\ BlobTypes /\ [MachinesNext]_machineVars => BlobTypes'
<1> SUFFICES ASSUME BlobsInv, BlobTypes, [MachinesNext]_machineVars PROVE BlobTypes'
  OBVIOUS
<1>1. Blobs!Next \/ UNCHANGED blobVars
  BY DEF MachinesNext, Moves, machineVars
<1>2. CASE UNCHANGED blobVars
  BY <1>2 DEF blobVars, BlobTypes
<1>3. \A w \in Writers : writer[w].content \in Contents
  BY DEF BlobsInv, WriterStands
<1>4. ASSUME NEW w \in Writers, NEW c \in Contents, Blobs!Put(w, c) PROVE BlobTypes'
  BY <1>4 DEF Blobs!Put, BlobTypes
<1>5. ASSUME NEW w \in Writers, Blobs!PutFails(w) \/ Blobs!Write(w) \/ Blobs!Check(w) PROVE BlobTypes'
  BY <1>5 DEF Blobs!PutFails, Blobs!Write, Blobs!Check, BlobTypes
<1>6. ASSUME NEW w \in Writers, Blobs!Rename(w) PROVE BlobTypes'
  BY <1>3, <1>6 DEF Blobs!Rename, BlobTypes
<1>7. ASSUME NEW w \in Writers, Blobs!FsyncDir(w) \/ Blobs!Reuse(w) PROVE BlobTypes'
  BY <1>3, <1>7 DEF Blobs!FsyncDir, Blobs!Reuse, Blobs!Returned, BlobTypes
<1>8. CASE Blobs!Crash
  <2> DEFINE left == {w \in Writers : writer[w].pc \in {"writing", "written", "replacing", "reusing"}}
  <2>1. temps' = temps + Cardinality(left)
    BY <1>8, SameBlobsCount DEF Blobs!Crash
  <2>2. IsFiniteSet(left)
    BY DesktopAssumption, FS_Subset DEF DesktopAssumption
  <2>3. Cardinality(left) \in Nat
    BY <2>2, FS_CardinalityType
  <2> HIDE DEF left
  <2>4. temps' \in Nat
    BY <2>1, <2>3 DEF BlobTypes
  <2> QED
    BY <1>8, <2>4 DEF Blobs!Crash, BlobTypes
<1>9. ASSUME NEW c \in Contents, Blobs!Tamper(c) PROVE BlobTypes'
  BY <1>9 DEF Blobs!Tamper, BlobTypes
<1> QED
  BY <1>1, <1>2, <1>4, <1>5, <1>6, <1>7, <1>8, <1>9 DEF Blobs!Next

\* A returned reference names a whole file, whatever other writers of the content do,
\* and after power failures and repairs too (putStream of file-blob-store.ts, ADR-0013).
THEOREM RefsHold == MachinesSpec => []RefsResolve
<1>1. BlobsInv /\ BlobTypes => RefsResolve
  BY DEF BlobsInv, BlobTypes, RefsResolve, Blobs!RefsResolve, Blobs!TypeOK, Blobs!FileStates, IsKept, Standing
<1>2. MachinesInit => BlobTypes
  BY DEF MachinesInit, Blobs!Init, BlobTypes
<1> QED
  BY <1>1, <1>2, BlobsStart, BlobsMove, BlobTypesKept, PTL DEF MachinesSpec

-----------------------------------------------------------------------------
(* A call and what it may reach: what is pinned, given to a tool or judged *)
(* has its claim, and links are followed to their end.                     *)

GatewayAssumption ==
  /\ {"absent", "odd"} \intersect (Gateway!Spelled \union Hosts) = {}
  /\ MaxFields \in Nat

LEMMA GatewayNames == GatewayAssumption
BY DesktopAssumption DEF DesktopAssumption, GatewayAssumption, Gateway!Spelled

\* Links: what a name leads to through a place is at its end.
LinksEnd == /\ link \in [Gateway!Spelled -> RealPlaces]
            /\ \A n \in Gateway!Spelled : link[Gateway!Real(n)] = Gateway!Real(n)

\* The call as it stands.
CallStands == /\ kind \in Gateway!Kinds /\ looked \in 0..Len(fields)
              /\ fields \in Seq(Gateway!Values(kind) \union {"absent"})
              /\ DOMAIN input = DOMAIN fields
              /\ \A i \in DOMAIN fields : i > looked => input[i] = fields[i]
              /\ stage # "resolving" => stage \in {"judging", "running", "refused", "over"}
              /\ stage \in {"judging", "running"} => looked = Len(fields)
              /\ stage \in {"resolving", "judging"} => reached = {}
              /\ stage = "running" => claims \intersect denied = {}

\* What may be connected to has its claim.
PinnedIsClaimed == kind = "host" => \A h \in DOMAIN pinned : pinned[h] \in claims

\* What a file tool is given has its claim, and leads nowhere else unless its link
\* was set anew since.
PathsAreClaimed ==
  kind = "path" =>
    \A i \in 1..looked : \/ fields[i] = "absent" /\ input[i] = "absent"
                         \/ /\ input[i] \in claims \intersect RealPlaces
                            /\ input[i] \notin moved => link[input[i]] = input[i]

\* What a command was given is judged by where it leads, unless a link on the way
\* was set anew since.
WordsAreClaimed ==
  kind = "command" =>
    /\ input = fields
    /\ \A i \in 1..looked : \/ fields[i] = "absent"
                            \/ /\ fields[i] \in Gateway!Spelled
                               /\ moved = {} => Gateway!Real(fields[i]) \in claims

GatewayInv == LinksEnd /\ CallStands /\ PinnedIsClaimed /\ PathsAreClaimed /\ WordsAreClaimed /\ Gateway!JudgedIsReached

\* A link that is set anew leaves the others at their ends, and those that lead past
\* the name it is set for.
LEMMA RelinkKeeps ==
  ASSUME LinksEnd, NEW n \in Gateway!Spelled, NEW p \in RealPlaces, Gateway!Relink(n, p)
  PROVE  /\ LinksEnd'
         /\ \A m \in Gateway!Spelled : m # n /\ link[m] # n => Gateway!Real(m)' = Gateway!Real(m)
         /\ \A m \in Gateway!Spelled : m # n => link'[m] = link[m]
<1>1. /\ link' \in [Gateway!Spelled -> RealPlaces] /\ link'[n] = p
      /\ \A m \in Gateway!Spelled \ {n} : link'[m] = link[m]
  BY DEF Gateway!Relink, LinksEnd
<1>2. /\ RealPlaces \subseteq Gateway!Spelled /\ link[p] = p /\ p # n
      /\ n \in RealPlaces => \A m \in RealPlaces \ {n} : link[m] # n
  BY DEF Gateway!Relink, Gateway!Spelled
<1>3. link'[p] = p
  BY <1>1, <1>2
<1>4. ASSUME NEW m \in Gateway!Spelled, m # n, link[m] # n PROVE Gateway!Real(m)' = Gateway!Real(m)
  <2>1. link[m] \in RealPlaces /\ link'[m] = link[m] /\ link'[link[m]] = link[link[m]]
    BY <1>1, <1>2, <1>4 DEF LinksEnd
  <2> QED
    BY <2>1 DEF Gateway!Real
<1>5. ASSUME NEW m \in Gateway!Spelled PROVE link'[Gateway!Real(m)'] = Gateway!Real(m)'
  <2>1. CASE m = n
    BY <1>1, <1>3, <2>1 DEF Gateway!Real
  <2>2. CASE m # n /\ link[m] = n
    <3>1. Gateway!Real(m)' = p
      BY <1>1, <1>2, <2>2 DEF Gateway!Real
    <3> QED
      BY <1>3, <3>1
  <2>3. CASE m # n /\ link[m] # n
    <3>1. link[m] \in RealPlaces \ {n} /\ Gateway!Real(m) \in RealPlaces /\ link[Gateway!Real(m)] = Gateway!Real(m)
      BY <2>3 DEF LinksEnd, Gateway!Real, Gateway!Spelled
    <3>2. Gateway!Real(m) # n
      BY <1>2, <3>1 DEF Gateway!Real
    <3> QED
      BY <1>1, <1>2, <1>4, <2>3, <3>1, <3>2
  <2> QED
    BY <2>1, <2>2, <2>3
<1> QED
  BY <1>1, <1>4, <1>5 DEF LinksEnd

\* One field of a call about hosts.
LEMMA HostStep ==
  ASSUME GatewayAssumption, GatewayInv, Gateway!ResolveHost
  PROVE  GatewayInv'
<1>1. Len(fields) \in Nat /\ looked' \in 0..Len(fields)
  BY DEF Gateway!ResolveHost, Gateway!Resolving, Gateway!Next1, Gateway!Refuse, GatewayInv, CallStands
<1>2. LinksEnd' /\ CallStands' /\ Gateway!JudgedIsReached'
  BY <1>1 DEF Gateway!ResolveHost, Gateway!Resolving, Gateway!Next1, Gateway!Refuse, Gateway!World, GatewayInv, LinksEnd, Gateway!Real, CallStands, Gateway!JudgedIsReached
<1>3. PathsAreClaimed' /\ WordsAreClaimed'
  BY DEF Gateway!ResolveHost, Gateway!Resolving, Gateway!Next1, Gateway!Refuse, Gateway!World, PathsAreClaimed, WordsAreClaimed
<1>4. PinnedIsClaimed'
  <2>1. CASE Gateway!Field = "absent" \/ Gateway!Field = "odd"
    BY <2>1 DEF Gateway!ResolveHost, Gateway!Resolving, Gateway!Next1, Gateway!Refuse, Gateway!World, GatewayInv, PinnedIsClaimed, GatewayAssumption
  <2>2. CASE Gateway!Field \notin {"absent", "odd"} /\ dns[Gateway!Field] = "none"
    BY <2>2 DEF Gateway!ResolveHost, Gateway!Refuse, Gateway!World, GatewayInv, PinnedIsClaimed
  <2>3. CASE Gateway!Field \notin {"absent", "odd"} /\ dns[Gateway!Field] # "none"
    <3>1. /\ claims' = claims \union {Gateway!Field, dns[Gateway!Field]}
          /\ pinned' = [h \in DOMAIN pinned \union {Gateway!Field} |->
                           IF h = Gateway!Field THEN dns[h] ELSE pinned[h]]
          /\ kind = "host"
      BY <2>3 DEF Gateway!ResolveHost
    <3> QED
      BY <3>1 DEF GatewayInv, PinnedIsClaimed
  <2> QED
    BY <2>1, <2>2, <2>3
<1> QED
  BY <1>2, <1>3, <1>4 DEF GatewayInv
\* One field of a call about paths.
LEMMA PathStep ==
  ASSUME GatewayAssumption, GatewayInv, Gateway!ResolvePath
  PROVE  GatewayInv'
<1>1. /\ Len(fields) \in Nat /\ looked \in 0..Len(fields) /\ DOMAIN fields = 1..Len(fields)
      /\ looked < Len(fields) /\ kind = "path"
      /\ stage = "resolving" /\ stage' \in {"resolving", "refused"}
      /\ UNCHANGED <<Gateway!World, reached>>
  BY DEF Gateway!ResolvePath, Gateway!Resolving, Gateway!Next1, Gateway!Refuse, GatewayInv, CallStands
<1>2. CASE stage' = "refused"
  BY <1>1, <1>2 DEF Gateway!ResolvePath, Gateway!Next1, Gateway!Refuse, Gateway!World, GatewayInv, LinksEnd, Gateway!Real, CallStands, PinnedIsClaimed, PathsAreClaimed,
                    WordsAreClaimed, Gateway!JudgedIsReached
<1>3. CASE stage' = "resolving"
  <2>1. looked' = looked + 1 /\ Gateway!Field \in Gateway!Spelled \union {"absent"}
    BY <1>1, <1>3 DEF Gateway!ResolvePath, Gateway!Resolving, Gateway!Next1, Gateway!Refuse, GatewayInv, CallStands, Gateway!Values, Gateway!Field
  <2>2. \/ Gateway!Field = "absent" /\ UNCHANGED <<claims, input>>
        \/ /\ Gateway!Field \in Gateway!Spelled /\ claims' = claims \union {Gateway!Real(Gateway!Field)}
           /\ input' = [input EXCEPT ![looked + 1] = Gateway!Real(Gateway!Field)]
    BY <1>3, <2>1 DEF Gateway!ResolvePath, Gateway!Refuse, GatewayAssumption
  <2>3. LinksEnd' /\ PinnedIsClaimed' /\ WordsAreClaimed'
    BY <1>1 DEF Gateway!World, GatewayInv, LinksEnd, Gateway!Real, PinnedIsClaimed, WordsAreClaimed
  <2>4. CallStands'
    BY <1>1, <1>3, <2>1, <2>2 DEF Gateway!World, GatewayInv, CallStands
  <2>5. PathsAreClaimed'
    <3>1. \A i \in 1..looked + 1 : i = looked + 1 \/ i \in 1..looked
      BY <1>1
    <3>2. looked + 1 \in DOMAIN input
      BY <1>1 DEF GatewayInv, CallStands
    <3>3. CASE Gateway!Field = "absent" /\ UNCHANGED <<claims, input>>
      BY <1>1, <2>1, <3>1, <3>3 DEF Gateway!World, GatewayInv, CallStands, PathsAreClaimed, Gateway!Field
    <3>4. CASE /\ Gateway!Field \in Gateway!Spelled /\ claims' = claims \union {Gateway!Real(Gateway!Field)}
               /\ input' = [input EXCEPT ![looked + 1] = Gateway!Real(Gateway!Field)]
      <4>1. Gateway!Real(Gateway!Field) \in RealPlaces /\ link[Gateway!Real(Gateway!Field)] = Gateway!Real(Gateway!Field)
        BY <3>4 DEF GatewayInv, LinksEnd, Gateway!Real, Gateway!Spelled
      <4>2. input'[looked + 1] = Gateway!Real(Gateway!Field) /\ \A i \in 1..looked : input'[i] = input[i]
        BY <1>1, <3>2, <3>4
      <4> QED
        BY <1>1, <2>1, <3>1, <3>4, <4>1, <4>2 DEF Gateway!World, GatewayInv, PathsAreClaimed
    <3> QED
      BY <2>2, <3>3, <3>4
  <2>6. Gateway!JudgedIsReached'
    BY <1>1, <2>2 DEF Gateway!World, GatewayInv, Gateway!JudgedIsReached
  <2> QED
    BY <2>3, <2>4, <2>5, <2>6 DEF GatewayInv
<1> QED
  BY <1>1, <1>2, <1>3

\* One field of a command.
LEMMA CommandStep ==
  ASSUME GatewayAssumption, GatewayInv, Gateway!ResolveCommand
  PROVE  GatewayInv'
<1>1. /\ Len(fields) \in Nat /\ looked \in 0..Len(fields) /\ DOMAIN fields = 1..Len(fields)
      /\ looked < Len(fields) /\ kind = "command"
      /\ stage = "resolving" /\ stage' \in {"resolving", "refused"}
      /\ UNCHANGED <<Gateway!World, reached, input, pinned>>
  BY DEF Gateway!ResolveCommand, Gateway!Resolving, Gateway!Next1, Gateway!Refuse, GatewayInv, CallStands
<1>2. CASE stage' = "refused"
  BY <1>1, <1>2 DEF Gateway!ResolveCommand, Gateway!Next1, Gateway!Refuse, Gateway!World, GatewayInv, LinksEnd, Gateway!Real, CallStands, PinnedIsClaimed, PathsAreClaimed,
                    WordsAreClaimed, Gateway!JudgedIsReached
<1>3. CASE stage' = "resolving"
  <2>1. looked' = looked + 1 /\ Gateway!Field \in Gateway!Spelled \union {"absent"}
    BY <1>1, <1>3 DEF Gateway!ResolveCommand, Gateway!Resolving, Gateway!Next1, Gateway!Refuse, GatewayInv, CallStands, Gateway!Values, Gateway!Field
  <2>2. \/ Gateway!Field = "absent" /\ claims' = claims
        \/ Gateway!Field \in Gateway!Spelled /\ claims' = claims \union {Gateway!Real(Gateway!Field)}
    BY <1>3, <2>1 DEF Gateway!ResolveCommand, Gateway!Refuse, GatewayAssumption
  <2>3. LinksEnd' /\ PinnedIsClaimed' /\ PathsAreClaimed'
    BY <1>1 DEF Gateway!World, GatewayInv, LinksEnd, Gateway!Real, PinnedIsClaimed, PathsAreClaimed
  <2>4. CallStands'
    BY <1>1, <1>3, <2>1, <2>2 DEF Gateway!World, GatewayInv, CallStands
  <2>5. WordsAreClaimed'
    <3>1. \A i \in 1..looked + 1 : i = looked + 1 \/ i \in 1..looked
      BY <1>1
    <3> QED
      BY <1>1, <2>1, <2>2, <3>1 DEF Gateway!World, GatewayInv, WordsAreClaimed, Gateway!Field, Gateway!Real
  <2>6. Gateway!JudgedIsReached'
    BY <1>1, <2>2 DEF Gateway!World, GatewayInv, Gateway!JudgedIsReached
  <2> QED
    BY <2>3, <2>4, <2>5, <2>6 DEF GatewayInv
<1> QED
  BY <1>1, <1>2, <1>3

\* From the last field to the verdict.
LEMMA VerdictStep ==
  ASSUME GatewayAssumption, GatewayInv, Gateway!Resolved \/ Gateway!Judge
  PROVE  GatewayInv'
<1>1. CASE Gateway!Resolved
  <2>1. claims \subseteq claims'
    BY <1>1 DEF Gateway!Resolved
  <2>2. LinksEnd' /\ WordsAreClaimed' /\ PathsAreClaimed' /\ PinnedIsClaimed' /\ CallStands'
    BY <1>1, <2>1 DEF Gateway!Resolved, Gateway!World, GatewayInv, LinksEnd, Gateway!Real, WordsAreClaimed, PathsAreClaimed, PinnedIsClaimed, CallStands
  <2> QED
    BY <1>1, <2>1, <2>2 DEF Gateway!Resolved, Gateway!World, GatewayInv, Gateway!JudgedIsReached, CallStands
<1>2. CASE Gateway!Judge
  BY <1>2 DEF Gateway!Judge, Gateway!Allowed, Gateway!World, GatewayInv, LinksEnd, Gateway!Real, WordsAreClaimed, PathsAreClaimed, PinnedIsClaimed, CallStands, Gateway!JudgedIsReached
<1> QED
  BY <1>1, <1>2

\* The tool at work.
LEMMA ToolStep ==
  ASSUME GatewayAssumption, GatewayInv, NEW i \in DOMAIN input, Gateway!Connect(i) \/ Gateway!Touch(i)
  PROVE  GatewayInv'
<1>1. /\ UNCHANGED <<Gateway!World, looked, claims, pinned, input>>
      /\ stage = "running" /\ stage' \in {"running", "over", "refused"}
      /\ claims \intersect denied = {} /\ looked = Len(fields)
      /\ input[i] # "absent"
  BY DEF Gateway!Connect, Gateway!Touch, Gateway!Used, GatewayInv, CallStands
<1>2. LinksEnd' /\ PinnedIsClaimed' /\ PathsAreClaimed' /\ WordsAreClaimed' /\ CallStands'
  BY <1>1 DEF Gateway!World, GatewayInv, LinksEnd, Gateway!Real, PinnedIsClaimed, PathsAreClaimed, WordsAreClaimed, CallStands
<1>3. i \in 1..looked
  BY <1>1 DEF GatewayInv, CallStands
<1>4. CASE Gateway!Connect(i)
  <2>1. kind = "host" /\ reached' \subseteq reached \union claims
    BY <1>4 DEF Gateway!Connect, GatewayInv, PinnedIsClaimed
  <2> QED
    BY <1>1, <1>2, <2>1 DEF GatewayInv, Gateway!JudgedIsReached, Gateway!World
<1>5. CASE Gateway!Touch(i)
  <2>1. reached' = reached \union {Gateway!Real(input[i])} /\ kind # "host"
    BY <1>5 DEF Gateway!Touch
  <2>2. kind = "path" /\ moved \intersect claims = {} => Gateway!Real(input[i]) \in claims
    <3> SUFFICES ASSUME kind = "path", moved \intersect claims = {} PROVE Gateway!Real(input[i]) \in claims
      OBVIOUS
    <3>1. input[i] \in claims \intersect RealPlaces /\ link[input[i]] = input[i]
      BY <1>1, <1>3 DEF GatewayInv, PathsAreClaimed
    <3> QED
      BY <3>1 DEF Gateway!Real
  <2>3. kind = "command" /\ moved = {} => Gateway!Real(input[i]) \in claims
    BY <1>1, <1>3 DEF GatewayInv, WordsAreClaimed
  <2> QED
    BY <1>1, <1>2, <2>1, <2>2, <2>3 DEF GatewayInv, Gateway!JudgedIsReached, Gateway!World
<1> QED
  BY <1>4, <1>5

\* The world around the call.
LEMMA WorldStep ==
  ASSUME GatewayAssumption, GatewayInv,
         \/ \E h \in Hosts, a \in Addresses \union {"none"} : Gateway!Answer(h, a)
         \/ \E n \in Gateway!Spelled, p \in RealPlaces : Gateway!Relink(n, p)
  PROVE  GatewayInv'
<1>1. ASSUME NEW h \in Hosts, NEW a \in Addresses \union {"none"}, Gateway!Answer(h, a) PROVE GatewayInv'
  BY <1>1 DEF Gateway!Answer, GatewayInv, LinksEnd, Gateway!Real, PinnedIsClaimed, PathsAreClaimed, WordsAreClaimed, CallStands, Gateway!JudgedIsReached
<1>2. ASSUME NEW n \in Gateway!Spelled, NEW p \in RealPlaces, Gateway!Relink(n, p) PROVE GatewayInv'
  <2>1. /\ UNCHANGED <<denied, kind, fields, looked, claims, pinned, input, stage, reached>>
        /\ moved' = moved \union ({n} \intersect Gateway!Traversed)
    BY <1>2 DEF Gateway!Relink
  <2>2. /\ LinksEnd' /\ \A m \in Gateway!Spelled : m # n => link'[m] = link[m]
        /\ \A m \in Gateway!Spelled : m # n /\ link[m] # n => Gateway!Real(m)' = Gateway!Real(m)
    BY <1>2, RelinkKeeps DEF GatewayInv
  <2>3. CallStands' /\ PinnedIsClaimed' /\ Gateway!JudgedIsReached'
    BY <2>1 DEF GatewayInv, CallStands, PinnedIsClaimed, Gateway!JudgedIsReached
  <2>4. PathsAreClaimed'
    BY <2>1, <2>2 DEF GatewayInv, PathsAreClaimed, Gateway!Traversed, Gateway!Spelled
  <2>5. WordsAreClaimed'
    <3> SUFFICES ASSUME kind = "command", moved' = {}, NEW i \in 1..looked, fields[i] # "absent"
                 PROVE  Gateway!Real(fields[i])' \in claims
      BY <2>1 DEF GatewayInv, WordsAreClaimed
    <3>1. fields[i] \in Gateway!Spelled /\ Gateway!Real(fields[i]) \in claims /\ n \notin Gateway!Traversed
      BY <2>1 DEF GatewayInv, WordsAreClaimed
    <3>2. fields[i] # n /\ link[fields[i]] # n
      BY <3>1 DEF Gateway!Traversed
    <3>3. Gateway!Real(fields[i])' = link'[link'[fields[i]]] /\ fields' = fields
      BY <2>1 DEF Gateway!Real
    <3> QED
      BY <2>2, <3>1, <3>2, <3>3 DEF Gateway!Real
  <2> QED
    BY <2>2, <2>3, <2>4, <2>5 DEF GatewayInv
<1> QED
  BY <1>1, <1>2

\* What the call consists of.
GatewayTypes ==
  /\ dns \in [Hosts -> Addresses \union {"none"}] /\ Len(fields) <= MaxFields
  /\ claims \subseteq Hosts \union Addresses \union RealPlaces \union {"", "odd"}
  /\ DOMAIN pinned \subseteq Hosts /\ \A h \in DOMAIN pinned : pinned[h] \in Addresses

LEMMA GatewayStarts == MachinesInit => GatewayInv /\ GatewayTypes
<1> SUFFICES ASSUME Gateway!Init PROVE GatewayInv /\ GatewayTypes
  BY DEF MachinesInit
<1>1. LinksEnd
  BY DEF Gateway!Init, LinksEnd, Gateway!Real, Gateway!Spelled
<1>2. PICK n \in 1..MaxFields : fields \in [1..n -> Gateway!Values(kind) \union {"absent"}]
  BY DEF Gateway!Init
<1>3. fields \in Seq(Gateway!Values(kind) \union {"absent"}) /\ Len(fields) \in Nat /\ Len(fields) = n
  BY <1>2, GatewayNames DEF GatewayAssumption
<1>4. CallStands
  BY <1>3 DEF Gateway!Init, CallStands
<1>5. GatewayTypes
  BY <1>2, <1>3, GatewayNames DEF Gateway!Init, GatewayTypes, GatewayAssumption
<1> QED
  BY <1>1, <1>4, <1>5
     DEF Gateway!Init, GatewayInv, PinnedIsClaimed, PathsAreClaimed, WordsAreClaimed, Gateway!JudgedIsReached

LEMMA GatewayMoves == GatewayInv /\ [MachinesNext]_machineVars => GatewayInv'
<1> SUFFICES ASSUME GatewayInv, [MachinesNext]_machineVars PROVE GatewayInv'
  OBVIOUS
<1>1. Gateway!Next \/ UNCHANGED gatewayVars
  BY DEF MachinesNext, Moves, machineVars
<1>2. CASE UNCHANGED gatewayVars
  BY <1>2 DEF gatewayVars, GatewayInv, LinksEnd, Gateway!Real, PinnedIsClaimed, PathsAreClaimed,
              WordsAreClaimed, CallStands, Gateway!JudgedIsReached
<1>3. CASE Gateway!Next
  BY <1>3, GatewayNames, HostStep, PathStep, CommandStep, VerdictStep, ToolStep, WorldStep DEF Gateway!Next
<1> QED
  BY <1>1, <1>2, <1>3

\* A field that is looked at.
LEMMA FieldIs ==
  ASSUME GatewayInv, Gateway!Resolving
  PROVE  /\ Gateway!Field \in Gateway!Values(kind) \union {"absent"}
         /\ \A n \in Gateway!Spelled : Gateway!Real(n) \in RealPlaces
<1>1. /\ fields \in Seq(Gateway!Values(kind) \union {"absent"})
      /\ looked + 1 \in 1..Len(fields)
  BY DEF GatewayInv, CallStands, Gateway!Resolving
<1>2. Gateway!Field \in Gateway!Values(kind) \union {"absent"}
  BY <1>1 DEF Gateway!Field
<1> QED
  BY <1>2 DEF GatewayInv, LinksEnd, Gateway!Real, Gateway!Spelled

LEMMA GatewayTypesKept == GatewayInv /\ GatewayTypes /\ [MachinesNext]_machineVars => GatewayTypes'
<1> SUFFICES ASSUME GatewayInv, GatewayTypes, [MachinesNext]_machineVars PROVE GatewayTypes'
  OBVIOUS
<1>1. Gateway!Next \/ UNCHANGED gatewayVars
  BY DEF MachinesNext, Moves, machineVars
<1>2. CASE UNCHANGED gatewayVars
  BY <1>2 DEF gatewayVars, GatewayTypes
<1>3. CASE Gateway!ResolveHost
  <2>1. Gateway!Field \in Hosts \union {"odd", "absent"}
    BY <1>3, FieldIs DEF Gateway!ResolveHost, Gateway!Values
  <2>2. CASE Gateway!Field = "absent"
    <3>1. Gateway!Next1 /\ UNCHANGED <<claims, pinned, input>>
      BY <1>3, <2>2, DesktopAssumption DEF Gateway!ResolveHost, DesktopAssumption
    <3>2. UNCHANGED <<dns, fields>>
      BY <3>1 DEF Gateway!Next1, Gateway!World
    <3> QED
      BY <3>1, <3>2 DEF GatewayTypes
  <2>5. CASE Gateway!Field = "odd"
    <3>1. Gateway!Next1 /\ UNCHANGED pinned /\ claims' = claims \union {"odd"}
      BY <1>3, <2>5, DesktopAssumption DEF Gateway!ResolveHost, DesktopAssumption
    <3>2. UNCHANGED <<dns, fields>>
      BY <3>1 DEF Gateway!Next1, Gateway!World
    <3> QED
      BY <3>1, <3>2 DEF GatewayTypes
  <2>3. CASE Gateway!Field \notin {"absent", "odd"} /\ dns[Gateway!Field] = "none"
    <3>1. Gateway!Refuse
      BY <1>3, <2>1, <2>3 DEF Gateway!ResolveHost
    <3> QED
      BY <3>1 DEF Gateway!Refuse, Gateway!World, GatewayTypes
  <2>4. CASE Gateway!Field \notin {"absent", "odd"} /\ dns[Gateway!Field] # "none"
    <3>1. /\ claims' = claims \union {Gateway!Field, dns[Gateway!Field]}
          /\ pinned' = [h \in DOMAIN pinned \union {Gateway!Field} |->
                          IF h = Gateway!Field THEN dns[h] ELSE pinned[h]]
          /\ UNCHANGED <<dns, fields>>
      BY <1>3, <2>4 DEF Gateway!ResolveHost, Gateway!Next1, Gateway!World
    <3>2. Gateway!Field \in Hosts /\ dns[Gateway!Field] \in Addresses
      BY <2>1, <2>4 DEF GatewayTypes
    <3> HIDE DEF Gateway!Field
    <3> QED
      BY <3>1, <3>2 DEF GatewayTypes
  <2> QED
    BY <2>2, <2>3, <2>4, <2>5
<1>4. CASE Gateway!ResolvePath \/ Gateway!ResolveCommand
  <2>1. UNCHANGED <<dns, fields, pinned>>
    BY <1>4 DEF Gateway!ResolvePath, Gateway!ResolveCommand, Gateway!Next1, Gateway!Refuse, Gateway!World
  <2>2. Gateway!Resolving /\ kind # "host"
    BY <1>4 DEF Gateway!ResolvePath, Gateway!ResolveCommand
  <2>3. /\ Gateway!Field \in Gateway!Spelled \union {"odd", "absent"}
        /\ \A n \in Gateway!Spelled : Gateway!Real(n) \in RealPlaces
    BY <2>2, FieldIs DEF Gateway!Values
  <2>4. claims' = claims \/ (Gateway!Field \in Gateway!Spelled /\ claims' = claims \union {Gateway!Real(Gateway!Field)})
    BY <1>4, <2>3 DEF Gateway!ResolvePath, Gateway!ResolveCommand, Gateway!Next1, Gateway!Refuse
  <2> QED
    BY <2>1, <2>3, <2>4 DEF GatewayTypes
<1>5. CASE Gateway!Resolved \/ Gateway!Judge
  BY <1>5 DEF Gateway!Resolved, Gateway!Judge, Gateway!World, GatewayTypes
<1>6. ASSUME NEW i \in DOMAIN input, Gateway!Connect(i) \/ Gateway!Touch(i) PROVE GatewayTypes'
  BY <1>6 DEF Gateway!Connect, Gateway!Touch, Gateway!World, GatewayTypes
<1>7. ASSUME NEW h \in Hosts, NEW a \in Addresses \union {"none"}, Gateway!Answer(h, a) PROVE GatewayTypes'
  BY <1>7 DEF Gateway!Answer, GatewayTypes
<1>8. ASSUME NEW n \in Gateway!Spelled, NEW p \in RealPlaces, Gateway!Relink(n, p) PROVE GatewayTypes'
  BY <1>8 DEF Gateway!Relink, GatewayTypes
<1> QED
  BY <1>1, <1>2, <1>3, <1>4, <1>5, <1>6, <1>7, <1>8 DEF Gateway!Next

\* A call reaches no address and no place the rules deny, whatever names and links
\* become between the verdict and the use (gateway.ts, web-fetch.ts).
THEOREM ReachedWasJudged == MachinesSpec => []JudgedIsReached
<1>1. GatewayInv /\ GatewayTypes => JudgedIsReached
  <2> SUFFICES ASSUME GatewayInv, GatewayTypes PROVE JudgedIsReached
    OBVIOUS
  <2>1. Gateway!JudgedIsReached
    BY DEF GatewayInv
  <2>2. Gateway!Range(pinned) \subseteq Addresses
    BY DEF GatewayTypes, Gateway!Range
  <2>3. looked \in 0..MaxFields
    <3>1. looked \in 0..Len(fields) /\ fields \in Seq(Gateway!Values(kind) \union {"absent"})
      BY DEF GatewayInv, CallStands
    <3>2. Len(fields) \in Nat
      BY <3>1
    <3>3. Len(fields) <= MaxFields /\ MaxFields \in Nat
      BY GatewayNames DEF GatewayAssumption, GatewayTypes
    <3> QED
      BY <3>1, <3>2, <3>3
  <2>4. Gateway!TypeOK
    BY <2>2, <2>3 DEF Gateway!TypeOK, GatewayInv, LinksEnd, CallStands, GatewayTypes
  <2> QED
    BY <2>1, <2>4 DEF JudgedIsReached
<1> QED
  BY <1>1, GatewayStarts, GatewayMoves, GatewayTypesKept, PTL DEF MachinesSpec

-----------------------------------------------------------------------------
(* The settings: the calls wait for one another, so the file is as the     *)
(* last of them left it, and a session keeps no older rules.               *)

SettingsCall ==
  [pc : {"none", "keys", "keysRead", "keySet", "patch", "read", "written"},
   of : Providers \cup {"none", "update"}, next : Config!Configs, gone : SUBSET Providers,
   read : Config!Configs, keysRead : SUBSET Providers]

\* What a call is for.
OfKnown(its) == /\ its.pc # "none" => its.of \in Providers \cup {"update"}
                /\ its.pc \in {"keys", "keysRead"} => its.of \in Providers

SettingsTypes ==
  /\ config \in Config!Configs \cup {Config!Broken} /\ memory \in Config!Configs
  /\ keys \in SUBSET Providers /\ overlap \in BOOLEAN
  /\ cache \in [Ruled -> [pc : {"none", "project", "ready", "rejected"}, rules : SUBSET (Denies \cup Allows)]]
  /\ call \in [Calls -> SettingsCall]
  /\ \A c \in Calls : OfKnown(call[c])

\* What a call holds while it is the only one: an update what the memory becomes, a key
\* that is in the file of keys before it is referred to, and what was read is still there.
CallHolds(c) ==
  LET its == call[c] IN
  /\ its.pc \in {"patch", "read", "written"} /\ its.of = "update" =>
       /\ its.gone = memory.known \ its.next.known
       /\ its.next.refs = memory.refs \cap its.next.known
  /\ its.pc \in {"patch", "read", "written"} /\ its.of # "update" => its.of \in keys
  /\ its.pc = "keysRead" => its.keysRead = keys
  /\ its.pc = "read" => config # Config!Broken /\ its.read = config
  /\ its.pc = "written" => config = IF its.of = "update" THEN its.next ELSE Config!WithKey(memory, its.of)

\* Only one call is under way, the file is as the memory has it except between the two
\* writes, and what either refers to has its key.
OneCall ==
  ~ overlap =>
    /\ \A c, d \in Calls : call[c].pc # "none" /\ call[d].pc # "none" => c = d
    /\ \A c \in Calls : CallHolds(c)
    /\ Config!NothingIsLost

SettingsInv == SettingsTypes /\ Config!PolicyIsCurrent /\ OneCall

\* The configurations calls make of configurations.
LEMMA ConfigsAre ==
  ASSUME NEW c \in Config!Configs
  PROVE  /\ c.known \in SUBSET Providers /\ c.refs \in SUBSET c.known /\ c.rules \in SUBSET (Denies \cup Allows)
         /\ c = [known |-> c.known, refs |-> c.refs, rules |-> c.rules]
  BY DEF Config!Configs

LEMMA ConfigIs ==
  ASSUME NEW known \in SUBSET Providers, NEW held \in SUBSET known, NEW rules \in SUBSET (Denies \cup Allows)
  PROVE  [known |-> known, refs |-> held, rules |-> rules] \in Config!Configs
  BY DEF Config!Configs

LEMMA WithKeyIs ==
  ASSUME NEW c \in Config!Configs, NEW p \in Providers
  PROVE  /\ Config!WithKey(c, p) \in Config!Configs
         /\ Config!WithKey(c, p).rules = c.rules /\ Config!WithKey(c, p).refs = c.refs \cup {p}
<1>1. Config!WithKey(c, p) = [known |-> c.known \cup {p}, refs |-> c.refs \cup {p}, rules |-> c.rules]
  <2>1. c \in [known : SUBSET Providers, refs : SUBSET Providers, rules : SUBSET (Denies \cup Allows)]
    BY DEF Config!Configs
  <2>2. Config!WithKey(c, p) = [[c EXCEPT !.known = @ \cup {p}] EXCEPT !.refs = @ \cup {p}]
    BY DEF Config!WithKey
  <2>3. [c EXCEPT !.known = @ \cup {p}] = [known |-> c.known \cup {p}, refs |-> c.refs, rules |-> c.rules]
    BY <2>1
  <2> QED
    BY <2>2, <2>3
<1>2. c.known \cup {p} \in SUBSET Providers /\ c.refs \cup {p} \in SUBSET (c.known \cup {p})
  BY ConfigsAre
<1>3. c.rules \in SUBSET (Denies \cup Allows)
  BY ConfigsAre
<1> HIDE DEF Config!WithKey
<1> QED
  BY <1>1, <1>2, <1>3, ConfigIs

LEMMA MergedIs ==
  ASSUME NEW c \in Config!Configs, NEW gone \in SUBSET Providers, NEW to \in Config!Configs
  PROVE  /\ Config!Merged(c, gone, to) \in Config!Configs
         /\ gone = c.known \ to.known /\ to.refs = c.refs \cap to.known => Config!Merged(c, gone, to) = to
<1> DEFINE known == (c.known \ gone) \cup to.known
           held == (c.refs \ gone) \cup to.refs
<1>1. Config!Merged(c, gone, to) = [known |-> known, refs |-> held, rules |-> to.rules]
  BY DEF Config!Merged
<1>2. known \in SUBSET Providers /\ held \in SUBSET known
  BY ConfigsAre
<1>3. gone = c.known \ to.known /\ to.refs = c.refs \cap to.known => known = to.known /\ held = to.refs
  BY ConfigsAre
<1>4. /\ to.rules \in SUBSET (Denies \cup Allows)
      /\ to = [known |-> to.known, refs |-> to.refs, rules |-> to.rules]
  BY ConfigsAre
<1> HIDE DEF known, held
<1>5. [known |-> known, refs |-> held, rules |-> to.rules] \in Config!Configs
  BY <1>2, <1>4, ConfigIs
<1> QED
  BY <1>1, <1>3, <1>4, <1>5

LEMMA BrokenIsNone == Config!Broken \notin Config!Configs /\ Config!Broken.refs = {}
<1>1. "broken" \in Config!Broken.rules /\ Config!Broken.refs = {}
  BY DEF Config!Broken
<1> QED
  BY <1>1, ConfigsAre, DesktopAssumption DEF DesktopAssumption

LEMMA LoadedIs ==
  ASSUME SettingsTypes
  PROVE  Config!Load(config) \in Config!Configs /\ Config!Load(config).refs = config.refs
<1>1. Config!Default \in Config!Configs /\ Config!Default.refs = {}
  BY ConfigIs DEF Config!Default
<1> QED
  BY <1>1, BrokenIsNone DEF SettingsTypes, Config!Load

LEMMA NoCallIs == Config!NoCall \in SettingsCall /\ Config!NoCall.pc = "none"
<1>1. Config!Default \in Config!Configs
  BY ConfigIs DEF Config!Default
<1> QED
  BY <1>1 DEF Config!NoCall, SettingsCall

LEMMA SettingsStart == MachinesInit => SettingsInv
<1> SUFFICES ASSUME Config!Init PROVE SettingsInv
  BY DEF MachinesInit
<1>1. config \in Config!Configs \cup {Config!Broken} /\ config.refs = {}
  BY BrokenIsNone DEF Config!Init
<1>2. Config!Default \in Config!Configs /\ Config!Default.refs = {}
  BY ConfigIs DEF Config!Default
<1>3. /\ memory \in Config!Configs /\ memory.refs = {}
      /\ config # Config!Broken => config = memory
  BY <1>1, <1>2 DEF Config!Init, Config!Load
<1>4. Config!NoCall \in SettingsCall /\ Config!NoCall.pc = "none"
  BY NoCallIs
<1>5. SettingsTypes
  BY <1>1, <1>3, <1>4 DEF Config!Init, SettingsTypes, Config!NoLayers, OfKnown
<1>6. /\ cache = [s \in Ruled |-> Config!NoLayers] /\ call = [c \in Calls |-> Config!NoCall] /\ keys = {}
  BY DEF Config!Init
<1>7. Config!PolicyIsCurrent
  BY <1>6 DEF Config!PolicyIsCurrent, Config!NoLayers
<1>8. \A c \in Calls : call[c].pc = "none"
  BY <1>4, <1>6
<1>9. OneCall
  BY <1>1, <1>3, <1>8 DEF OneCall, CallHolds, Config!NothingIsLost, Config!At
<1> QED
  BY <1>5, <1>7, <1>9 DEF SettingsInv

\* One call goes on.
LEMMA CallGoesOn ==
  ASSUME SettingsInv, NEW c \in Calls, NEW to \in SettingsCall, call' = [call EXCEPT ![c] = to],
         OfKnown(to)
  PROVE  /\ call' \in [Calls -> SettingsCall] /\ call'[c] = to
         /\ \A d \in Calls \ {c} : call'[d] = call[d]
         /\ \A d \in Calls : OfKnown(call'[d])
<1>1. call \in [Calls -> SettingsCall] /\ \A d \in Calls : OfKnown(call[d])
  BY DEF SettingsInv, SettingsTypes
<1>2. /\ call' \in [Calls -> SettingsCall] /\ call'[c] = to
      /\ \A d \in Calls \ {c} : call'[d] = call[d]
  BY <1>1
<1> QED
  BY <1>1, <1>2

\* The others rest while it does.
LEMMA OthersRest ==
  ASSUME SettingsInv, NEW c \in Calls, call[c].pc # "none", \A d \in Calls \ {c} : call'[d] = call[d],
         ~ overlap' => ~ overlap /\ CallHolds(c)' /\ Config!NothingIsLost'
  PROVE  OneCall'
<1> SUFFICES ASSUME ~ overlap' PROVE OneCall'
  BY DEF OneCall
<1>1. \A d \in Calls \ {c} : call'[d].pc = "none"
  BY DEF SettingsInv, OneCall
<1>2. \A d \in Calls \ {c} : CallHolds(d)'
  BY <1>1 DEF CallHolds
<1> QED
  BY <1>1, <1>2 DEF OneCall

\* A call begins, alone or not.
LEMMA CallBegins ==
  ASSUME SettingsInv, NEW c \in Calls,
         \/ \E known \in SUBSET Providers, denies \in SUBSET Denies : Config!UpdateSettings(c, known, denies)
         \/ \E p \in Providers : Config!SetApiKey(c, p)
  PROVE  SettingsInv'
<1>1. /\ Config!Free(c) /\ UNCHANGED <<config, keys, memory, cache>>
      /\ overlap' = (overlap \/ \E o \in Calls : call[o].pc # "none")
  BY DEF Config!UpdateSettings, Config!SetApiKey, Config!Begin
<1>2. PICK to \in SettingsCall :
         /\ call' = [call EXCEPT ![c] = to]
         /\ \/ /\ to.pc = "patch" /\ to.of = "update" /\ to.gone = memory.known \ to.next.known
               /\ to.next.refs = memory.refs \cap to.next.known
            \/ to.pc = "keys" /\ to.of \in Providers
  <2>1. Config!NoCall \in SettingsCall
    BY NoCallIs
  <2>2. ASSUME NEW known \in SUBSET Providers, NEW denies \in SUBSET Denies,
               Config!UpdateSettings(c, known, denies)
        PROVE  \E to \in SettingsCall :
                 /\ call' = [call EXCEPT ![c] = to]
                 /\ to.pc = "patch" /\ to.of = "update" /\ to.gone = memory.known \ to.next.known
                 /\ to.next.refs = memory.refs \cap to.next.known
    <3> DEFINE next == [known |-> known, refs |-> Config!NextProviders(memory, known),
                        rules |-> Config!NextUserRules(memory, denies)]
               to == [Config!NoCall EXCEPT !.pc = "patch", !.of = "update",
                        !.gone = memory.known \ known, !.next = next]
    <3>1. next \in Config!Configs
      <4>1. Config!NextProviders(memory, known) \in SUBSET known /\ Config!NextUserRules(memory, denies) \in SUBSET (Denies \cup Allows)
        BY DEF Config!NextProviders, Config!NextUserRules
      <4> QED
        BY <4>1, ConfigIs
    <3>2. next.known = known /\ next.refs = memory.refs \cap known
      BY DEF Config!NextProviders
    <3>3. memory.known \ known \in SUBSET Providers
      BY ConfigsAre DEF SettingsInv, SettingsTypes
    <3> HIDE DEF next
    <3>4. /\ to \in SettingsCall /\ to.pc = "patch" /\ to.of = "update"
          /\ to.gone = memory.known \ known /\ to.next = next
      BY <2>1, <3>1, <3>3 DEF SettingsCall
    <3>5. call' = [call EXCEPT ![c] = to]
      BY <2>2 DEF Config!UpdateSettings, Config!Begin, next
    <3> QED
      BY <3>2, <3>4, <3>5
  <2>3. ASSUME NEW p \in Providers, Config!SetApiKey(c, p)
        PROVE  \E to \in SettingsCall : call' = [call EXCEPT ![c] = to] /\ to.pc = "keys" /\ to.of \in Providers
    <3> DEFINE to == [Config!NoCall EXCEPT !.pc = "keys", !.of = p]
    <3>1. to \in SettingsCall /\ to.pc = "keys" /\ to.of = p
      BY <2>1 DEF SettingsCall
    <3>2. call' = [call EXCEPT ![c] = to]
      BY <2>3 DEF Config!SetApiKey, Config!Begin
    <3> QED
      BY <3>1, <3>2
  <2> QED
    BY <2>2, <2>3
<1>3. OfKnown(to) /\ to.pc \in {"patch", "keys"} /\ (to.pc = "keys" => to.of # "update")
  BY <1>2, DesktopAssumption DEF DesktopAssumption, OfKnown
<1>4. /\ call' \in [Calls -> SettingsCall] /\ call'[c] = to
      /\ \A d \in Calls \ {c} : call'[d] = call[d]
      /\ \A d \in Calls : OfKnown(call'[d])
  BY <1>2, <1>3, CallGoesOn
<1>5. SettingsTypes' /\ Config!PolicyIsCurrent'
  BY <1>1, <1>4 DEF SettingsInv, SettingsTypes, Config!PolicyIsCurrent
<1>6. ASSUME ~ overlap' PROVE OneCall'
  <2>1. \A d \in Calls \ {c} : call'[d].pc = "none"
    BY <1>1, <1>4, <1>6
  <2>2. \A d \in Calls : CallHolds(d)'
    BY <1>1, <1>2, <1>3, <1>4, <2>1 DEF CallHolds
  <2>3. ~ overlap /\ \A d \in Calls : call[d].pc = "none"
    BY <1>1, <1>6
  <2>4. Config!NothingIsLost'
    BY <1>1, <1>6, <2>3 DEF SettingsInv, OneCall, Config!NothingIsLost, Config!At
  <2> QED
    BY <2>1, <2>2, <2>4 DEF OneCall
<1> QED
  BY <1>5, <1>6 DEF SettingsInv, OneCall

LEMMA CallMoves ==
  ASSUME SettingsInv, NEW c \in Calls,
         Config!ReadKeys(c) \/ Config!WriteKeys(c) \/ Config!ReadJsonForUpdate(c) \/ Config!WriteJson(c)
           \/ Config!Assign(c) \/ Config!Throws(c)
  PROVE  SettingsInv'
<1>1. /\ call[c] \in SettingsCall /\ call[c].of \in Providers \cup {"update", "none"}
      /\ OfKnown(call[c])
      /\ memory \in Config!Configs /\ keys \in SUBSET Providers
      /\ config \in Config!Configs \cup {Config!Broken}
  BY DEF SettingsInv, SettingsTypes, SettingsCall
<1>2. ~ overlap => CallHolds(c) /\ Config!NothingIsLost
  BY DEF SettingsInv, OneCall
<1>3. call[c].pc # "none" /\ overlap' = overlap
  BY DEF Config!ReadKeys, Config!WriteKeys, Config!ReadJsonForUpdate, Config!WriteJson, Config!Assign,
         Config!Throws, Config!At
<1>4. ASSUME ~ overlap
      PROVE  \A d \in Calls \ {c} : call[d].pc = "none"
  BY <1>3, <1>4 DEF SettingsInv, OneCall
<1>5. CASE Config!ReadKeys(c)
  <2> DEFINE to == [call[c] EXCEPT !.pc = "keysRead", !.keysRead = keys]
  <2>1. /\ to \in SettingsCall /\ to.pc = "keysRead" /\ to.keysRead = keys /\ to.of = call[c].of
    BY <1>1 DEF SettingsCall
  <2>2. call' = [call EXCEPT ![c] = to] /\ UNCHANGED <<config, keys, memory, cache, overlap>> /\ call[c].pc = "keys"
    BY <1>5 DEF Config!ReadKeys, Config!At, SettingsInv, SettingsTypes
  <2> HIDE DEF to
  <2>3. /\ call' \in [Calls -> SettingsCall] /\ call'[c] = to
        /\ \A d \in Calls \ {c} : call'[d] = call[d]
        /\ \A d \in Calls : OfKnown(call'[d])
    BY <1>1, <2>1, <2>2, CallGoesOn DEF OfKnown
  <2>4. SettingsTypes' /\ Config!PolicyIsCurrent'
    BY <2>2, <2>3 DEF SettingsInv, SettingsTypes, Config!PolicyIsCurrent
  <2>5. ASSUME ~ overlap PROVE CallHolds(c)' /\ Config!NothingIsLost'
    BY <1>2, <1>4, <2>1, <2>2, <2>3, <2>5 DEF CallHolds, Config!NothingIsLost, Config!At
  <2> QED
    BY <1>3, <2>2, <2>3, <2>4, <2>5, OthersRest DEF SettingsInv
<1>6. CASE Config!WriteKeys(c)
  <2> DEFINE to == [call[c] EXCEPT !.pc = "patch"]
  <2>1. /\ to \in SettingsCall /\ to.pc = "patch" /\ to.of = call[c].of
    BY <1>1 DEF SettingsCall
  <2>2. /\ call' = [call EXCEPT ![c] = to] /\ UNCHANGED <<config, memory, cache, overlap>>
        /\ call[c].pc = "keysRead" /\ keys' = call[c].keysRead \cup {call[c].of}
    BY <1>6 DEF Config!WriteKeys, Config!Goto, Config!At, SettingsInv, SettingsTypes
  <2> HIDE DEF to
  <2>3. /\ call' \in [Calls -> SettingsCall] /\ call'[c] = to
        /\ \A d \in Calls \ {c} : call'[d] = call[d]
        /\ \A d \in Calls : OfKnown(call'[d])
    BY <1>1, <2>1, <2>2, CallGoesOn DEF OfKnown
  <2>4. SettingsTypes' /\ Config!PolicyIsCurrent'
    <3>1. call[c].of \in Providers
      BY <1>1, <2>2 DEF OfKnown
    <3>2. keys' \in SUBSET Providers
      BY <1>1, <2>2, <3>1 DEF SettingsCall
    <3> QED
      BY <2>2, <2>3, <3>2 DEF SettingsInv, SettingsTypes, Config!PolicyIsCurrent
  <2>5. ASSUME ~ overlap PROVE CallHolds(c)' /\ Config!NothingIsLost'
    <3>1. keys \subseteq keys' /\ call[c].of \in keys'
      BY <1>2, <2>2, <2>5 DEF CallHolds
    <3>2. call[c].of # "update"
      BY <1>1, <2>2, DesktopAssumption DEF DesktopAssumption, OfKnown
    <3> QED
      BY <1>2, <1>4, <2>1, <2>2, <2>3, <2>5, <3>1, <3>2 DEF CallHolds, Config!NothingIsLost, Config!At
  <2> QED
    BY <1>3, <2>2, <2>3, <2>4, <2>5, OthersRest DEF SettingsInv
<1>7. CASE Config!ReadJsonForUpdate(c)
  <2> DEFINE to == [call[c] EXCEPT !.pc = "read", !.read = config]
  <2>2. /\ call' = [call EXCEPT ![c] = to] /\ UNCHANGED <<config, keys, memory, cache, overlap>>
        /\ call[c].pc = "patch" /\ config # Config!Broken
    BY <1>7 DEF Config!ReadJsonForUpdate, Config!At, SettingsInv, SettingsTypes
  <2>1. /\ to \in SettingsCall /\ to.pc = "read" /\ to.read = config
        /\ to.of = call[c].of /\ to.gone = call[c].gone /\ to.next = call[c].next
    BY <1>1, <2>2 DEF SettingsCall
  <2> HIDE DEF to
  <2>3. /\ call' \in [Calls -> SettingsCall] /\ call'[c] = to
        /\ \A d \in Calls \ {c} : call'[d] = call[d]
        /\ \A d \in Calls : OfKnown(call'[d])
    BY <1>1, <2>1, <2>2, CallGoesOn DEF OfKnown
  <2>4. SettingsTypes' /\ Config!PolicyIsCurrent'
    BY <2>2, <2>3 DEF SettingsInv, SettingsTypes, Config!PolicyIsCurrent
  <2>5. ASSUME ~ overlap PROVE CallHolds(c)' /\ Config!NothingIsLost'
    BY <1>2, <1>4, <2>1, <2>2, <2>3, <2>5 DEF CallHolds, Config!NothingIsLost, Config!At
  <2> QED
    BY <1>3, <2>2, <2>3, <2>4, <2>5, OthersRest DEF SettingsInv
<1>8. CASE Config!WriteJson(c)
  <2> DEFINE to == [call[c] EXCEPT !.pc = "written"]
             made == IF call[c].of = "update" THEN Config!Merged(call[c].read, call[c].gone, call[c].next)
                     ELSE Config!WithKey(call[c].read, call[c].of)
  <2>1. /\ to \in SettingsCall /\ to.pc = "written"
        /\ to.of = call[c].of /\ to.gone = call[c].gone /\ to.next = call[c].next
    BY <1>1 DEF SettingsCall
  <2>2. /\ call' = [call EXCEPT ![c] = to] /\ UNCHANGED <<keys, memory, cache, overlap>>
        /\ call[c].pc = "read" /\ config' = made
    BY <1>8 DEF Config!WriteJson, Config!Goto, Config!At, SettingsInv, SettingsTypes
  <2>6. /\ call[c].read \in Config!Configs /\ call[c].next \in Config!Configs /\ call[c].gone \in SUBSET Providers
        /\ call[c].of # "update" => call[c].of \in Providers
    BY <1>1, <2>2 DEF SettingsCall, OfKnown
  <2>7. made \in Config!Configs
    BY <2>6, MergedIs, WithKeyIs
  <2> HIDE DEF to
  <2>3. /\ call' \in [Calls -> SettingsCall] /\ call'[c] = to
        /\ \A d \in Calls \ {c} : call'[d] = call[d]
        /\ \A d \in Calls : OfKnown(call'[d])
    BY <1>1, <2>1, <2>2, CallGoesOn DEF OfKnown
  <2>4. SettingsTypes' /\ Config!PolicyIsCurrent'
    BY <2>2, <2>3, <2>7 DEF SettingsInv, SettingsTypes, Config!PolicyIsCurrent
  <2>5. ASSUME ~ overlap PROVE CallHolds(c)' /\ Config!NothingIsLost'
    <3>1. /\ config \in Config!Configs /\ call[c].read = config /\ config = memory /\ config.refs \subseteq keys
      <4>1. \A d \in Calls : ~ Config!At(d, "written")
        BY <1>4, <2>2, <2>5 DEF Config!At
      <4> QED
        BY <1>1, <1>2, <2>2, <2>5, <4>1 DEF CallHolds, Config!NothingIsLost
    <3>2. CASE call[c].of = "update"
      <4>1. /\ call[c].gone = memory.known \ call[c].next.known
            /\ call[c].next.refs = memory.refs \cap call[c].next.known
        BY <1>2, <2>2, <2>5, <3>2 DEF CallHolds
      <4>2. made = call[c].next
        BY <2>6, <3>1, <3>2, <4>1, MergedIs
      <4>3. made.refs \subseteq keys
        BY <3>1, <4>1, <4>2
      <4> HIDE DEF made
      <4> QED
        BY <1>2, <2>1, <2>2, <2>3, <2>5, <3>1, <3>2, <4>1, <4>2, <4>3 DEF CallHolds, Config!NothingIsLost, Config!At
    <3>3. CASE call[c].of # "update"
      <4>1. call[c].of \in keys
        BY <1>2, <2>2, <2>5, <3>3 DEF CallHolds
      <4>2. made = Config!WithKey(memory, call[c].of)
        BY <3>1, <3>3
      <4>3. made.refs \subseteq keys
        BY <2>6, <3>1, <3>3, <4>1, <4>2, WithKeyIs
      <4> HIDE DEF made
      <4> QED
        BY <1>2, <2>1, <2>2, <2>3, <2>5, <3>1, <3>3, <4>1, <4>2, <4>3 DEF CallHolds, Config!NothingIsLost, Config!At
    <3> QED
      BY <3>2, <3>3
  <2> QED
    BY <1>3, <2>2, <2>3, <2>4, <2>5, OthersRest DEF SettingsInv
<1>9. CASE Config!Assign(c)
  <2> DEFINE to == Config!NoCall
  <2>1. to \in SettingsCall /\ to.pc = "none"
    BY NoCallIs
  <2>2. /\ call' = [call EXCEPT ![c] = to] /\ UNCHANGED <<config, keys, overlap>>
        /\ call[c].pc = "written"
    BY <1>9 DEF Config!Assign, Config!At, SettingsInv, SettingsTypes
  <2> HIDE DEF to
  <2>3. /\ call' \in [Calls -> SettingsCall] /\ call'[c] = to
        /\ \A d \in Calls \ {c} : call'[d] = call[d]
        /\ \A d \in Calls : OfKnown(call'[d])
    BY <1>1, <2>1, <2>2, CallGoesOn DEF OfKnown
  <2>6. CASE call[c].of = "update"
    <3>1. memory' = call[c].next /\ cache' = [s \in Ruled |-> Config!NoLayers]
      BY <1>9, <2>6 DEF Config!Assign, Config!Invalidated
    <3>2. memory' \in Config!Configs
      BY <1>1, <3>1 DEF SettingsCall
    <3>4. SettingsTypes' /\ Config!PolicyIsCurrent'
      BY <2>2, <2>3, <3>1, <3>2 DEF SettingsInv, SettingsTypes, Config!PolicyIsCurrent, Config!NoLayers
    <3>5. ASSUME ~ overlap PROVE CallHolds(c)' /\ Config!NothingIsLost'
      <4>1. config = call[c].next /\ config.refs \subseteq keys
        BY <1>2, <2>2, <2>6, <3>5 DEF CallHolds, Config!NothingIsLost
      <4> QED
        BY <2>1, <2>2, <2>3, <3>1, <4>1 DEF CallHolds, Config!NothingIsLost
    <3> QED
      BY <1>3, <2>2, <2>3, <3>4, <3>5, OthersRest DEF SettingsInv
  <2>7. CASE call[c].of # "update"
    <3>1. memory' = Config!WithKey(memory, call[c].of) /\ cache' = cache /\ call[c].of \in Providers
      BY <1>1, <1>9, <2>2, <2>7 DEF Config!Assign, OfKnown
    <3>2. memory' \in Config!Configs /\ memory'.rules = memory.rules
      BY <1>1, <3>1, WithKeyIs
    <3>4. SettingsTypes' /\ Config!PolicyIsCurrent'
      BY <2>2, <2>3, <3>1, <3>2 DEF SettingsInv, SettingsTypes, Config!PolicyIsCurrent
    <3>5. ASSUME ~ overlap PROVE CallHolds(c)' /\ Config!NothingIsLost'
      <4>1. config = Config!WithKey(memory, call[c].of) /\ config.refs \subseteq keys
        BY <1>2, <2>2, <2>7, <3>5 DEF CallHolds, Config!NothingIsLost
      <4> QED
        BY <2>1, <2>2, <2>3, <3>1, <4>1 DEF CallHolds, Config!NothingIsLost
    <3> QED
      BY <1>3, <2>2, <2>3, <3>4, <3>5, OthersRest DEF SettingsInv
  <2> QED
    BY <2>6, <2>7
<1>10. CASE Config!Throws(c)
  <2> DEFINE to == Config!NoCall
  <2>1. to \in SettingsCall /\ to.pc = "none"
    BY NoCallIs
  <2>2. /\ call' = [call EXCEPT ![c] = to] /\ UNCHANGED <<config, keys, memory, cache, overlap>>
        /\ call[c].pc # "written"
    BY <1>10 DEF Config!Throws
  <2> HIDE DEF to
  <2>3. /\ call' \in [Calls -> SettingsCall] /\ call'[c] = to
        /\ \A d \in Calls \ {c} : call'[d] = call[d]
        /\ \A d \in Calls : OfKnown(call'[d])
    BY <1>1, <2>1, <2>2, CallGoesOn DEF OfKnown
  <2>4. SettingsTypes' /\ Config!PolicyIsCurrent'
    BY <2>2, <2>3 DEF SettingsInv, SettingsTypes, Config!PolicyIsCurrent
  <2>5. ASSUME ~ overlap PROVE CallHolds(c)' /\ Config!NothingIsLost'
    BY <1>2, <1>4, <2>1, <2>2, <2>3, <2>5 DEF CallHolds, Config!NothingIsLost, Config!At
  <2> QED
    BY <1>3, <2>2, <2>3, <2>4, <2>5, OthersRest DEF SettingsInv
<1> QED
  BY <1>5, <1>6, <1>7, <1>8, <1>9, <1>10

\* A session asks for its rules, and the host starts anew.
LEMMA RulesAndRestart ==
  ASSUME SettingsInv, (\E s \in Ruled : Config!LayersFor(s) \/ Config!Compute(s)) \/ Config!Restart
  PROVE  SettingsInv'
<1>1. CASE \E s \in Ruled : Config!LayersFor(s) \/ Config!Compute(s)
  <2>1. UNCHANGED <<config, keys, memory, call, overlap>>
    BY <1>1 DEF Config!LayersFor, Config!Compute
  <2>2. PICK s \in Ruled : Config!LayersFor(s) \/ Config!Compute(s)
    BY <1>1
  <2>3. /\ cache \in [Ruled -> [pc : {"none", "project", "ready", "rejected"}, rules : SUBSET (Denies \cup Allows)]]
        /\ memory.rules \in SUBSET (Denies \cup Allows)
    BY ConfigsAre DEF SettingsInv, SettingsTypes
  <2>4. /\ cache' \in [Ruled -> [pc : {"none", "project", "ready", "rejected"}, rules : SUBSET (Denies \cup Allows)]]
        /\ \A o \in Ruled : cache'[o].pc = "ready" => cache'[o] = cache[o] \/ cache'[o].rules = memory.rules
    BY <2>2, <2>3 DEF Config!LayersFor, Config!Compute
  <2>5. SettingsTypes' /\ Config!PolicyIsCurrent'
    BY <2>1, <2>4 DEF SettingsInv, SettingsTypes, Config!PolicyIsCurrent
  <2>6. OneCall'
    BY <2>1 DEF SettingsInv, OneCall, CallHolds, Config!NothingIsLost, Config!At
  <2> QED
    BY <2>5, <2>6 DEF SettingsInv
<1>2. CASE Config!Restart
  <2>1. /\ memory' = Config!Load(config) /\ cache' = [s \in Ruled |-> Config!NoLayers]
        /\ call' = [c \in Calls |-> Config!NoCall] /\ UNCHANGED <<config, keys, overlap>>
    BY <1>2 DEF Config!Restart, Config!Invalidated
  <2>2. memory' \in Config!Configs /\ memory'.refs = config.refs /\ (config # Config!Broken => memory' = config)
    BY <2>1, LoadedIs DEF SettingsInv, Config!Load
  <2>3. \A c \in Calls : call'[c] \in SettingsCall /\ call'[c].pc = "none"
    BY <2>1, NoCallIs
  <2>4. SettingsTypes' /\ Config!PolicyIsCurrent'
    BY <2>1, <2>2, <2>3 DEF SettingsInv, SettingsTypes, Config!PolicyIsCurrent, Config!NoLayers, OfKnown
  <2>5. OneCall'
    BY <2>1, <2>2, <2>3 DEF SettingsInv, OneCall, CallHolds, Config!NothingIsLost
  <2> QED
    BY <2>4, <2>5 DEF SettingsInv
<1> QED
  BY <1>1, <1>2

LEMMA SettingsKept == SettingsInv /\ [MachinesNext]_machineVars => SettingsInv'
<1> SUFFICES ASSUME SettingsInv, [MachinesNext]_machineVars PROVE SettingsInv'
  OBVIOUS
<1>1. Config!Next \/ UNCHANGED settingsVars
  BY DEF MachinesNext, Moves, machineVars
<1>2. CASE UNCHANGED settingsVars
  BY <1>2 DEF settingsVars, SettingsInv, SettingsTypes, Config!PolicyIsCurrent, OneCall, CallHolds,
              Config!NothingIsLost, Config!At
<1>3. CASE Config!Next
  BY <1>3, CallBegins, CallMoves, RulesAndRestart DEF Config!Next
<1> QED
  BY <1>1, <1>2, <1>3

\* A session never goes on with rules the user has changed, and as long as no two calls
\* overlap what the settings page was told is what the next start finds
\* (session-policy.ts, desktop-host.ts:1013-1074).
THEOREM SettingsCorrect == MachinesSpec => []SettingsHold
<1>1. SettingsInv => SettingsHold
  <2> SUFFICES ASSUME SettingsInv PROVE SettingsHold
    OBVIOUS
  <2>1. ~ overlap => Config!NothingIsLost
    BY DEF SettingsInv, OneCall
  <2>2. Config!NothingIsLost
    BY <2>1 DEF Config!NothingIsLost
  <2>3. Config!TypeOK
    BY DEF SettingsInv, SettingsTypes, SettingsCall, Config!TypeOK
  <2> QED
    BY <2>2, <2>3 DEF SettingsInv, SettingsHold
<1> QED
  BY <1>1, SettingsStart, SettingsKept, PTL DEF MachinesSpec

-----------------------------------------------------------------------------
(* Edits that are applied: what an apply writes is what its proposal made  *)
(* of the text that was there.                                             *)

\* What an apply has still to write, and what it found: the places of its proposal made
\* new in the texts the proposal was made of, which are still there unless another program
\* has written since.
ToWrite(p, f) == [s \in Spots |-> IF <<f, s>> \in p.spots THEN "new" ELSE p.before[f][s]]

Applying(p) ==
  /\ DOMAIN apply.write \subseteq DOMAIN p.before
  /\ \A f \in DOMAIN apply.write : /\ apply.write[f] = ToWrite(p, f)
                                   /\ f \notin raced => texts[f] = p.before[f]
  /\ \A g \in DOMAIN p.before : begun[g] = p.before[g]

EditsInv ==
  /\ DOMAIN texts = Files /\ foreign \in Nat
  /\ apply = [of |-> apply.of, write |-> apply.write]
  /\ ~ Edits!Idle => Applying(proposals[apply.of])

LEMMA EditsStart == MachinesInit => EditsInv
BY DEF MachinesInit, Edits!Init, Edits!Idle, Edits!NoApply, EditsInv

LEMMA EditsKept == EditsInv /\ [MachinesNext]_machineVars => EditsInv'
<1> SUFFICES ASSUME EditsInv, [MachinesNext]_machineVars PROVE EditsInv'
  OBVIOUS
<1>1. Edits!Next \/ UNCHANGED editVars
  BY DEF MachinesNext, Moves, machineVars
<1>2. CASE UNCHANGED editVars
  BY <1>2 DEF editVars, EditsInv, Applying, Edits!Idle
<1>3. ASSUME Edits!Idle, UNCHANGED <<texts, foreign, apply>> PROVE EditsInv'
  BY <1>3 DEF EditsInv, Edits!Idle
<1>4. ASSUME NEW spots, Edits!Preview(spots) PROVE EditsInv'
  BY <1>3, <1>4 DEF Edits!Preview, Edits!Unchanged
<1>5. ASSUME NEW k, NEW selected, Edits!Review(k, selected) PROVE EditsInv'
  BY <1>3, <1>5 DEF Edits!Review, Edits!Unchanged
<1>6. ASSUME NEW k, Edits!Apply(k) PROVE EditsInv'
  <2>1. CASE Edits!OnDisk(k)
    BY <1>3, <1>6, <2>1 DEF Edits!Apply
  <2>2. CASE ~ Edits!OnDisk(k)
    <3> DEFINE p == proposals[k]
               write == [f \in DOMAIN p.before |-> Edits!ApplyReplacements(f, p.spots)]
    <3>1. /\ \A f \in DOMAIN p.before : texts[f] = p.before[f]
          /\ apply' = [of |-> k, write |-> write] /\ raced' = {} /\ begun' = texts
          /\ UNCHANGED <<texts, foreign, proposals>>
      BY <1>6, <2>2 DEF Edits!Apply, Edits!Prepared, Edits!Drifted
    <3>2. \A f \in DOMAIN p.before : write[f] = ToWrite(p, f)
      BY <3>1 DEF Edits!ApplyReplacements, ToWrite
    <3>3. DOMAIN write = DOMAIN p.before
      OBVIOUS
    <3> HIDE DEF write, p
    <3>4. apply'.of = k /\ apply'.write = write /\ apply' = [of |-> apply'.of, write |-> apply'.write]
      BY <3>1
    <3> QED
      BY <3>1, <3>2, <3>3, <3>4 DEF EditsInv, Applying, p
  <2> QED
    BY <2>1, <2>2
<1>7. ASSUME NEW f \in Files, Edits!WriteTextAtomic(f) PROVE EditsInv'
  <2>1. ~ Edits!Idle
    BY <1>7 DEF Edits!WriteTextAtomic, Edits!Idle, Edits!NoApply
  <2>2. /\ texts' = [texts EXCEPT ![f] = apply.write[f]]
        /\ apply' = [of |-> apply.of, write |-> [g \in DOMAIN apply.write \ {f} |-> apply.write[g]]]
        /\ UNCHANGED <<proposals, foreign, raced, begun>>
    BY <1>7 DEF Edits!WriteTextAtomic, Edits!Restrict, EditsInv
  <2>3. /\ DOMAIN texts' = Files /\ \A g \in Files \ {f} : texts'[g] = texts[g]
        /\ DOMAIN apply'.write = DOMAIN apply.write \ {f} /\ apply'.of = apply.of
        /\ \A g \in DOMAIN apply.write \ {f} : apply'.write[g] = apply.write[g]
        /\ \A g : g # f => texts'[g] = texts[g]
    BY <2>2 DEF EditsInv
  <2> QED
    BY <2>1, <2>2, <2>3 DEF EditsInv, Applying
<1>8. ASSUME NEW f \in Files, NEW s \in Spots, NEW v \in Edits!Values, Edits!ForeignWrite(f, s, v)
      PROVE EditsInv'
  <2>1. /\ DOMAIN texts' = Files /\ foreign' \in Nat /\ \A g : g # f => texts'[g] = texts[g]
        /\ raced' = (IF Edits!Idle THEN raced ELSE raced \cup {f}) /\ UNCHANGED <<proposals, apply, begun>>
    BY <1>8 DEF Edits!ForeignWrite, EditsInv
  <2>2. Edits!Idle' <=> Edits!Idle
    BY <2>1 DEF Edits!Idle
  <2>3. CASE Edits!Idle
    BY <2>1, <2>2, <2>3 DEF EditsInv
  <2>4. CASE ~ Edits!Idle
    BY <2>1, <2>2, <2>4 DEF EditsInv, Applying
  <2> QED
    BY <2>3, <2>4
<1>9. ASSUME Edits!Stops \/ Edits!Applied PROVE EditsInv'
  BY <1>9 DEF Edits!Stops, Edits!Applied, Edits!Unchanged, Edits!Idle, Edits!NoApply, EditsInv
<1> QED
  BY <1>1, <1>2, <1>4, <1>5, <1>6, <1>7, <1>8, <1>9 DEF Edits!Next

\* What writes a file, other programs aside, is an apply of a proposal that has the place.
LEMMA WritesAreProposed ==
  ASSUME EditsInv, [MachinesNext]_machineVars, NEW f \in Files, texts'[f] # texts[f], foreign' = foreign
  PROVE  /\ ~ Edits!Idle
         /\ LET p == proposals[apply.of] IN
              /\ f \in DOMAIN p.before
              /\ f \notin raced => texts[f] = p.before[f]
              /\ f \notin raced =>
                   \A s \in Spots : texts'[f][s] = IF <<f, s>> \in p.spots THEN "new" ELSE texts[f][s]
              /\ \A g \in DOMAIN p.before : begun[g] = p.before[g]
<1>1. Edits!Next
  BY DEF MachinesNext, Moves, machineVars, editVars
<1>2. \A g \in Files, s \in Spots, v \in Edits!Values : ~ Edits!ForeignWrite(g, s, v)
  BY DEF Edits!ForeignWrite, EditsInv
<1>3. PICK g \in Files : Edits!WriteTextAtomic(g)
  BY <1>1, <1>2 DEF Edits!Next, Edits!Preview, Edits!Review, Edits!Apply, Edits!Stops, Edits!Applied, Edits!Unchanged
<1>4. /\ g = f /\ f \in DOMAIN apply.write /\ texts'[f] = apply.write[f]
  BY <1>3 DEF Edits!WriteTextAtomic, EditsInv
<1>5. ~ Edits!Idle
  BY <1>4 DEF Edits!Idle, Edits!NoApply
<1> QED
  BY <1>4, <1>5 DEF EditsInv, Applying, ToWrite

\* An apply changes the places of its proposal and nothing else, in every file nobody else
\* has written since it looked; all other steps write no file (edit.ts, edit-present.ts).
THEOREM EditsCorrect == MachinesSpec => OnlyWhatWasProposed
<1>1. EditsInv /\ [MachinesNext]_machineVars =>
        [\A f \in Files : texts'[f] # texts[f] /\ foreign' = foreign =>
           /\ ~ Edits!Idle
           /\ LET p == proposals[apply.of] IN
                /\ f \in DOMAIN p.before
                /\ f \notin raced => texts[f] = p.before[f]
                /\ f \notin raced =>
                     \A s \in Spots : texts'[f][s] = IF <<f, s>> \in p.spots THEN "new" ELSE texts[f][s]
                /\ \A g \in DOMAIN p.before : begun[g] = p.before[g]]_editVars
  BY WritesAreProposed
<1> QED
  BY <1>1, EditsStart, EditsKept, PTL DEF MachinesSpec, OnlyWhatWasProposed, Edits!OnlyWhatWasProposed,
     editVars, Edits!vars

-----------------------------------------------------------------------------
(* Files that are restored: the folders above a file form a line, and a    *)
(* target is placed as far as what was restored of it goes.                *)

\* A set of paths that has the directory each of its members is in.
ClosedAbove(S) == \A q \in S : Parent[q] \in S \cup {"root"}

LEMMA AboveIs ==
  \A p : Kept!Above(p) = {a \in Paths : \A S \in SUBSET Paths :
                            Parent[p] \in S \cup {"root"} /\ ClosedAbove(S) => a \in S}
BY DEF Kept!Above, ClosedAbove

LEMMA ParentIs == \A p \in Paths : Parent[p] \in Paths \cup {"root"} /\ p # "root" /\ p \notin Kept!Above(p)
BY DesktopAssumption DEF DesktopAssumption

\* A path's directory and what is above it are above it.
LEMMA AboveClosed ==
  ASSUME NEW p \in Paths
  PROVE  /\ Kept!Above(p) \subseteq Paths /\ ClosedAbove(Kept!Above(p))
         /\ Parent[p] \in Kept!Above(p) \cup {"root"}
<1>1. Kept!Above(p) \subseteq Paths
  BY AboveIs
<1>2. Parent[p] \in Kept!Above(p) \cup {"root"}
  BY AboveIs, ParentIs
<1>3. ASSUME NEW q \in Kept!Above(p) PROVE Parent[q] \in Kept!Above(p) \cup {"root"}
  <2>1. \A S \in SUBSET Paths : Parent[p] \in S \cup {"root"} /\ ClosedAbove(S) => Parent[q] \in S \cup {"root"}
    BY <1>3, AboveIs DEF ClosedAbove
  <2> QED
    BY <1>1, <2>1, AboveIs, ParentIs
<1> QED
  BY <1>1, <1>2, <1>3 DEF ClosedAbove

LEMMA AboveWithin ==
  ASSUME NEW p \in Paths, NEW S \in SUBSET Paths, Parent[p] \in S \cup {"root"}, ClosedAbove(S)
  PROVE  Kept!Above(p) \subseteq S
BY AboveIs

LEMMA AboveTransitive ==
  ASSUME NEW p \in Paths, NEW q \in Kept!Above(p)
  PROVE  Kept!Above(q) \subseteq Kept!Above(p)
BY AboveClosed, AboveWithin DEF ClosedAbove

\* What is above a path is its directory or above that.
LEMMA AboveUnfolds ==
  ASSUME NEW p \in Paths, NEW a \in Kept!Above(p)
  PROVE  Parent[p] \in Paths /\ (a = Parent[p] \/ a \in Kept!Above(Parent[p]))
<1>1. Parent[p] # "root"
  <2>1. ClosedAbove({})
    BY DEF ClosedAbove
  <2> QED
    BY <2>1, AboveWithin
<1>2. Parent[p] \in Paths
  BY <1>1, ParentIs
<1> DEFINE S == {Parent[p]} \cup Kept!Above(Parent[p])
<1>3. S \in SUBSET Paths /\ ClosedAbove(S)
  BY <1>2, AboveClosed DEF ClosedAbove
<1>4. Kept!Above(p) \subseteq S
  BY <1>3, AboveWithin
<1> QED
  BY <1>2, <1>4

\* Of two paths above a third, one is above the other.
LEMMA AboveInLine ==
  ASSUME NEW p \in Paths, NEW a \in Kept!Above(p), NEW b \in Kept!Above(p)
  PROVE  a = b \/ a \in Kept!Above(b) \/ b \in Kept!Above(a)
<1> DEFINE S == {r \in Paths : r = a \/ r \in Kept!Above(a) \/ a \in Kept!Above(r)}
<1>1. a \in Paths
  BY AboveClosed
<1>2. Parent[p] \in S \cup {"root"}
  BY AboveUnfolds, ParentIs
<1>3. ASSUME NEW r \in S PROVE Parent[r] \in S \cup {"root"}
  <2>1. CASE r = a \/ r \in Kept!Above(a)
    BY <1>1, <2>1, AboveClosed, ParentIs DEF ClosedAbove
  <2>2. CASE a \in Kept!Above(r)
    BY <2>2, AboveUnfolds, ParentIs
  <2> QED
    BY <2>1, <2>2
<1>4. b \in S
  BY <1>2, <1>3, AboveWithin DEF ClosedAbove
<1> QED
  BY <1>4

\* What is at two places at once is at one above the other.
LEMMA UnderApart ==
  ASSUME NEW p \in Paths, NEW q \in Paths, p # q, p \notin Kept!Above(q), q \notin Kept!Above(p)
  PROVE  \A r \in Paths : ~ (r \in Kept!Under(p) /\ r \in Kept!Under(q))
BY AboveInLine DEF Kept!Under, Kept!Below

\* Whatever is somewhere has directories above it.
LEMMA DirectoriesAbove ==
  ASSUME NEW t \in Kept!Trees, NEW q \in Paths, t[q] # "none"
  PROVE  \A r \in Kept!Above(q) : t[r] = "dir"
<1> DEFINE S == {r \in Paths : t[r] = "dir"}
<1>1. Parent[q] \in S \cup {"root"} /\ ClosedAbove(S)
  BY ParentIs DEF Kept!Trees, ClosedAbove
<1> QED
  BY <1>1, AboveWithin

\* The manifest: no target is above another, and what was somewhere had directories above it.
ManifestStands ==
  /\ ~ Kept!Overlap
  /\ \A p \in DOMAIN manifest :
       /\ p \in Paths
       /\ \A q \in Kept!Under(p) : manifest[p][q] # "none" =>
            \A r \in Kept!Above(q) \cap Kept!Under(p) : manifest[p][r] = "dir"

\* While files are put back, the targets that are done are as they were, and elsewhere
\* only directories have been made.
UnderWay ==
  /\ Kept!Kept \cap damaged = {} /\ restore.left \subseteq DOMAIN manifest
  /\ \A p \in DOMAIN manifest \ restore.left : \A q \in Kept!Under(p) : tree[q] = manifest[p][q]
  /\ \A q \in Paths : (\A p \in DOMAIN manifest : q \notin Kept!Under(p)) => tree[q] = before[q] \/ tree[q] = "dir"

\* The target that is being put back: a file is written over whatever is there; a directory
\* was emptied, and holds what it held as far as it is placed.
Placing ==
  LET at == restore.at IN
  /\ at \in restore.left
  /\ \/ manifest[at][at] \notin {"none", "dir"} /\ restore.placed = {}
     \/ \A q \in Kept!Under(at) : /\ tree[q] \in {"none", manifest[at][q]}
                                  /\ q \in restore.placed => tree[q] = manifest[at][q]

RestoreInv ==
  /\ restore = [stage |-> restore.stage, left |-> restore.left, at |-> restore.at, placed |-> restore.placed]
  /\ manifest = <<>> => tree \in Kept!Trees /\ restore.stage = "none"
  /\ ManifestStands
  /\ restore.stage = "checking" => tree = before /\ restore.left = DOMAIN manifest
  /\ restore.stage \in {"checking", "restoring"} => restore.placed = {}
  /\ restore.stage \in {"restoring", "placing"} => UnderWay
  /\ restore.stage = "placing" => Placing

LEMMA RestoreStarts == MachinesInit => RestoreInv
BY DEF MachinesInit, Kept!Init, Kept!NoRestore, RestoreInv, ManifestStands, Kept!Overlap

\* What a checkpoint keeps.
LEMMA ManifestMade ==
  ASSUME RestoreInv, NEW targets \in SUBSET Paths, Kept!Before(targets)
  PROVE  RestoreInv'
<1>1. /\ manifest' = [p \in Kept!CollapseTargets(targets) |-> [q \in Kept!Under(p) |-> tree[q]]]
      /\ UNCHANGED <<tree, damaged, restore, before, signal>> /\ manifest = <<>>
  BY DEF Kept!Before
<1>2. tree \in Kept!Trees /\ restore.stage = "none"
  BY <1>1 DEF RestoreInv
<1>3. \A p \in Kept!CollapseTargets(targets) : p \in targets /\ p \in Paths /\ Kept!Above(p) \cap targets = {}
  BY DEF Kept!CollapseTargets
<1>4. ~ Kept!Overlap'
  BY <1>1, <1>3 DEF Kept!Overlap
<1>5. ASSUME NEW p \in DOMAIN manifest', NEW q \in Kept!Under(p), manifest'[p][q] # "none",
             NEW r \in Kept!Above(q) \cap Kept!Under(p)
      PROVE  manifest'[p][r] = "dir"
  <2>1. p \in Paths /\ q \in Paths /\ manifest'[p][q] = tree[q] /\ manifest'[p][r] = tree[r]
    BY <1>1, <1>3 DEF Kept!Under, Kept!Below
  <2> QED
    BY <1>2, <1>5, <2>1, DirectoriesAbove
<1> QED
  BY <1>1, <1>2, <1>3, <1>4, <1>5 DEF RestoreInv, ManifestStands

\* A file comes back: where its target lies, everything is as it was or not there yet.
LEMMA PlaceKeeps ==
  ASSUME RestoreInv, NEW q \in Paths, Kept!Place(q)
  PROVE  RestoreInv'
<1> DEFINE at == restore.at
           kept == manifest[restore.at]
<1>1. /\ q \in Kept!Under(at) /\ kept[q] # "none" /\ restore.stage = "placing"
      /\ UNCHANGED <<manifest, damaged, before>>
  BY DEF Kept!Place, Kept!ToPlace
<1>2. /\ restore' = [stage |-> "placing", left |-> restore.left, at |-> at, placed |-> restore.placed \cup {q}]
  BY <1>1 DEF Kept!Place, RestoreInv
<1>3. \A r \in Paths :
        tree'[r] = IF r = q THEN kept[q]
                   ELSE IF r \in Kept!Above(q) THEN "dir"
                   ELSE IF r \in Kept!Below(q) /\ kept[q] # "dir" THEN "none"
                   ELSE tree[r]
  BY DEF Kept!Place
<1>4. UnderWay /\ Placing /\ ManifestStands
  BY <1>1 DEF RestoreInv
<1>5. /\ at \in DOMAIN manifest /\ at \in restore.left /\ at \in Paths
      /\ \A r \in Kept!Above(q) \cap Kept!Under(at) : kept[r] = "dir"
  BY <1>1, <1>4 DEF UnderWay, Placing, ManifestStands
<1>6. \A r \in Kept!Above(q) : r \in Kept!Under(at) \/ r \in Kept!Above(at)
  BY <1>1, <1>5, AboveInLine, AboveClosed DEF Kept!Under, Kept!Below
<1>7. Kept!Below(q) \subseteq Kept!Under(at)
  BY <1>1, <1>5, AboveTransitive DEF Kept!Under, Kept!Below
<1>8. ASSUME NEW p \in DOMAIN manifest, p # at, NEW r \in Kept!Under(p)
      PROVE  tree'[r] = tree[r] /\ r \notin Kept!Above(at)
  <2>1. p \in Paths /\ p \notin Kept!Above(at) /\ at \notin Kept!Above(p)
    BY <1>4, <1>5, <1>8 DEF ManifestStands, Kept!Overlap
  <2>2. r \in Paths /\ r \notin Kept!Under(at)
    BY <1>5, <1>8, <2>1, UnderApart DEF Kept!Under, Kept!Below
  <2>3. r \notin Kept!Above(at)
    BY <1>5, <1>8, <2>1, AboveTransitive DEF Kept!Under, Kept!Below
  <2> QED
    BY <1>1, <1>3, <1>6, <1>7, <2>2, <2>3
<1>9. UnderWay'
  <2>1. \A p \in DOMAIN manifest \ restore.left : \A r \in Kept!Under(p) : tree'[r] = manifest[p][r]
    BY <1>4, <1>5, <1>8 DEF UnderWay
  <2>2. \A r \in Paths : (\A p \in DOMAIN manifest : r \notin Kept!Under(p)) => tree'[r] = tree[r] \/ tree'[r] = "dir"
    BY <1>1, <1>3, <1>5, <1>7
  <2>3. \A r \in Paths : (\A p \in DOMAIN manifest : r \notin Kept!Under(p)) => tree'[r] = before[r] \/ tree'[r] = "dir"
    BY <1>4, <2>2 DEF UnderWay
  <2> QED
    BY <1>1, <1>2, <1>4, <2>1, <2>3 DEF UnderWay, Kept!Kept
<1>10. Placing'
  <2>1. \A r \in Kept!Under(at) : r \in Paths
    BY <1>5 DEF Kept!Under, Kept!Below
  <2>2. CASE kept[at] \notin {"none", "dir"} /\ restore.placed = {}
    <3>1. q = at
      BY <1>1, <1>5, <2>2 DEF Kept!Under, Kept!Below
    <3>2. \A r \in Kept!Below(at) : tree'[r] = "none"
      BY <1>3, <1>5, <2>1, <2>2, <3>1, AboveTransitive, ParentIs DEF Kept!Below, Kept!Under
    <3>3. tree'[at] = kept[at]
      BY <1>3, <3>1
    <3> QED
      BY <1>1, <1>2, <1>5, <2>2, <3>1, <3>2, <3>3, ParentIs DEF Placing, Kept!Under, Kept!Below
  <2>3. CASE \A r \in Kept!Under(at) : tree[r] \in {"none", kept[r]} /\ (r \in restore.placed => tree[r] = kept[r])
    <3>1. ASSUME NEW r \in Kept!Under(at)
          PROVE  tree'[r] \in {"none", kept[r]} /\ (r \in restore.placed \cup {q} => tree'[r] = kept[r])
      <4>1. r \in Kept!Below(q) /\ kept[q] # "dir" => kept[r] = "none"
        BY <1>1, <1>4, <1>5, <2>1 DEF ManifestStands, Kept!Below
      <4> QED
        BY <1>3, <1>5, <2>1, <2>3, <4>1
    <3> QED
      BY <1>1, <1>2, <1>5, <3>1 DEF Placing
  <2> QED
    BY <1>4, <2>2, <2>3 DEF Placing
<1> QED
  BY <1>1, <1>2, <1>4, <1>9, <1>10 DEF RestoreInv, ManifestStands, Kept!Overlap

\* A target begins, emptied unless a file is to be written over it.
LEMMA TargetKeeps ==
  ASSUME RestoreInv, NEW p \in Paths, Kept!Target(p)
  PROVE  RestoreInv'
<1>1. /\ restore.stage = "restoring" /\ p \in restore.left /\ UNCHANGED <<manifest, damaged, before>>
      /\ tree' = IF manifest[p][p] \in {"none", "dir"} THEN Kept!Cleared(p) ELSE tree
      /\ restore' = [stage |-> "placing", left |-> restore.left, at |-> p, placed |-> restore.placed]
  BY DEF Kept!Target, RestoreInv
<1>2. UnderWay /\ ManifestStands /\ restore.placed = {} /\ p \in DOMAIN manifest
  BY <1>1 DEF RestoreInv, UnderWay
<1>3. \A r \in Paths : tree'[r] = tree[r] \/ (r \in Kept!Under(p) /\ tree'[r] = "none")
  BY <1>1 DEF Kept!Cleared
<1>4. \A o \in DOMAIN manifest \ restore.left : \A r \in Kept!Under(o) : r \in Paths /\ r \notin Kept!Under(p)
  <2>1. \A o \in DOMAIN manifest \ restore.left : o \in Paths /\ o # p /\ o \notin Kept!Above(p) /\ p \notin Kept!Above(o)
    BY <1>1, <1>2 DEF ManifestStands, Kept!Overlap
  <2> QED
    BY <2>1, UnderApart DEF Kept!Under, Kept!Below
<1>5. UnderWay'
  <2>1. \A o \in DOMAIN manifest \ restore.left : \A r \in Kept!Under(o) : tree'[r] = manifest[o][r]
    BY <1>2, <1>3, <1>4 DEF UnderWay
  <2>2. \A r \in Paths : (\A o \in DOMAIN manifest : r \notin Kept!Under(o)) => tree'[r] = before[r] \/ tree'[r] = "dir"
    BY <1>2, <1>3 DEF UnderWay
  <2> QED
    BY <1>1, <1>2, <2>1, <2>2 DEF UnderWay, Kept!Kept
<1>6. Placing'
  <2>1. CASE manifest[p][p] \in {"none", "dir"}
    <3>1. \A r \in Kept!Under(p) : tree'[r] = "none"
      BY <1>1, <2>1 DEF Kept!Cleared, Kept!Under, Kept!Below
    <3> QED
      BY <1>1, <1>2, <3>1 DEF Placing
  <2>2. CASE manifest[p][p] \notin {"none", "dir"}
    BY <1>1, <1>2, <2>2 DEF Placing
  <2> QED
    BY <2>1, <2>2
<1> QED
  BY <1>1, <1>2, <1>5, <1>6 DEF RestoreInv, ManifestStands, Kept!Overlap

\* A target whose files are all placed is as it was.
LEMMA TargetIsDone ==
  ASSUME RestoreInv, Kept!TargetDone
  PROVE  /\ restore.at \in restore.left /\ restore.at \in DOMAIN manifest
         /\ \A r \in Kept!Under(restore.at) : tree[r] = manifest[restore.at][r]
<1> DEFINE at == restore.at
<1>1. /\ restore.stage = "placing" /\ UnderWay /\ Placing
      /\ \A r \in Kept!Under(at) : manifest[at][r] # "none" => r \in restore.placed
  BY DEF RestoreInv, Kept!TargetDone, Kept!ToPlace
<1>2. ~ (manifest[at][at] \notin {"none", "dir"} /\ restore.placed = {})
  BY <1>1 DEF Kept!Under
<1> QED
  BY <1>1, <1>2 DEF Placing, UnderWay

LEMMA TargetDoneKeeps ==
  ASSUME RestoreInv, Kept!TargetDone
  PROVE  RestoreInv'
<1>1. /\ restore' = [stage |-> IF restore.left = {restore.at} THEN "done" ELSE "restoring",
                     left |-> restore.left \ {restore.at}, at |-> "none", placed |-> {}]
      /\ UNCHANGED <<tree, manifest, damaged, before>> /\ restore.stage = "placing"
  BY DEF Kept!TargetDone, RestoreInv
<1>2. UnderWay'
  BY <1>1, TargetIsDone DEF RestoreInv, UnderWay, Kept!Kept
<1> QED
  BY <1>1, <1>2 DEF RestoreInv, ManifestStands, Kept!Overlap

\* The other steps.
LEMMA RestoreOtherwise ==
  ASSUME RestoreInv,
         \/ Kept!Begin \/ Kept!Validate \/ Kept!Cancel \/ Kept!Stops
         \/ \E p \in Paths, v \in Kept!Values : Kept!Writes(p, v)
         \/ \E c \in Texts : Kept!BlobLost(c)
  PROVE  RestoreInv'
<1>1. UNCHANGED manifest
  BY DEF Kept!Begin, Kept!Validate, Kept!Cancel, Kept!Stops, Kept!Writes, Kept!BlobLost
<1>2. ManifestStands'
  BY <1>1 DEF RestoreInv, ManifestStands, Kept!Overlap
<1>3. CASE Kept!Begin
  BY <1>1, <1>2, <1>3 DEF Kept!Begin, Kept!NoRestore, RestoreInv
<1>4. CASE Kept!Validate
  <2>1. /\ restore.stage = "checking" /\ UNCHANGED <<tree, damaged, before>>
        /\ restore' = [stage |-> IF Kept!Checked THEN "restoring" ELSE "refused", left |-> restore.left,
                       at |-> restore.at, placed |-> restore.placed]
    BY <1>4 DEF Kept!Validate, RestoreInv
  <2>2. Kept!Checked => UnderWay'
    BY <1>1, <2>1 DEF RestoreInv, UnderWay, Kept!Checked, Kept!Kept
  <2> QED
    BY <1>1, <1>2, <2>1, <2>2 DEF RestoreInv
<1>5. CASE Kept!Cancel
  BY <1>1, <1>2, <1>5 DEF Kept!Cancel, RestoreInv, UnderWay, Placing, Kept!Kept
<1>6. CASE Kept!Stops
  BY <1>1, <1>2, <1>6 DEF Kept!Stops, RestoreInv
<1>7. ASSUME NEW p \in Paths, NEW v \in Kept!Values, Kept!Writes(p, v) PROVE RestoreInv'
  BY <1>1, <1>2, <1>7 DEF Kept!Writes, RestoreInv
<1>8. ASSUME NEW c \in Texts, Kept!BlobLost(c) PROVE RestoreInv'
  BY <1>1, <1>2, <1>8 DEF Kept!BlobLost, RestoreInv
<1> QED
  BY <1>3, <1>4, <1>5, <1>6, <1>7, <1>8

LEMMA RestoreKept == RestoreInv /\ [MachinesNext]_machineVars => RestoreInv'
<1> SUFFICES ASSUME RestoreInv, [MachinesNext]_machineVars PROVE RestoreInv'
  OBVIOUS
<1>1. Kept!Next \/ UNCHANGED restoreVars
  BY DEF MachinesNext, Moves, machineVars
<1>2. CASE UNCHANGED restoreVars
  BY <1>2 DEF restoreVars, RestoreInv, ManifestStands, UnderWay, Placing, Kept!Overlap, Kept!Kept
<1>3. CASE Kept!Next
  BY <1>3, ManifestMade, PlaceKeeps, TargetKeeps, TargetDoneKeeps, RestoreOtherwise DEF Kept!Next
<1> QED
  BY <1>1, <1>2, <1>3

\* How a restore ends.
LEMMA RestoreEnds ==
  ASSUME RestoreInv, [MachinesNext]_machineVars
  PROVE  /\ restore'.stage = "done" /\ restore.stage # "done" =>
              \A q \in Paths :
                IF \E p \in DOMAIN manifest : q \in Kept!Under(p)
                THEN \A p \in DOMAIN manifest : q \in Kept!Under(p) => tree[q] = manifest[p][q]
                ELSE tree[q] = before[q] \/ tree[q] = "dir"
         /\ restore'.stage = "refused" /\ restore.stage # "refused" =>
              tree' = before /\ (Kept!Kept \cap damaged # {} \/ signal)
         /\ restore.stage \in {"restoring", "placing"} /\ Kept!Kept \cap damaged # {} => tree' = tree
<1>1. Kept!Next \/ UNCHANGED restoreVars
  BY DEF MachinesNext, Moves, machineVars
<1>2. ~ (restore.stage \in {"restoring", "placing"} /\ Kept!Kept \cap damaged # {})
  BY DEF RestoreInv, UnderWay
<1>3. ASSUME restore'.stage = "refused", restore.stage # "refused"
      PROVE  tree' = before /\ (Kept!Kept \cap damaged # {} \/ signal)
  <2>1. Kept!Validate
    BY <1>1, <1>3 DEF Kept!Next, restoreVars, RestoreInv, Kept!Before, Kept!Writes, Kept!BlobLost, Kept!Begin,
       Kept!NoRestore, Kept!TargetDone, Kept!Cancel, Kept!Stops, Kept!Target, Kept!Place
  <2> QED
    BY <1>3, <2>1 DEF Kept!Validate, Kept!Checked, RestoreInv, ManifestStands
<1>4. ASSUME restore'.stage = "done", restore.stage # "done"
      PROVE  \A q \in Paths :
                IF \E p \in DOMAIN manifest : q \in Kept!Under(p)
                THEN \A p \in DOMAIN manifest : q \in Kept!Under(p) => tree[q] = manifest[p][q]
                ELSE tree[q] = before[q] \/ tree[q] = "dir"
  <2>1. Kept!TargetDone
    BY <1>1, <1>4 DEF Kept!Next, restoreVars, RestoreInv, Kept!Before, Kept!Writes, Kept!BlobLost, Kept!Begin,
       Kept!NoRestore, Kept!Validate, Kept!Cancel, Kept!Stops, Kept!Target, Kept!Place
  <2>2. UnderWay /\ restore.left = {restore.at}
    BY <1>4, <2>1 DEF Kept!TargetDone, RestoreInv
  <2>3. \A p \in DOMAIN manifest : \A q \in Kept!Under(p) : tree[q] = manifest[p][q]
    BY <2>1, <2>2, TargetIsDone DEF UnderWay
  <2> QED
    BY <2>2, <2>3 DEF UnderWay
<1> QED
  BY <1>2, <1>3, <1>4

\* A restore that ends well has put back every target and touched nothing else but to make
\* directories; one that is refused has touched nothing; none that lacks a content writes a
\* file (checkpoint-restore.ts).
THEOREM RestoreCorrect == MachinesSpec => RestoreIsRight
<1>1. RestoreInv /\ [MachinesNext]_machineVars =>
        [/\ restore'.stage = "done" /\ restore.stage # "done" =>
              \A q \in Paths :
                IF \E p \in DOMAIN manifest : q \in Kept!Under(p)
                THEN \A p \in DOMAIN manifest : q \in Kept!Under(p) => tree[q] = manifest[p][q]
                ELSE tree[q] = before[q] \/ tree[q] = "dir"
         /\ restore'.stage = "refused" /\ restore.stage # "refused" =>
              tree' = before /\ (Kept!Kept \cap damaged # {} \/ signal)
         /\ restore.stage \in {"restoring", "placing"} /\ Kept!Kept \cap damaged # {} => tree' = tree]_restoreVars
  BY RestoreEnds
<1> QED
  BY <1>1, RestoreStarts, RestoreKept, PTL DEF MachinesSpec, RestoreIsRight, Kept!RestoreIsRight,
     restoreVars, Kept!vars

-----------------------------------------------------------------------------
(* Plugins that start and end: what an active one was given belongs to one *)
(* activated before it, and what it set up is undone in the opposite       *)
(* order.                                                                  *)

InList(p, list) == \E i \in DOMAIN list : list[i] = p
Distinct(list) == \A i, j \in DOMAIN list : list[i] = list[j] => i = j
Rows == {wiring[i] : i \in DOMAIN wiring}
Named(p) == \E row \in Rows : row.name = p

\* Everything a plugin can have set up.
Effects == (UNION {wiring[i].provide : i \in DOMAIN wiring}) \cup {"listener", "cleanup"}

PluginTypes ==
  /\ wiring \in Wirings
  /\ plugins \in [Plugins -> {"absent", "pending", "active", "disposed"}]
  /\ effects \in [Plugins -> Seq(Effects)] /\ setUp \in [Plugins -> Seq(Effects)]
  /\ undone \in [Plugins -> Seq(Effects)]
  /\ activated \in Seq(Plugins) /\ todo \in Seq(Plugins) /\ Distinct(activated) /\ Distinct(todo)
  /\ using \in {"used", "starting", "applying", "started", "unwinding", "failed", "disposing", "disposed"}
  /\ \A p \in Plugins : plugins[p] # "absent" => Named(p)

\* A service is an effect of the plugin that owns it, which has announced it.
ServicesOwned ==
  /\ services = [s \in DOMAIN services |-> services[s]]
  /\ \A s \in DOMAIN services :
       /\ services[s] \in Plugins
       /\ InList(s, effects[services[s]])
       /\ \E row \in Rows : row.name = services[s] /\ s \in row.provide

\* What a plugin has set up is what stands of it, followed by what was undone,
\* the last of it first.
UndoneInOrder ==
  \A p \in Plugins :
    /\ Len(setUp[p]) = Len(effects[p]) + Len(undone[p])
    /\ \A i \in DOMAIN effects[p] : setUp[p][i] = effects[p][i]
    /\ \A i \in DOMAIN undone[p] : setUp[p][Len(setUp[p]) - i + 1] = undone[p][i]

\* Only a plugin that is applied, active or being disposed has effects, and only a
\* disposed one has undone any.
EffectsStand ==
  \A p \in Plugins :
    /\ plugins[p] = "absent" => effects[p] = <<>>
    /\ plugins[p] = "pending" /\ ~ Container!Applying(p) => effects[p] = <<>>
    /\ plugins[p] # "disposed" => undone[p] = <<>>

\* While plugins start, the active ones are those activated, and each finds what it injects
\* with one that was activated before.
Starting ==
  /\ using \in {"used", "starting", "applying", "started"} =>
       \A p \in Plugins : plugins[p] # "disposed" /\ (plugins[p] = "active" <=> InList(p, activated))
  /\ using = "used" => activated = <<>>
  /\ using \in {"starting", "applying", "started"} =>
       /\ ~ Container!AdvertisedConflict
       /\ \A i \in DOMAIN activated : \A row \in Rows : row.name = activated[i] => \A s \in row.inject :
            /\ s \in DOMAIN services
            /\ \E j \in 1..i - 1 : activated[j] = services[s]
  /\ using = "applying" =>
       \E p \in Plugins : /\ todo = <<p>> /\ plugins[p] = "pending"
                          /\ \A row \in Rows : row.name = p => \A s \in row.inject : s \in DOMAIN services /\ services[s] # p

\* While plugins are taken back, who has something standing is still to be disposed, and
\* what an active one injects belongs to one that is disposed after it.
TakingBack ==
  /\ using \in {"unwinding", "disposing"} =>
       /\ \A p \in Plugins : effects[p] # <<>> \/ plugins[p] = "active" => InList(p, todo)
       /\ using = "unwinding" \/ Container!InOrder =>
            \A i \in DOMAIN todo : plugins[todo[i]] = "active" =>
              \A row \in Rows : row.name = todo[i] => \A s \in row.inject :
                /\ s \in DOMAIN services
                /\ \E j \in i + 1 .. Len(todo) : todo[j] = services[s]
  /\ using \in {"failed", "disposed"} =>
       \A p \in Plugins : effects[p] = <<>> /\ plugins[p] # "active"

PluginsInv ==
  /\ PluginTypes /\ ServicesOwned /\ UndoneInOrder /\ EffectsStand /\ Starting /\ TakingBack

-----------------------------------------------------------------------------
LEMMA RowOf ==
  ASSUME wiring \in Wirings, NEW row \in Rows
  PROVE  row.name \in Plugins /\ Container!Row(row.name) = row
<1>0. PICK i \in DOMAIN wiring : row = wiring[i]
  BY DEF Rows
<1>1. \A j \in DOMAIN wiring : wiring[j].name = wiring[i].name => j = i
  BY DesktopAssumption DEF DesktopAssumption, Container!WiringsAssumption
<1> QED
  BY <1>0, <1>1, DesktopAssumption DEF Container!Row, DesktopAssumption, Container!WiringsAssumption

LEMMA NamesAre ==
  ASSUME wiring \in Wirings
  PROVE  /\ Container!PluginNames \in Seq(Plugins) /\ Distinct(Container!PluginNames)
         /\ \A p : Named(p) <=> InList(p, Container!PluginNames)
         /\ wiring \in Seq({wiring[i] : i \in DOMAIN wiring})
<1>1. /\ wiring \in Seq({wiring[i] : i \in DOMAIN wiring})
      /\ \A i, j \in DOMAIN wiring : wiring[i].name \in Plugins /\ (wiring[i].name = wiring[j].name => i = j)
  BY DesktopAssumption DEF DesktopAssumption, Container!WiringsAssumption, Container!ToSet
<1>2. DOMAIN wiring = 1..Len(wiring) /\ Len(wiring) \in Nat
  BY <1>1
<1>3. /\ Container!PluginNames \in Seq(Plugins)
      /\ DOMAIN Container!PluginNames = DOMAIN wiring
      /\ \A i \in DOMAIN wiring : Container!PluginNames[i] = wiring[i].name
  BY <1>1, <1>2 DEF Container!PluginNames
<1> QED
  BY <1>1, <1>3 DEF Distinct, Named, Rows, InList

LEMMA ReverseOf ==
  ASSUME NEW S, NEW list \in Seq(S)
  PROVE  /\ Container!Reverse(list) \in Seq(S)
         /\ Len(Container!Reverse(list)) = Len(list)
         /\ DOMAIN Container!Reverse(list) = DOMAIN list
         /\ \A i \in DOMAIN list : /\ Len(list) - i + 1 \in DOMAIN list
                                   /\ Container!Reverse(list)[i] = list[Len(list) - i + 1]
         /\ Distinct(list) => Distinct(Container!Reverse(list))
         /\ \A p : InList(p, list) => InList(p, Container!Reverse(list))
<1> DEFINE rev == Container!Reverse(list)
<1>1. /\ DOMAIN list = 1..Len(list) /\ Len(list) \in Nat
      /\ \A i \in 1..Len(list) : list[i] \in S
  OBVIOUS
<1>2. /\ rev \in Seq(S) /\ Len(rev) = Len(list) /\ DOMAIN rev = 1..Len(list)
      /\ \A i \in 1..Len(list) : Len(list) - i + 1 \in 1..Len(list) /\ rev[i] = list[Len(list) - i + 1]
  BY <1>1 DEF Container!Reverse
<1> HIDE DEF rev
<1>3. ASSUME Distinct(list), NEW i \in 1..Len(list), NEW j \in 1..Len(list), rev[i] = rev[j] PROVE i = j
  <2>1. Len(list) - i + 1 = Len(list) - j + 1
    BY <1>1, <1>2, <1>3 DEF Distinct
  <2> QED
    BY <1>1, <2>1
<1>4. ASSUME NEW i \in 1..Len(list)
      PROVE  Len(list) - i + 1 \in 1..Len(list) /\ rev[Len(list) - i + 1] = list[i]
  <2>1. Len(list) - i + 1 \in 1..Len(list) /\ Len(list) - (Len(list) - i + 1) + 1 = i
    BY <1>1
  <2> QED
    BY <1>2, <2>1
<1>5. \A p : InList(p, list) => InList(p, rev)
  BY <1>1, <1>2, <1>4 DEF InList
<1>6. Distinct(list) => Distinct(rev)
  BY <1>2, <1>3 DEF Distinct
<1> QED
  BY <1>1, <1>2, <1>5, <1>6 DEF rev

LEMMA TailOf ==
  ASSUME NEW S, NEW list \in Seq(S), list # <<>>
  PROVE  /\ Tail(list) \in Seq(S) /\ Len(Tail(list)) = Len(list) - 1
         /\ 1 \in DOMAIN list /\ Head(list) = list[1]
         /\ \A i \in DOMAIN Tail(list) : i + 1 \in DOMAIN list /\ Tail(list)[i] = list[i + 1]
         /\ Distinct(list) => Distinct(Tail(list))
         /\ \A p : InList(p, list) /\ p # Head(list) => InList(p, Tail(list))
<1>1. /\ Tail(list) \in Seq(S) /\ Len(Tail(list)) = Len(list) - 1 /\ Len(list) \in Nat \ {0}
      /\ DOMAIN list = 1..Len(list) /\ DOMAIN Tail(list) = 1..Len(list) - 1
      /\ Head(list) = list[1] /\ 1 \in DOMAIN list
      /\ \A i \in DOMAIN Tail(list) : i + 1 \in DOMAIN list /\ Tail(list)[i] = list[i + 1]
  OBVIOUS
<1>2. ASSUME Distinct(list), NEW i \in DOMAIN Tail(list), NEW j \in DOMAIN Tail(list), Tail(list)[i] = Tail(list)[j]
      PROVE  i = j
  <2>1. i + 1 = j + 1
    BY <1>1, <1>2 DEF Distinct
  <2> QED
    BY <1>1, <2>1
<1>3. ASSUME NEW i \in DOMAIN list, list[i] # Head(list) PROVE InList(list[i], Tail(list))
  <2>1. i - 1 \in DOMAIN Tail(list) /\ (i - 1) + 1 = i
    BY <1>1, <1>3
  <2>2. Tail(list)[i - 1] = list[i]
    BY <1>1, <2>1
  <2> QED
    BY <2>1, <2>2 DEF InList
<1>4. Distinct(list) => Distinct(Tail(list))
  BY <1>2 DEF Distinct
<1>5. \A p : InList(p, list) /\ p # Head(list) => InList(p, Tail(list))
  BY <1>3 DEF InList
<1> QED
  BY <1>1, <1>4, <1>5

-----------------------------------------------------------------------------
LEMMA PluginsStart == MachinesInit => PluginsInv
<1> SUFFICES ASSUME MachinesInit PROVE PluginsInv
  OBVIOUS
<1>1. Container!Init
  BY DEF MachinesInit
<1> USE <1>1 DEF Container!Init
<1>2. PluginTypes
  BY DEF PluginTypes, Distinct, Named, Rows
<1>3. \A p \in Plugins : effects[p] = <<>> /\ undone[p] = <<>> /\ setUp[p] = <<>>
                           /\ plugins[p] \in {"absent", "pending"}
  OBVIOUS
<1>4. ServicesOwned
  BY DEF ServicesOwned
<1>5. UndoneInOrder
  BY <1>3 DEF UndoneInOrder
<1>6. EffectsStand
  BY <1>3 DEF EffectsStand
<1>7. Starting
  BY <1>3 DEF Starting, InList
<1>8. TakingBack
  BY DEF TakingBack
<1> QED
  BY <1>2, <1>4, <1>5, <1>6, <1>7, <1>8 DEF PluginsInv

\* Where no plugin sets up or undoes anything, what is owned and undone stays as it is.
LEMMA NothingSetUp ==
  ASSUME PluginsInv, UNCHANGED <<wiring, services, effects, undone, setUp>>
  PROVE  /\ ServicesOwned' /\ UndoneInOrder' /\ wiring' \in Wirings
         /\ effects' \in [Plugins -> Seq(Effects')] /\ setUp' \in [Plugins -> Seq(Effects')]
         /\ undone' \in [Plugins -> Seq(Effects')]
<1>1. ServicesOwned'
  BY DEF PluginsInv, ServicesOwned, Rows, InList
<1>2. UndoneInOrder'
  BY DEF PluginsInv, UndoneInOrder
<1>3. Effects' = Effects
  BY DEF Effects
<1>4. /\ wiring' \in Wirings
      /\ effects' \in [Plugins -> Seq(Effects')] /\ setUp' \in [Plugins -> Seq(Effects')]
      /\ undone' \in [Plugins -> Seq(Effects')]
  BY <1>3 DEF PluginsInv, PluginTypes
<1> QED
  BY <1>1, <1>2, <1>4

LEMMA StartsKeep ==
  ASSUME PluginsInv, Container!Start PROVE PluginsInv'
<1> USE DEF Container!Start
<1>1. /\ ServicesOwned' /\ UndoneInOrder' /\ wiring' \in Wirings
      /\ effects' \in [Plugins -> Seq(Effects')] /\ setUp' \in [Plugins -> Seq(Effects')]
      /\ undone' \in [Plugins -> Seq(Effects')]
  BY NothingSetUp
<1>2. \A p \in Plugins : plugins[p] \in {"absent", "pending"} /\ effects[p] = <<>>
  BY DEF PluginsInv, PluginTypes, EffectsStand, Starting, InList, Container!Applying
<1>3. PluginTypes'
  BY <1>1 DEF PluginsInv, PluginTypes, Named, Rows
<1>4. EffectsStand'
  BY <1>2 DEF PluginsInv, EffectsStand
<1>5. Starting'
  BY <1>2 DEF PluginsInv, Starting, InList, Container!AdvertisedConflict
<1>6. TakingBack'
  BY <1>2 DEF TakingBack
<1> QED
  BY <1>1, <1>3, <1>4, <1>5, <1>6 DEF PluginsInv

LEMMA ActivatesKeep ==
  ASSUME PluginsInv, Container!Activate PROVE PluginsInv'
<1>1. PICK i \in Container!Ready : todo' = <<wiring[i].name>>
  BY DEF Container!Activate
<1> DEFINE p == wiring[i].name
<1> USE DEF Container!Activate
<1>2. /\ i \in DOMAIN wiring /\ p \in Plugins /\ plugins[p] = "pending"
      /\ \A row \in Rows : row.name = p => \A s \in row.inject : s \in DOMAIN services
  <2>1. i \in DOMAIN wiring /\ plugins[p] = "pending" /\ Container!Missing(p) = {}
    BY <1>1 DEF Container!Ready, Container!Pending
  <2>2. wiring[i] \in Rows /\ wiring \in Wirings
    BY <2>1 DEF Rows, PluginsInv, PluginTypes
  <2>3. p \in Plugins /\ Container!Row(p) = wiring[i]
    BY <2>2, RowOf
  <2>4. \A row \in Rows : row.name = p => row = wiring[i]
    BY <2>2, <2>3, RowOf
  <2> QED
    BY <2>1, <2>3, <2>4 DEF Container!Missing
<1> HIDE DEF p
<1>3. /\ ServicesOwned' /\ UndoneInOrder' /\ wiring' \in Wirings
      /\ effects' \in [Plugins -> Seq(Effects')] /\ setUp' \in [Plugins -> Seq(Effects')]
      /\ undone' \in [Plugins -> Seq(Effects')]
  BY NothingSetUp
<1>4. effects[p] = <<>>
  BY <1>2 DEF PluginsInv, EffectsStand, Container!Applying
<1>5. todo' \in Seq(Plugins) /\ Distinct(todo') /\ todo' = <<p>>
  BY <1>1, <1>2 DEF Distinct, p
<1>6. PluginTypes'
  BY <1>3, <1>5 DEF PluginsInv, PluginTypes, Named, Rows
<1>7. EffectsStand'
  BY DEF PluginsInv, EffectsStand, Container!Applying
<1>8. \A row \in Rows : row.name = p => \A s \in row.inject : services[s] # p
  BY <1>2, <1>4 DEF PluginsInv, ServicesOwned, InList
<1>9. Starting'
  <2>1. \E q \in Plugins : /\ todo' = <<q>> /\ plugins'[q] = "pending"
                           /\ \A row \in Rows : row.name = q => \A s \in row.inject : s \in DOMAIN services' /\ services'[s] # q
    BY <1>2, <1>5, <1>8 DEF Rows
  <2> QED
    BY <2>1 DEF PluginsInv, Starting, Container!AdvertisedConflict, Rows, InList
<1>10. TakingBack'
  BY DEF TakingBack
<1> QED
  BY <1>3, <1>6, <1>7, <1>9, <1>10 DEF PluginsInv

LEMMA AllActiveKeeps ==
  ASSUME PluginsInv, Container!AllActive PROVE PluginsInv'
<1> USE DEF Container!AllActive
<1>1. /\ ServicesOwned' /\ UndoneInOrder' /\ wiring' \in Wirings
      /\ effects' \in [Plugins -> Seq(Effects')] /\ setUp' \in [Plugins -> Seq(Effects')]
      /\ undone' \in [Plugins -> Seq(Effects')]
  BY NothingSetUp
<1>2. PluginTypes'
  BY <1>1 DEF PluginsInv, PluginTypes, Named, Rows
<1>3. EffectsStand'
  BY DEF PluginsInv, EffectsStand, Container!Applying
<1>4. Starting'
  BY DEF PluginsInv, Starting, Container!AdvertisedConflict, Rows, InList
<1>5. TakingBack'
  BY DEF TakingBack
<1> QED
  BY <1>1, <1>2, <1>3, <1>4, <1>5 DEF PluginsInv

\* What was activated, the last first: each of them finds what it injects further on.
LEMMA ActivatedReversed ==
  ASSUME PluginsInv, using \in {"starting", "applying"}
  PROVE  LET rev == Container!Reverse(activated) IN
         /\ rev \in Seq(Plugins) /\ Distinct(rev)
         /\ \A p \in Plugins : plugins[p] = "active" => InList(p, rev)
         /\ \A i \in DOMAIN rev : /\ plugins[rev[i]] = "active"
                                  /\ \A row \in Rows : row.name = rev[i] => \A s \in row.inject :
                                       /\ s \in DOMAIN services
                                       /\ \E j \in i + 1 .. Len(rev) : rev[j] = services[s]
<1> DEFINE rev == Container!Reverse(activated)
<1>1. /\ activated \in Seq(Plugins) /\ Distinct(activated)
      /\ DOMAIN activated = 1..Len(activated) /\ Len(activated) \in Nat
  BY DEF PluginsInv, PluginTypes
<1>2. /\ rev \in Seq(Plugins) /\ Len(rev) = Len(activated) /\ DOMAIN rev = DOMAIN activated
      /\ \A i \in DOMAIN activated : /\ Len(activated) - i + 1 \in DOMAIN activated
                                     /\ rev[i] = activated[Len(activated) - i + 1]
      /\ Distinct(rev) /\ \A p : InList(p, activated) => InList(p, rev)
  BY <1>1, ReverseOf
<1> HIDE DEF rev
<1>3. \A p \in Plugins : plugins[p] = "active" <=> InList(p, activated)
  BY DEF PluginsInv, Starting
<1>4. \A p \in Plugins : plugins[p] = "active" => InList(p, rev)
  BY <1>2, <1>3
<1>5. ASSUME NEW i \in DOMAIN rev
      PROVE  /\ plugins[rev[i]] = "active"
             /\ \A row \in Rows : row.name = rev[i] => \A s \in row.inject :
                  s \in DOMAIN services /\ \E j \in i + 1 .. Len(rev) : rev[j] = services[s]
  <2> DEFINE m == Len(activated) - i + 1
  <2>1. m \in DOMAIN activated /\ rev[i] = activated[m] /\ rev[i] \in Plugins /\ i \in 1..Len(activated)
    BY <1>1, <1>2, <1>5
  <2>2. plugins[rev[i]] = "active"
    BY <1>3, <2>1 DEF InList
  <2>3. ASSUME NEW row \in Rows, row.name = rev[i], NEW s \in row.inject
        PROVE  s \in DOMAIN services /\ \E j \in i + 1 .. Len(rev) : rev[j] = services[s]
    <3>1. s \in DOMAIN services /\ \E k \in 1..m - 1 : activated[k] = services[s]
      BY <2>1, <2>3 DEF PluginsInv, Starting
    <3>2. PICK k \in 1..m - 1 : activated[k] = services[s]
      BY <3>1
    <3>3. /\ Len(activated) - k + 1 \in i + 1 .. Len(rev) /\ Len(activated) - k + 1 \in DOMAIN activated
          /\ Len(activated) - (Len(activated) - k + 1) + 1 = k
      BY <1>1, <1>2, <2>1
    <3>4. rev[Len(activated) - k + 1] = activated[k]
      BY <1>2, <3>3
    <3> QED
      BY <3>1, <3>2, <3>3, <3>4
  <2> QED
    BY <2>2, <2>3
<1> QED
  BY <1>2, <1>4, <1>5 DEF rev

LEMMA DependencyErrorKeeps ==
  ASSUME PluginsInv, Container!DependencyError PROVE PluginsInv'
<1> USE DEF Container!DependencyError
<1> DEFINE rev == Container!Reverse(activated)
<1>1. /\ ServicesOwned' /\ UndoneInOrder' /\ wiring' \in Wirings
      /\ effects' \in [Plugins -> Seq(Effects')] /\ setUp' \in [Plugins -> Seq(Effects')]
      /\ undone' \in [Plugins -> Seq(Effects')]
  BY NothingSetUp
<1>2. /\ rev \in Seq(Plugins) /\ Distinct(rev)
      /\ \A p \in Plugins : plugins[p] = "active" => InList(p, rev)
      /\ \A i \in DOMAIN rev : \A row \in Rows : row.name = rev[i] => \A s \in row.inject :
           s \in DOMAIN services /\ \E j \in i + 1 .. Len(rev) : rev[j] = services[s]
  BY ActivatedReversed
<1>3. todo' = rev /\ using' = "unwinding"
  OBVIOUS
<1> HIDE DEF rev
<1>4. PluginTypes'
  BY <1>1, <1>2, <1>3 DEF PluginsInv, PluginTypes, Named, Rows
<1>5. EffectsStand'
  BY DEF PluginsInv, EffectsStand, Container!Applying
<1>6. Starting'
  BY DEF Starting
<1>7. TakingBack'
  <2>1. \A p \in Plugins : effects[p] # <<>> => plugins[p] = "active"
    BY DEF PluginsInv, PluginTypes, EffectsStand, Starting, Container!Applying
  <2> QED
    BY <1>2, <1>3, <2>1 DEF TakingBack, InList, Rows
<1> QED
  BY <1>1, <1>4, <1>5, <1>6, <1>7 DEF PluginsInv
-----------------------------------------------------------------------------
\* One more effect of the plugin that is applied.
LEMMA Adopts ==
  ASSUME PluginsInv, NEW p \in Plugins, Container!Applying(p), NEW e \in Effects,
         Container!Adopt(p, e), UNCHANGED <<wiring, undone>>
  PROVE  /\ UndoneInOrder' /\ wiring' \in Wirings
         /\ effects' \in [Plugins -> Seq(Effects')] /\ setUp' \in [Plugins -> Seq(Effects')]
         /\ undone' \in [Plugins -> Seq(Effects')]
         /\ \A q \in Plugins \ {p} : effects'[q] = effects[q]
         /\ \A q \in Plugins : \A s : InList(s, effects[q]) => InList(s, effects'[q])
         /\ InList(e, effects'[p]) /\ undone[p] = <<>>
<1>1. /\ effects \in [Plugins -> Seq(Effects)] /\ setUp \in [Plugins -> Seq(Effects)]
      /\ undone \in [Plugins -> Seq(Effects)] /\ wiring \in Wirings
  BY DEF PluginsInv, PluginTypes
<1>2. Effects' = Effects
  BY DEF Effects
<1>3. /\ effects' = [effects EXCEPT ![p] = Append(@, e)]
      /\ setUp' = [setUp EXCEPT ![p] = Append(@, e)]
  BY DEF Container!Adopt
<1>4. /\ effects' \in [Plugins -> Seq(Effects)] /\ effects'[p] = Append(effects[p], e)
      /\ \A q \in Plugins \ {p} : effects'[q] = effects[q]
  BY <1>1, <1>3
<1>5. /\ setUp' \in [Plugins -> Seq(Effects)] /\ setUp'[p] = Append(setUp[p], e)
      /\ \A q \in Plugins \ {p} : setUp'[q] = setUp[q]
  BY <1>1, <1>3
<1>6. plugins[p] = "pending" /\ undone[p] = <<>>
  BY DEF PluginsInv, Starting, EffectsStand, Container!Applying
<1>7. /\ Len(setUp[p]) = Len(effects[p])
      /\ \A i \in DOMAIN effects[p] : setUp[p][i] = effects[p][i]
  BY <1>1, <1>6 DEF PluginsInv, UndoneInOrder
<1>8. /\ Len(setUp'[p]) = Len(effects'[p]) /\ Len(effects'[p]) \in Nat
      /\ \A i \in DOMAIN effects'[p] : setUp'[p][i] = effects'[p][i]
  BY <1>1, <1>4, <1>5, <1>7
<1>9. UndoneInOrder'
  <2> SUFFICES ASSUME NEW q \in Plugins
               PROVE  /\ Len(setUp'[q]) = Len(effects'[q]) + Len(undone'[q])
                      /\ \A i \in DOMAIN effects'[q] : setUp'[q][i] = effects'[q][i]
                      /\ \A i \in DOMAIN undone'[q] : setUp'[q][Len(setUp'[q]) - i + 1] = undone'[q][i]
    BY DEF UndoneInOrder
  <2>1. CASE q = p
    <3>1. undone'[q] = <<>>
      BY <1>6, <2>1
    <3>2. DOMAIN undone'[q] = {} /\ Len(undone'[q]) = 0
      BY <3>1
    <3> QED
      BY <1>8, <2>1, <3>2
  <2>2. CASE q # p
    <3>1. effects'[q] = effects[q] /\ setUp'[q] = setUp[q] /\ undone'[q] = undone[q]
      BY <1>4, <1>5, <2>2
    <3> QED
      BY <3>1 DEF PluginsInv, UndoneInOrder
  <2> QED
    BY <2>1, <2>2
<1>10. InList(e, effects'[p]) /\ \A s : InList(s, effects[p]) => InList(s, effects'[p])
  <2>1. /\ Len(effects[p]) + 1 \in DOMAIN effects'[p] /\ effects'[p][Len(effects[p]) + 1] = e
        /\ \A i \in DOMAIN effects[p] : i \in DOMAIN effects'[p] /\ effects'[p][i] = effects[p][i]
    BY <1>1, <1>4
  <2> QED
    BY <2>1 DEF InList
<1>11. \A q \in Plugins : \A s : InList(s, effects[q]) => InList(s, effects'[q])
  BY <1>4, <1>10
<1> QED
  BY <1>1, <1>2, <1>4, <1>5, <1>6, <1>9, <1>10, <1>11

LEMMA ProvidesKeep ==
  ASSUME PluginsInv, NEW p \in Plugins, Named(p), NEW s, Container!Provide(p, s)
  PROVE  PluginsInv'
<1> USE DEF Container!Provide
<1>1. Container!Applying(p) /\ plugins[p] = "pending" /\ using = "applying" /\ todo = <<p>>
  BY DEF PluginsInv, Starting, Container!Applying
<1>0. PICK r \in Rows : r.name = p /\ s \in r.provide
  BY RowOf DEF Named, PluginsInv, PluginTypes
<1>2. s \in Effects
  BY <1>0 DEF Effects, Rows
<1>3. /\ UndoneInOrder' /\ wiring' \in Wirings
      /\ effects' \in [Plugins -> Seq(Effects')] /\ setUp' \in [Plugins -> Seq(Effects')]
      /\ undone' \in [Plugins -> Seq(Effects')]
      /\ \A q \in Plugins \ {p} : effects'[q] = effects[q]
      /\ \A q \in Plugins : \A t : InList(t, effects[q]) => InList(t, effects'[q])
      /\ InList(s, effects'[p]) /\ undone[p] = <<>>
  BY <1>1, <1>2, Adopts
<1>4. /\ services' = [t \in DOMAIN services' |-> services'[t]]
      /\ s \notin DOMAIN services /\ DOMAIN services' = DOMAIN services \cup {s} /\ services'[s] = p
      /\ \A t \in DOMAIN services : services'[t] = services[t]
  OBVIOUS
<1>5. PluginTypes'
  BY <1>3 DEF PluginsInv, PluginTypes, Named, Rows
<1>6. ServicesOwned'
  <2>1. Rows' = Rows
    BY DEF Rows
  <2> SUFFICES ASSUME NEW t \in DOMAIN services'
               PROVE  /\ services'[t] \in Plugins /\ InList(t, effects'[services'[t]])
                      /\ \E row \in Rows : row.name = services'[t] /\ t \in row.provide
    BY <1>4, <2>1 DEF ServicesOwned, InList
  <2>2. CASE t = s
    BY <1>0, <1>3, <1>4, <2>2
  <2>3. CASE t # s
    <3>1. t \in DOMAIN services /\ services'[t] = services[t]
      BY <1>4, <2>3
    <3> QED
      BY <1>3, <3>1 DEF PluginsInv, ServicesOwned
  <2> QED
    BY <2>2, <2>3
<1>7. EffectsStand'
  BY <1>1, <1>3 DEF PluginsInv, PluginTypes, EffectsStand, Container!Applying
<1>8. Starting'
  <2>1. Rows' = Rows
    BY DEF Rows
  <2>2. \A row \in Rows : row.name = p => \A t \in row.inject : t \in DOMAIN services' /\ services'[t] # p
    BY <1>1, <1>4 DEF PluginsInv, Starting
  <2>3. \A i \in DOMAIN activated : \A row \in Rows : row.name = activated[i] => \A t \in row.inject :
          t \in DOMAIN services' /\ \E j \in 1..i - 1 : activated[j] = services'[t]
    BY <1>1, <1>4 DEF PluginsInv, Starting
  <2>4. /\ \A q \in Plugins : plugins'[q] # "disposed" /\ (plugins'[q] = "active" <=> InList(q, activated)')
        /\ ~ Container!AdvertisedConflict'
    BY <1>1 DEF PluginsInv, Starting, Container!AdvertisedConflict, InList
  <2>5. /\ using' = "applying" /\ todo' = <<p>> /\ plugins'[p] = "pending" /\ activated' = activated
    BY <1>1
  <2>6. \E q \in Plugins : /\ todo' = <<q>> /\ plugins'[q] = "pending"
                           /\ \A row \in Rows' : row.name = q =>
                                \A t \in row.inject : t \in DOMAIN services' /\ services'[t] # q
    BY <2>1, <2>2, <2>5
  <2>7. \A i \in DOMAIN activated' : \A row \in Rows' : row.name = activated'[i] => \A t \in row.inject :
          t \in DOMAIN services' /\ \E j \in 1..i - 1 : activated'[j] = services'[t]
    BY <2>1, <2>3, <2>5
  <2> QED
    BY <2>4, <2>5, <2>6, <2>7 DEF Starting
<1>9. TakingBack'
  BY <1>1 DEF TakingBack
<1> QED
  BY <1>3, <1>5, <1>6, <1>7, <1>8, <1>9 DEF PluginsInv

LEMMA ListensKeep ==
  ASSUME PluginsInv, NEW p \in Plugins, Named(p), Container!Listen(p) PROVE PluginsInv'
<1> USE DEF Container!Listen
<1>1. Container!Applying(p) /\ plugins[p] = "pending" /\ using = "applying" /\ todo = <<p>>
  BY DEF PluginsInv, Starting, Container!Applying
<1>2. /\ UndoneInOrder' /\ wiring' \in Wirings
      /\ effects' \in [Plugins -> Seq(Effects')] /\ setUp' \in [Plugins -> Seq(Effects')]
      /\ undone' \in [Plugins -> Seq(Effects')]
      /\ \A q \in Plugins \ {p} : effects'[q] = effects[q]
      /\ \A q \in Plugins : \A t : InList(t, effects[q]) => InList(t, effects'[q])
  <2>1. "listener" \in Effects
    BY DEF Effects
  <2> QED
    BY <1>1, <2>1, Adopts
<1>3. PluginTypes'
  BY <1>2 DEF PluginsInv, PluginTypes, Named, Rows
<1>4. ServicesOwned'
  BY <1>2 DEF PluginsInv, ServicesOwned, Rows
<1>5. EffectsStand'
  BY <1>1, <1>2 DEF PluginsInv, PluginTypes, EffectsStand, Container!Applying
<1>6. Starting'
  BY DEF PluginsInv, Starting, Rows, Container!AdvertisedConflict, InList
<1>7. TakingBack'
  BY <1>1 DEF TakingBack
<1> QED
  BY <1>2, <1>3, <1>4, <1>5, <1>6, <1>7 DEF PluginsInv

LEMMA ApplyFailsKeeps ==
  ASSUME PluginsInv, NEW p \in Plugins, Named(p), Container!ApplyFails(p) PROVE PluginsInv'
<1> DEFINE rev == Container!Reverse(activated)
           list == <<p>> \o rev
<1>1. /\ Container!Applying(p) /\ plugins[p] = "pending" /\ using = "applying" /\ todo = <<p>>
      /\ \A q \in Plugins : plugins[q] # "disposed"
  BY DEF PluginsInv, Starting, Container!Applying, Container!ApplyFails
<1>2. /\ rev \in Seq(Plugins) /\ Distinct(rev)
      /\ \A q \in Plugins : plugins[q] = "active" => InList(q, rev)
      /\ \A i \in DOMAIN rev :
           /\ plugins[rev[i]] = "active"
           /\ \A row \in Rows : row.name = rev[i] => \A s \in row.inject :
                s \in DOMAIN services /\ \E j \in i + 1 .. Len(rev) : rev[j] = services[s]
  BY <1>1, ActivatedReversed
<1>3. /\ todo' = list /\ using' = "unwinding" /\ plugins' = [plugins EXCEPT ![p] = "disposed"]
      /\ UNCHANGED <<wiring, services, effects, activated, undone, setUp>>
  BY DEF Container!ApplyFails
<1> HIDE DEF rev
<1>4. /\ list \in Seq(Plugins) /\ Len(list) = Len(rev) + 1 /\ list[1] = p
      /\ DOMAIN rev = 1..Len(rev) /\ Len(rev) \in Nat /\ DOMAIN list = 1..Len(rev) + 1
      /\ \A i \in 1..Len(rev) : i + 1 \in DOMAIN list /\ list[i + 1] = rev[i]
      /\ \A i \in DOMAIN list : i # 1 => i - 1 \in 1..Len(rev) /\ list[i] = rev[i - 1]
  BY <1>2
<1> HIDE DEF list
<1>5. Distinct(list)
  <2>1. \A i \in DOMAIN list : i # 1 => list[i] # p
    BY <1>1, <1>2, <1>4
  <2>2. ASSUME NEW i \in DOMAIN list, NEW j \in DOMAIN list, list[i] = list[j], i # 1, j # 1 PROVE i = j
    <3>1. i - 1 \in DOMAIN rev /\ j - 1 \in DOMAIN rev /\ rev[i - 1] = rev[j - 1] /\ i \in Nat /\ j \in Nat
      BY <1>4, <2>2
    <3>2. i - 1 = j - 1
      BY <1>2, <3>1 DEF Distinct
    <3> QED
      BY <3>1, <3>2
  <2> QED
    BY <1>4, <2>1, <2>2 DEF Distinct
<1>6. /\ plugins' \in [Plugins -> {"absent", "pending", "active", "disposed"}]
      /\ plugins'[p] = "disposed" /\ \A q \in Plugins \ {p} : plugins'[q] = plugins[q]
  BY <1>3 DEF PluginsInv, PluginTypes
<1>7. /\ ServicesOwned' /\ UndoneInOrder' /\ wiring' \in Wirings
      /\ effects' \in [Plugins -> Seq(Effects')] /\ setUp' \in [Plugins -> Seq(Effects')]
      /\ undone' \in [Plugins -> Seq(Effects')]
  BY <1>3, NothingSetUp
<1>8. PluginTypes'
  <2>0. \A q : Named(q)' <=> Named(q)
    BY <1>3 DEF Named, Rows
  <2>1. \A q \in Plugins : plugins'[q] # "absent" => Named(q)'
    BY <1>1, <1>6, <2>0 DEF PluginsInv, PluginTypes
  <2> QED
    BY <1>3, <1>4, <1>5, <1>6, <1>7, <2>1 DEF PluginsInv, PluginTypes
<1>9. EffectsStand'
  <2>1. \A q \in Plugins \ {p} : plugins[q] = "pending" => effects[q] = <<>>
    BY <1>1 DEF PluginsInv, EffectsStand, Container!Applying
  <2> QED
    BY <1>3, <1>6, <2>1 DEF PluginsInv, EffectsStand
<1>10. Starting'
  BY <1>3 DEF Starting
<1>11. TakingBack'
  <2>1. \A q \in Plugins : effects[q] # <<>> => plugins[q] = "active" \/ q = p
    BY <1>1 DEF PluginsInv, PluginTypes, EffectsStand, Container!Applying
  <2>2. \A q \in Plugins : plugins[q] = "active" \/ q = p => InList(q, list)
    <3>1. \A q : InList(q, rev) => InList(q, list)
      BY <1>4 DEF InList
    <3>2. InList(p, list)
      BY <1>4 DEF InList
    <3> QED
      BY <1>2, <3>1, <3>2
  <2>3. \A i \in DOMAIN list : plugins'[list[i]] = "active" =>
          \A row \in Rows : row.name = list[i] => \A s \in row.inject :
            s \in DOMAIN services /\ \E j \in i + 1 .. Len(list) : list[j] = services[s]
    <3> SUFFICES ASSUME NEW i \in DOMAIN list, plugins'[list[i]] = "active",
                        NEW row \in Rows, row.name = list[i], NEW s \in row.inject
                 PROVE  s \in DOMAIN services /\ \E j \in i + 1 .. Len(list) : list[j] = services[s]
      OBVIOUS
    <3>1. i # 1 /\ i - 1 \in DOMAIN rev /\ list[i] = rev[i - 1] /\ i \in Nat
      BY <1>4, <1>6
    <3>2. s \in DOMAIN services /\ \E k \in (i - 1) + 1 .. Len(rev) : rev[k] = services[s]
      BY <1>2, <3>1
    <3>3. PICK k \in (i - 1) + 1 .. Len(rev) : rev[k] = services[s]
      BY <3>2
    <3>4. k + 1 \in i + 1 .. Len(list) /\ list[k + 1] = services[s]
      BY <1>4, <3>1, <3>3
    <3> QED
      BY <3>2, <3>4
  <2>4. \A q \in Plugins : plugins'[q] = "active" => plugins[q] = "active"
    BY <1>6
  <2>5. \A q \in Plugins : effects'[q] # <<>> \/ plugins'[q] = "active" => InList(q, todo')
    BY <1>3, <2>1, <2>2, <2>4
  <2> QED
    BY <1>3, <2>3, <2>5 DEF TakingBack, Rows, InList
<1> QED
  BY <1>7, <1>8, <1>9, <1>10, <1>11 DEF PluginsInv
LEMMA ApplyReturnsKeeps ==
  ASSUME PluginsInv, NEW p \in Plugins, Named(p), NEW cleanup \in BOOLEAN, Container!ApplyReturns(p, cleanup)
  PROVE  PluginsInv'
<1>1. /\ Container!Applying(p) /\ plugins[p] = "pending" /\ using = "applying" /\ todo = <<p>>
      /\ \A q \in Plugins : plugins[q] # "disposed" /\ (plugins[q] = "active" <=> InList(q, activated))
      /\ undone[p] = <<>>
  BY DEF PluginsInv, Starting, EffectsStand, Container!Applying, Container!ApplyReturns
<1>2. /\ plugins' = [plugins EXCEPT ![p] = "active"] /\ activated' = Append(activated, p)
      /\ using' = "starting" /\ todo' = <<>> /\ UNCHANGED <<wiring, services, undone>>
      /\ Container!Adopt(p, "cleanup") \/ UNCHANGED <<effects, setUp>>
  BY DEF Container!ApplyReturns
<1>3. /\ UndoneInOrder' /\ wiring' \in Wirings
      /\ effects' \in [Plugins -> Seq(Effects')] /\ setUp' \in [Plugins -> Seq(Effects')]
      /\ undone' \in [Plugins -> Seq(Effects')]
      /\ \A q \in Plugins \ {p} : effects'[q] = effects[q]
      /\ \A q \in Plugins : \A t : InList(t, effects[q]) => InList(t, effects'[q])
  <2>1. CASE Container!Adopt(p, "cleanup")
    <3>1. "cleanup" \in Effects
      BY DEF Effects
    <3> QED
      BY <1>1, <1>2, <2>1, <3>1, Adopts
  <2>2. CASE UNCHANGED <<effects, setUp>>
    BY <1>2, <2>2, NothingSetUp
  <2> QED
    BY <1>2, <2>1, <2>2
<1>4. /\ plugins' \in [Plugins -> {"absent", "pending", "active", "disposed"}]
      /\ plugins'[p] = "active" /\ \A q \in Plugins \ {p} : plugins'[q] = plugins[q]
  BY <1>2 DEF PluginsInv, PluginTypes
<1>5. /\ activated \in Seq(Plugins) /\ Distinct(activated) /\ ~ InList(p, activated)
  BY <1>1 DEF PluginsInv, PluginTypes
<1>6. /\ activated' \in Seq(Plugins) /\ Len(activated') = Len(activated) + 1 /\ Len(activated) \in Nat
      /\ DOMAIN activated = 1..Len(activated) /\ DOMAIN activated' = 1..Len(activated) + 1
      /\ activated'[Len(activated) + 1] = p
      /\ \A i \in DOMAIN activated : i \in DOMAIN activated' /\ activated'[i] = activated[i]
  BY <1>2, <1>5
<1>7. Distinct(activated')
  <2>1. \A i \in DOMAIN activated' : i \in DOMAIN activated \/ i = Len(activated) + 1
    BY <1>6
  <2> QED
    BY <1>5, <1>6, <2>1 DEF Distinct, InList
<1>8. \A q \in Plugins : InList(q, activated') <=> InList(q, activated) \/ q = p
  <2>1. \A i \in DOMAIN activated' : i \in DOMAIN activated \/ i = Len(activated) + 1
    BY <1>6
  <2>2. Len(activated) + 1 \in DOMAIN activated'
    BY <1>6
  <2> QED
    BY <1>6, <2>1, <2>2 DEF InList
<1>9. PluginTypes'
  <2>0. \A q : Named(q)' <=> Named(q)
    BY <1>2 DEF Named, Rows
  <2>1. \A q \in Plugins : plugins'[q] # "absent" => Named(q)'
    BY <1>1, <1>4, <2>0 DEF PluginsInv, PluginTypes
  <2>2. todo' \in Seq(Plugins) /\ Distinct(todo')
    BY <1>2 DEF Distinct
  <2> QED
    BY <1>2, <1>3, <1>4, <1>6, <1>7, <2>1, <2>2 DEF PluginTypes
<1>10. ServicesOwned'
  BY <1>2, <1>3 DEF PluginsInv, ServicesOwned, Rows
<1>11. EffectsStand'
  BY <1>1, <1>2, <1>3, <1>4 DEF PluginsInv, PluginTypes, EffectsStand, Container!Applying
<1>12. Starting'
  <2>1. Rows' = Rows
    BY <1>2 DEF Rows
  <2>2. \A q \in Plugins : plugins'[q] # "disposed" /\ (plugins'[q] = "active" <=> InList(q, activated'))
    BY <1>1, <1>4, <1>8
  <2>3. \A row \in Rows : row.name = p => \A t \in row.inject :
          t \in DOMAIN services /\ \E j \in DOMAIN activated : activated[j] = services[t]
    <3> SUFFICES ASSUME NEW row \in Rows, row.name = p, NEW t \in row.inject
                 PROVE  t \in DOMAIN services /\ \E j \in DOMAIN activated : activated[j] = services[t]
      OBVIOUS
    <3>1. t \in DOMAIN services /\ services[t] # p
      BY <1>1 DEF PluginsInv, Starting
    <3>2. services[t] \in Plugins /\ InList(t, effects[services[t]])
      BY <3>1 DEF PluginsInv, ServicesOwned
    <3>3. effects[services[t]] # <<>>
      BY <3>2 DEF InList
    <3>4. plugins[services[t]] = "active"
      BY <1>1, <3>1, <3>2, <3>3 DEF PluginsInv, PluginTypes, EffectsStand, Container!Applying
    <3> QED
      BY <1>1, <3>1, <3>2, <3>4 DEF InList
  <2>4. \A i \in DOMAIN activated' : \A row \in Rows' : row.name = activated'[i] => \A t \in row.inject :
          t \in DOMAIN services' /\ \E j \in 1..i - 1 : activated'[j] = services'[t]
    <3> SUFFICES ASSUME NEW i \in DOMAIN activated', NEW row \in Rows, row.name = activated'[i], NEW t \in row.inject
                 PROVE  t \in DOMAIN services /\ \E j \in 1..i - 1 : activated'[j] = services[t]
      BY <1>2, <2>1
    <3>1. CASE i \in DOMAIN activated
      <4>1. row.name = activated[i]
        BY <1>6, <3>1
      <4>2. t \in DOMAIN services /\ \E j \in 1..i - 1 : activated[j] = services[t]
        BY <1>1, <3>1, <4>1 DEF PluginsInv, Starting
      <4>3. \A j \in 1..i - 1 : activated'[j] = activated[j]
        BY <1>6, <3>1
      <4> QED
        BY <4>2, <4>3
    <3>2. CASE i = Len(activated) + 1
      <4>1. t \in DOMAIN services /\ \E j \in DOMAIN activated : activated[j] = services[t]
        BY <1>6, <2>3, <3>2
      <4>2. \A j \in DOMAIN activated : j \in 1..i - 1
        BY <1>6, <3>2
      <4> QED
        BY <1>6, <4>1, <4>2
    <3> QED
      BY <1>6, <3>1, <3>2
  <2>5. ~ Container!AdvertisedConflict'
    BY <1>1, <1>2 DEF PluginsInv, Starting, Container!AdvertisedConflict
  <2> QED
    BY <1>2, <2>2, <2>4, <2>5 DEF Starting, InList
<1>13. TakingBack'
  BY <1>2 DEF TakingBack
<1> QED
  BY <1>3, <1>9, <1>10, <1>11, <1>12, <1>13 DEF PluginsInv

-----------------------------------------------------------------------------
LEMMA MarksKeep ==
  ASSUME PluginsInv, NEW p \in Plugins, Container!Mark(p) PROVE PluginsInv'
<1> USE DEF Container!Mark
<1>1. /\ using \in {"unwinding", "disposing"} /\ plugins[p] \in {"pending", "active"}
  BY DEF Container!Undoing
<1>2. /\ plugins' \in [Plugins -> {"absent", "pending", "active", "disposed"}]
      /\ plugins'[p] = "disposed" /\ \A q \in Plugins \ {p} : plugins'[q] = plugins[q]
  BY DEF PluginsInv, PluginTypes
<1>3. /\ ServicesOwned' /\ UndoneInOrder' /\ wiring' \in Wirings
      /\ effects' \in [Plugins -> Seq(Effects')] /\ setUp' \in [Plugins -> Seq(Effects')]
      /\ undone' \in [Plugins -> Seq(Effects')]
  BY NothingSetUp
<1>4. PluginTypes'
  <2>0. \A q : Named(q)' <=> Named(q)
    BY DEF Named, Rows
  <2>1. \A q \in Plugins : plugins'[q] # "absent" => Named(q)'
    BY <1>1, <1>2, <2>0 DEF PluginsInv, PluginTypes
  <2> QED
    BY <1>2, <1>3, <2>1 DEF PluginsInv, PluginTypes
<1>5. EffectsStand'
  BY <1>1, <1>2 DEF PluginsInv, PluginTypes, EffectsStand, Container!Applying
<1>6. Starting'
  BY <1>1 DEF Starting
<1>7. TakingBack'
  <2>1. \A q \in Plugins : plugins'[q] = "active" => plugins[q] = "active"
    BY <1>2
  <2>2. \A i \in DOMAIN todo : todo[i] \in Plugins
    BY DEF PluginsInv, PluginTypes
  <2>3. Rows' = Rows /\ (Container!InOrder' <=> Container!InOrder)
    BY DEF Rows, Container!InOrder
  <2> QED
    BY <1>1, <2>1, <2>2, <2>3 DEF PluginsInv, TakingBack, InList
<1> QED
  BY <1>3, <1>4, <1>5, <1>6, <1>7 DEF PluginsInv

LEMMA UndoesKeep ==
  ASSUME PluginsInv, NEW p \in Plugins, Container!UndoLast(p) PROVE PluginsInv'
<1> USE DEF Container!UndoLast
<1> DEFINE e == effects[p][Len(effects[p])]
           m == Len(effects[p])
<1>1. /\ using \in {"unwinding", "disposing"} /\ plugins[p] = "disposed" /\ effects[p] # <<>>
      /\ todo # <<>> /\ Head(todo) = p
  BY DEF Container!Undoing
<1>2. /\ effects \in [Plugins -> Seq(Effects)] /\ setUp \in [Plugins -> Seq(Effects)]
      /\ undone \in [Plugins -> Seq(Effects)] /\ wiring \in Wirings
  BY DEF PluginsInv, PluginTypes
<1>3. /\ effects[p] \in Seq(Effects) /\ m \in Nat \ {0} /\ DOMAIN effects[p] = 1..m /\ e \in Effects
  BY <1>1, <1>2
<1>4. Effects' = Effects /\ Rows' = Rows
  BY DEF Effects, Rows
<1>5. /\ effects' \in [Plugins -> Seq(Effects)] /\ Len(effects'[p]) = m - 1
      /\ DOMAIN effects'[p] = 1..m - 1
      /\ \A i \in 1..m - 1 : effects'[p][i] = effects[p][i]
      /\ \A q \in Plugins \ {p} : effects'[q] = effects[q]
  <2>1. effects' = [effects EXCEPT ![p] = SubSeq(@, 1, Len(@) - 1)]
    BY DEF Container!Front
  <2>2. /\ SubSeq(effects[p], 1, m - 1) \in Seq(Effects) /\ Len(SubSeq(effects[p], 1, m - 1)) = m - 1
        /\ DOMAIN SubSeq(effects[p], 1, m - 1) = 1..m - 1
        /\ \A i \in 1..m - 1 : SubSeq(effects[p], 1, m - 1)[i] = effects[p][i]
    BY <1>3
  <2> QED
    BY <1>2, <2>1, <2>2
<1>6. /\ undone' \in [Plugins -> Seq(Effects)] /\ undone'[p] = Append(undone[p], e)
      /\ \A q \in Plugins \ {p} : undone'[q] = undone[q]
  <2>1. undone' = [undone EXCEPT ![p] = Append(@, e)]
    BY DEF Container!Last
  <2> QED
    BY <1>2, <1>3, <2>1
<1>7. /\ DOMAIN services' \subseteq DOMAIN services
      /\ \A t \in DOMAIN services' : services'[t] = services[t]
      /\ \A t \in DOMAIN services : services[t] # p => t \in DOMAIN services'
      /\ e \in DOMAIN services' => services[e] # p
      /\ services' = [t \in DOMAIN services' |-> services'[t]]
  <2>1. services' = Container!Unregistered(p, e) /\ services = [t \in DOMAIN services |-> services[t]]
    BY DEF Container!Last, PluginsInv, ServicesOwned
  <2> HIDE DEF e
  <2>2. CASE e \in DOMAIN services /\ services[e] = p
    <3>1. services' = [t \in DOMAIN services \ {e} |-> services[t]]
      BY <2>1, <2>2 DEF Container!Unregistered
    <3> QED
      BY <2>2, <3>1
  <2>3. CASE ~ (e \in DOMAIN services /\ services[e] = p)
    <3>1. services' = services
      BY <2>1, <2>3 DEF Container!Unregistered
    <3> QED
      BY <2>1, <2>3, <3>1
  <2> QED
    BY <2>2, <2>3
<1> HIDE DEF e, m
<1>8. PluginTypes'
  <2>0. \A q : Named(q)' <=> Named(q)
    BY <1>4 DEF Named
  <2> QED
    BY <1>2, <1>4, <1>5, <1>6, <2>0 DEF PluginsInv, PluginTypes
<1>9. ServicesOwned'
  <2> SUFFICES ASSUME NEW t \in DOMAIN services'
               PROVE  /\ services'[t] \in Plugins /\ InList(t, effects'[services'[t]])
                      /\ \E row \in Rows : row.name = services'[t] /\ t \in row.provide
    BY <1>4, <1>7 DEF ServicesOwned, InList
  <2>1. /\ t \in DOMAIN services /\ services'[t] = services[t] /\ services[t] \in Plugins
        /\ InList(t, effects[services[t]]) /\ \E row \in Rows : row.name = services[t] /\ t \in row.provide
    BY <1>7 DEF PluginsInv, ServicesOwned
  <2>2. CASE services[t] # p
    BY <1>5, <2>1, <2>2
  <2>3. CASE services[t] = p
    <3>1. t # e
      BY <1>7, <2>1, <2>3
    <3>2. PICK i \in 1..m : effects[p][i] = t
      BY <1>3, <2>1, <2>3 DEF InList
    <3>3. i # m
      BY <3>1, <3>2 DEF e, m
    <3>4. i \in DOMAIN effects'[p] /\ effects'[p][i] = t
      BY <1>3, <1>5, <3>2, <3>3
    <3> QED
      BY <2>1, <2>3, <3>4 DEF InList
  <2> QED
    BY <2>2, <2>3
<1>10. UndoneInOrder'
  <2> SUFFICES ASSUME NEW q \in Plugins
               PROVE  /\ Len(setUp[q]) = Len(effects'[q]) + Len(undone'[q])
                      /\ \A i \in DOMAIN effects'[q] : setUp[q][i] = effects'[q][i]
                      /\ \A i \in DOMAIN undone'[q] : setUp[q][Len(setUp[q]) - i + 1] = undone'[q][i]
    BY DEF UndoneInOrder
  <2>1. CASE q # p
    <3>1. effects'[q] = effects[q] /\ undone'[q] = undone[q]
      BY <1>5, <1>6, <2>1
    <3>2. /\ Len(setUp[q]) = Len(effects[q]) + Len(undone[q])
          /\ \A i \in DOMAIN effects[q] : setUp[q][i] = effects[q][i]
          /\ \A i \in DOMAIN undone[q] : setUp[q][Len(setUp[q]) - i + 1] = undone[q][i]
      BY DEF PluginsInv, UndoneInOrder
    <3> QED
      BY <3>1, <3>2
  <2>2. CASE q = p
    <3> DEFINE n == Len(undone[p])
    <3>1. /\ Len(setUp[p]) = m + n /\ n \in Nat /\ DOMAIN undone[p] = 1..n
          /\ \A i \in 1..m : setUp[p][i] = effects[p][i]
          /\ \A i \in 1..n : setUp[p][(m + n) - i + 1] = undone[p][i]
      BY <1>2, <1>3 DEF PluginsInv, UndoneInOrder, m
    <3>2. /\ Len(undone'[p]) = n + 1 /\ DOMAIN undone'[p] = 1..n + 1
          /\ \A i \in 1..n : undone'[p][i] = undone[p][i]
          /\ undone'[p][n + 1] = e
      BY <1>2, <1>3, <1>6
    <3> HIDE DEF n
    <3>3. (m + n) - (n + 1) + 1 = m /\ m \in 1..m /\ effects[p][m] = e
      BY <1>3, <3>1 DEF e, m
    <3>4. \A i \in 1..n + 1 : setUp[p][(m + n) - i + 1] = undone'[p][i]
      <4>1. \A i \in 1..n + 1 : i \in 1..n \/ i = n + 1
        BY <3>1
      <4>2. setUp[p][(m + n) - (n + 1) + 1] = undone'[p][n + 1]
        BY <3>1, <3>2, <3>3
      <4> QED
        BY <3>1, <3>2, <4>1, <4>2
    <3>5. \A i \in 1..m - 1 : setUp[p][i] = effects'[p][i]
      BY <1>3, <1>5, <3>1
    <3>6. Len(setUp[p]) = Len(effects'[p]) + Len(undone'[p])
      <4>1. m \in Nat /\ n \in Nat /\ m + n = (m - 1) + (n + 1)
        BY <1>3, <3>1
      <4>2. Len(setUp[p]) = m + n /\ Len(effects'[p]) = m - 1 /\ Len(undone'[p]) = n + 1
        BY <1>5, <3>1, <3>2
      <4> QED
        BY <4>1, <4>2
    <3>7. \A i \in DOMAIN undone'[p] : setUp[p][Len(setUp[p]) - i + 1] = undone'[p][i]
      BY <3>1, <3>2, <3>4
    <3> QED
      BY <1>5, <2>2, <3>5, <3>6, <3>7
  <2> QED
    BY <2>1, <2>2
<1>11. EffectsStand'
  BY <1>1, <1>5, <1>6 DEF PluginsInv, EffectsStand, Container!Applying
<1>12. Starting'
  BY <1>1 DEF Starting
<1>13. TakingBack'
  <2>1. \A q \in Plugins : effects'[q] # <<>> => effects[q] # <<>>
    BY <1>1, <1>5
  <2>2. \A q \in Plugins : effects'[q] # <<>> \/ plugins[q] = "active" => InList(q, todo)
    BY <1>1, <2>1 DEF PluginsInv, TakingBack
  <2>3. ASSUME using = "unwinding" \/ Container!InOrder, NEW i \in DOMAIN todo, plugins[todo[i]] = "active",
               NEW row \in Rows, row.name = todo[i], NEW s \in row.inject
        PROVE  s \in DOMAIN services' /\ \E j \in i + 1 .. Len(todo) : todo[j] = services'[s]
    <3>1. s \in DOMAIN services /\ \E j \in i + 1 .. Len(todo) : todo[j] = services[s]
      BY <1>1, <2>3 DEF PluginsInv, TakingBack
    <3>2. PICK j \in i + 1 .. Len(todo) : todo[j] = services[s]
      BY <3>1
    <3>3. /\ todo \in Seq(Plugins) /\ Distinct(todo) /\ DOMAIN todo = 1..Len(todo) /\ Len(todo) \in Nat
          /\ Head(todo) = todo[1]
      BY <1>1 DEF PluginsInv, PluginTypes
    <3>4. j # 1 /\ j \in DOMAIN todo /\ 1 \in DOMAIN todo
      BY <3>2, <3>3
    <3>5. services[s] # p
      BY <1>1, <3>2, <3>3, <3>4 DEF Distinct
    <3> QED
      BY <1>7, <3>1, <3>5
  <2>4. Container!InOrder' <=> Container!InOrder
    BY DEF Container!InOrder
  <2> QED
    BY <1>1, <1>4, <2>2, <2>3, <2>4 DEF TakingBack, InList
<1> QED
  BY <1>8, <1>9, <1>10, <1>11, <1>12, <1>13 DEF PluginsInv

LEMMA UndoneKeeps ==
  ASSUME PluginsInv, NEW p \in Plugins, Container!Undone(p) PROVE PluginsInv'
<1> USE DEF Container!Undone
<1>1. /\ using \in {"unwinding", "disposing"} /\ plugins[p] = "disposed" /\ effects[p] = <<>>
      /\ todo # <<>> /\ Head(todo) = p /\ todo' = Tail(todo)
  BY DEF Container!Undoing
<1>2. todo \in Seq(Plugins) /\ Distinct(todo)
  BY DEF PluginsInv, PluginTypes
<1>3. /\ todo' \in Seq(Plugins) /\ Len(todo') = Len(todo) - 1 /\ Distinct(todo')
      /\ \A i \in DOMAIN todo' : i + 1 \in DOMAIN todo /\ todo'[i] = todo[i + 1]
      /\ \A q : InList(q, todo) /\ q # p => InList(q, todo')
  BY <1>1, <1>2, TailOf
<1>4. /\ ServicesOwned' /\ UndoneInOrder' /\ wiring' \in Wirings
      /\ effects' \in [Plugins -> Seq(Effects')] /\ setUp' \in [Plugins -> Seq(Effects')]
      /\ undone' \in [Plugins -> Seq(Effects')]
  BY NothingSetUp
<1>5. PluginTypes'
  BY <1>3, <1>4 DEF PluginsInv, PluginTypes, Named, Rows
<1>6. EffectsStand'
  BY <1>1 DEF PluginsInv, EffectsStand, Container!Applying
<1>7. Starting'
  BY <1>1 DEF Starting
<1>8. TakingBack'
  <2>1. \A q \in Plugins : effects[q] # <<>> \/ plugins[q] = "active" => InList(q, todo')
    BY <1>1, <1>3 DEF PluginsInv, TakingBack
  <2>2. ASSUME using = "unwinding" \/ Container!InOrder, NEW i \in DOMAIN todo', plugins[todo'[i]] = "active",
               NEW row \in Rows, row.name = todo'[i], NEW s \in row.inject
        PROVE  s \in DOMAIN services /\ \E j \in i + 1 .. Len(todo') : todo'[j] = services[s]
    <3>1. i + 1 \in DOMAIN todo /\ todo'[i] = todo[i + 1] /\ i \in Nat
      BY <1>3, <2>2
    <3>2. s \in DOMAIN services /\ \E j \in (i + 1) + 1 .. Len(todo) : todo[j] = services[s]
      BY <1>1, <2>2, <3>1 DEF PluginsInv, TakingBack
    <3>3. PICK j \in (i + 1) + 1 .. Len(todo) : todo[j] = services[s]
      BY <3>2
    <3>4. j - 1 \in i + 1 .. Len(todo') /\ j - 1 \in DOMAIN todo' /\ (j - 1) + 1 = j
      BY <1>2, <1>3, <3>1, <3>3
    <3>5. todo'[j - 1] = services[s]
      BY <1>3, <3>3, <3>4
    <3> QED
      BY <3>2, <3>4, <3>5
  <2>3. Rows' = Rows /\ (Container!InOrder' <=> Container!InOrder)
    BY DEF Rows, Container!InOrder
  <2> QED
    BY <1>1, <2>1, <2>2, <2>3 DEF TakingBack, InList
<1> QED
  BY <1>4, <1>5, <1>6, <1>7, <1>8 DEF PluginsInv
LEMMA UnwoundKeeps ==
  ASSUME PluginsInv, Container!Unwound \/ Container!Disposed PROVE PluginsInv'
<1> USE DEF Container!Unwound, Container!Disposed
<1>1. /\ using \in {"unwinding", "disposing"} /\ using' \in {"failed", "disposed"} /\ todo = <<>>
      /\ UNCHANGED <<wiring, plugins, services, effects, activated, todo, undone, setUp>>
  OBVIOUS
<1>2. /\ ServicesOwned' /\ UndoneInOrder' /\ wiring' \in Wirings
      /\ effects' \in [Plugins -> Seq(Effects')] /\ setUp' \in [Plugins -> Seq(Effects')]
      /\ undone' \in [Plugins -> Seq(Effects')]
  BY <1>1, NothingSetUp
<1>3. PluginTypes'
  BY <1>1, <1>2 DEF PluginsInv, PluginTypes, Named, Rows
<1>4. EffectsStand'
  BY <1>1 DEF PluginsInv, EffectsStand, Container!Applying
<1>5. Starting'
  BY <1>1 DEF Starting
<1>6. TakingBack'
  BY <1>1 DEF PluginsInv, TakingBack, InList
<1> QED
  BY <1>2, <1>3, <1>4, <1>5, <1>6 DEF PluginsInv

\* When plugins are used in an order that respects what they inject, what an active one injects
\* belongs to one used before it.
LEMMA OwnersUsedBefore ==
  ASSUME PluginsInv, using = "started", Container!InOrder,
         NEW i \in DOMAIN wiring, plugins[wiring[i].name] = "active", NEW s \in wiring[i].inject
  PROVE  s \in DOMAIN services /\ \E j \in 1..i - 1 : wiring[j].name = services[s]
<1>1. /\ wiring \in Wirings /\ wiring[i] \in Rows
      /\ DOMAIN wiring = 1..Len(wiring) /\ Len(wiring) \in Nat
  BY NamesAre DEF Rows, PluginsInv, PluginTypes
<1>2. wiring[i].name \in Plugins
  BY <1>1, RowOf
<1>3. InList(wiring[i].name, activated)
  BY <1>2 DEF PluginsInv, Starting
<1>4. s \in DOMAIN services
  BY <1>1, <1>3 DEF PluginsInv, Starting, InList
<1>5. PICK row \in Rows : row.name = services[s] /\ s \in row.provide
  BY <1>4 DEF PluginsInv, ServicesOwned
<1>6. PICK k \in DOMAIN wiring : wiring[k] = row
  BY DEF Rows
<1>7. PICK j \in 1..i - 1 : s \in wiring[j].provide
  BY DEF Container!InOrder
<1>8. j \in DOMAIN wiring
  BY <1>1, <1>7
<1>9. j = k
  <2>1. ~ Container!AdvertisedConflict
    BY DEF PluginsInv, Starting
  <2>2. ~ j < k /\ ~ k < j
    BY <1>5, <1>6, <1>7, <1>8, <2>1 DEF Container!AdvertisedConflict
  <2> QED
    BY <1>1, <1>6, <1>8, <2>2
<1> QED
  BY <1>4, <1>5, <1>6, <1>7, <1>9

LEMMA DisposesKeep ==
  ASSUME PluginsInv, Container!Dispose PROVE PluginsInv'
<1> USE DEF Container!Dispose
<1> DEFINE names == Container!PluginNames
           rev == Container!Reverse(names)
<1>1. wiring \in Wirings
  BY DEF PluginsInv, PluginTypes
<1>2. /\ names \in Seq(Plugins) /\ Distinct(names) /\ \A p : Named(p) <=> InList(p, names)
      /\ DOMAIN wiring = 1..Len(wiring) /\ Len(wiring) \in Nat /\ Len(names) = Len(wiring)
      /\ DOMAIN names = DOMAIN wiring /\ \A i \in DOMAIN wiring : names[i] = wiring[i].name
  <2>1. DOMAIN names = DOMAIN wiring /\ \A i \in DOMAIN wiring : names[i] = wiring[i].name
    BY DEF Container!PluginNames
  <2> HIDE DEF names
  <2>2. /\ names \in Seq(Plugins) /\ Distinct(names) /\ \A p : Named(p) <=> InList(p, names)
        /\ DOMAIN wiring = 1..Len(wiring) /\ Len(wiring) \in Nat
    BY <1>1, NamesAre DEF names
  <2> QED
    BY <2>1, <2>2
<1> HIDE DEF names
<1>3. /\ rev \in Seq(Plugins) /\ Len(rev) = Len(names) /\ DOMAIN rev = DOMAIN names
      /\ \A i \in DOMAIN names : Len(names) - i + 1 \in DOMAIN names /\ rev[i] = names[Len(names) - i + 1]
      /\ Distinct(rev) /\ \A p : InList(p, names) => InList(p, rev)
  BY <1>2, ReverseOf
<1>4. todo' = rev /\ using' = "disposing" /\ using \in {"started", "failed"}
  BY DEF names
<1> HIDE DEF rev
<1>5. /\ ServicesOwned' /\ UndoneInOrder' /\ wiring' \in Wirings
      /\ effects' \in [Plugins -> Seq(Effects')] /\ setUp' \in [Plugins -> Seq(Effects')]
      /\ undone' \in [Plugins -> Seq(Effects')]
  BY NothingSetUp
<1>6. PluginTypes'
  BY <1>3, <1>4, <1>5 DEF PluginsInv, PluginTypes, Named, Rows
<1>7. EffectsStand'
  BY <1>4 DEF PluginsInv, EffectsStand, Container!Applying
<1>8. Starting'
  BY <1>4 DEF Starting
<1>9. TakingBack'
  <2>1. ASSUME NEW p \in Plugins, effects[p] # <<>> \/ plugins[p] = "active" PROVE InList(p, rev)
    <3>1. plugins[p] # "absent"
      BY <2>1 DEF PluginsInv, EffectsStand
    <3> QED
      BY <1>2, <1>3, <3>1 DEF PluginsInv, PluginTypes
  <2>2. ASSUME Container!InOrder, NEW i \in DOMAIN rev, plugins[rev[i]] = "active",
               NEW row \in Rows, row.name = rev[i], NEW s \in row.inject
        PROVE  s \in DOMAIN services /\ \E j \in i + 1 .. Len(rev) : rev[j] = services[s]
    <3>1. using = "started"
      BY <1>3, <1>4, <2>2 DEF PluginsInv, TakingBack
    <3> DEFINE k == Len(names) - i + 1
    <3>2. k \in DOMAIN wiring /\ rev[i] = wiring[k].name /\ i \in 1..Len(names)
      BY <1>2, <1>3, <2>2
    <3>3. row = wiring[k]
      <4>1. wiring[k] \in Rows
        BY <3>2 DEF Rows
      <4> QED
        BY <1>1, <2>2, <3>2, <4>1, RowOf
    <3>4. s \in DOMAIN services /\ \E j \in 1..k - 1 : wiring[j].name = services[s]
      BY <2>2, <3>1, <3>2, <3>3, OwnersUsedBefore
    <3>5. PICK j \in 1..k - 1 : wiring[j].name = services[s]
      BY <3>4
    <3>6. /\ Len(names) - j + 1 \in i + 1 .. Len(rev) /\ Len(names) - j + 1 \in DOMAIN names
          /\ Len(names) - (Len(names) - j + 1) + 1 = j /\ j \in DOMAIN wiring
      BY <1>2, <1>3, <3>2, <3>5
    <3>7. rev[Len(names) - j + 1] = services[s]
      BY <1>2, <1>3, <3>5, <3>6
    <3> QED
      BY <3>4, <3>6, <3>7
  <2>3. Rows' = Rows /\ (Container!InOrder' <=> Container!InOrder)
    BY DEF Rows, Container!InOrder
  <2> QED
    BY <1>4, <2>1, <2>2, <2>3 DEF TakingBack, InList
<1> QED
  BY <1>5, <1>6, <1>7, <1>8, <1>9 DEF PluginsInv

LEMMA PluginsKept == PluginsInv /\ [MachinesNext]_machineVars => PluginsInv'
<1> SUFFICES ASSUME PluginsInv, [MachinesNext]_machineVars PROVE PluginsInv'
  OBVIOUS
<1>1. Container!Next \/ UNCHANGED pluginVars
  BY DEF MachinesNext, Moves, machineVars
<1>2. CASE UNCHANGED pluginVars
  <2>1. /\ ServicesOwned' /\ UndoneInOrder' /\ wiring' \in Wirings
        /\ effects' \in [Plugins -> Seq(Effects')] /\ setUp' \in [Plugins -> Seq(Effects')]
        /\ undone' \in [Plugins -> Seq(Effects')]
    BY <1>2, NothingSetUp DEF pluginVars
  <2>2. PluginTypes'
    BY <1>2, <2>1 DEF pluginVars, PluginsInv, PluginTypes, Named, Rows
  <2>3. EffectsStand' /\ Starting' /\ TakingBack'
    BY <1>2 DEF pluginVars, PluginsInv, EffectsStand, Starting, TakingBack, Container!Applying,
                Container!AdvertisedConflict, Container!InOrder, InList, Rows
  <2> QED
    BY <2>1, <2>2, <2>3 DEF PluginsInv
<1>3. ASSUME NEW p \in Container!ToSet(Container!PluginNames), Container!Step(p) PROVE PluginsInv'
  <2>1. p \in Plugins /\ Named(p)
    <3>1. wiring \in Wirings
      BY DEF PluginsInv, PluginTypes
    <3>2. Container!PluginNames \in Seq(Plugins) /\ (Named(p) <=> InList(p, Container!PluginNames))
      BY <3>1, NamesAre
    <3>3. InList(p, Container!PluginNames)
      BY <1>3 DEF Container!ToSet, InList
    <3> QED
      BY <3>2, <3>3 DEF InList
  <2> QED
    BY <1>3, <2>1, ProvidesKeep, ListensKeep, ApplyFailsKeeps, ApplyReturnsKeeps, MarksKeep, UndoesKeep,
       UndoneKeeps DEF Container!Step
<1> QED
  BY <1>1, <1>2, <1>3, StartsKeep, ActivatesKeep, DependencyErrorKeeps, AllActiveKeeps, UnwoundKeeps,
     DisposesKeep DEF Container!Next

LEMMA NothingLeftOf == ASSUME PluginsInv PROVE NothingIsLeft
<1>1. Container!TypeOK
  <2>1. DOMAIN services \subseteq UNION {wiring[i].provide : i \in DOMAIN wiring}
    BY DEF PluginsInv, ServicesOwned, Rows
  <2> QED
    BY <2>1 DEF PluginsInv, PluginTypes, Container!TypeOK
<1>2. Container!ProvidersOutlive
  <2> SUFFICES ASSUME using # "disposing" \/ Container!InOrder, NEW p \in Plugins, plugins[p] = "active"
               PROVE  Container!Missing(p) = {}
    BY DEF Container!ProvidersOutlive
  <2>1. PICK row \in Rows : row.name = p
    BY DEF PluginsInv, PluginTypes, Named
  <2>2. Container!Row(p) = row
    BY <2>1, RowOf DEF PluginsInv, PluginTypes
  <2>3. \A s \in row.inject : s \in DOMAIN services
    <3>1. CASE using \in {"used", "starting", "applying", "started"}
      BY <2>1, <3>1 DEF PluginsInv, Starting, InList
    <3>2. CASE using \in {"unwinding", "disposing"}
      BY <2>1, <3>2 DEF PluginsInv, TakingBack, InList
    <3>3. CASE using \in {"failed", "disposed"}
      BY <3>3 DEF PluginsInv, TakingBack
    <3> QED
      BY <3>1, <3>2, <3>3 DEF PluginsInv, PluginTypes
  <2> QED
    BY <2>2, <2>3 DEF Container!Missing
<1>3. Container!NothingIsLeft
  <2> SUFFICES ASSUME using \in {"failed", "disposed"}
               PROVE  services = <<>> /\ \A p \in Plugins : effects[p] = <<>> /\ undone[p] = Container!Reverse(setUp[p])
    BY DEF Container!NothingIsLeft
  <2>1. \A p \in Plugins : effects[p] = <<>>
    BY DEF PluginsInv, TakingBack
  <2>2. services = <<>>
    <3>1. \A s, p : p \in Plugins => ~ InList(s, effects[p])
      BY <2>1 DEF InList
    <3>2. DOMAIN services = {} /\ services = [s \in DOMAIN services |-> services[s]]
      BY <3>1 DEF PluginsInv, ServicesOwned
    <3> QED
      BY <3>2
  <2>3. ASSUME NEW p \in Plugins PROVE undone[p] = Container!Reverse(setUp[p])
    <3>1. undone[p] \in Seq(Effects) /\ setUp[p] \in Seq(Effects)
      BY DEF PluginsInv, PluginTypes
    <3>2. /\ Len(setUp[p]) = Len(undone[p])
          /\ \A i \in DOMAIN undone[p] : setUp[p][Len(setUp[p]) - i + 1] = undone[p][i]
      <4>1. /\ Len(setUp[p]) = Len(effects[p]) + Len(undone[p])
            /\ \A i \in DOMAIN undone[p] : setUp[p][Len(setUp[p]) - i + 1] = undone[p][i]
        BY DEF PluginsInv, UndoneInOrder
      <4>2. Len(effects[p]) = 0
        BY <2>1
      <4> QED
        BY <3>1, <4>1, <4>2
    <3>3. /\ undone[p] = [i \in 1..Len(undone[p]) |-> undone[p][i]]
          /\ DOMAIN undone[p] = 1..Len(undone[p])
      BY <3>1
    <3> QED
      BY <3>2, <3>3 DEF Container!Reverse
  <2> QED
    BY <2>1, <2>2, <2>3
<1> QED
  BY <1>1, <1>2, <1>3 DEF NothingIsLeft

\* Whatever fails while plugins start, an active plugin has what it injects until it is
\* disposed itself, and in the end every effect of every plugin was undone once, the last
\* first (container.ts, lifecycle.ts).
THEOREM PluginsCorrect == MachinesSpec => []NothingIsLeft
<1> QED
  BY PluginsStart, PluginsKept, NothingLeftOf, PTL DEF MachinesSpec

-----------------------------------------------------------------------------
(* The window: the wire keeps the order of the events, so that a copy and  *)
(* what is under way are those of the events taken off it so far.          *)

\* The host keeps its types, whatever is asked.
LEMMA HostTyped == TypeOK /\ [MachinesNext]_machineVars => TypeOK'
<1> SUFFICES ASSUME TypeOK, [MachinesNext]_machineVars PROVE TypeOK'
  OBVIOUS
<1>0. "agent" \in Holders /\ "none" \notin Requests /\ \A r \in Requests : r \in Holders
  BY DesktopAssumption DEF DesktopAssumption, Holders
<1>1. Next \/ UNCHANGED vars
  BY DEF MachinesNext, Moves, machineVars
<1>2. CASE UNCHANGED vars
  BY <1>2 DEF vars, volatile, TypeOK
<1>3. ASSUME NEW r \in Requests, NEW place \in Places, Goes(r, place)
      PROVE  req' \in [Requests -> [op : Ops \cup {"none"}, at : Places]]
  BY <1>3 DEF Goes, TypeOK
<1>4. ASSUME NEW d \in Holders, Opens(d)
      PROVE  turns' \in Seq(Nat) /\ drives' \in [Holders -> 0..Len(turns')] /\ current' \in 0..Len(turns')
  <2>1. turns' \in Seq(Nat) /\ Len(turns') = Len(turns) + 1 /\ Len(turns) \in Nat
    BY <1>4 DEF Opens, TypeOK
  <2>2. \A h \in Holders : drives'[h] \in 0..Len(turns')
    BY <1>4, <2>1 DEF Opens, TypeOK
  <2> QED
    BY <1>4, <2>1, <2>2 DEF Opens, TypeOK
<1>5. ASSUME NEW d \in Holders, Ends(d)
      PROVE  turns' \in Seq(Nat) /\ drives' \in [Holders -> 0..Len(turns')] /\ current' \in 0..Len(turns')
  <2>1. turns' \in Seq(Nat) /\ Len(turns') = Len(turns) /\ current' \in {current, 0}
    BY <1>5 DEF Ends, TypeOK
  <2> QED
    BY <1>5, <2>1 DEF Ends, TypeOK
<1>6. ASSUME NEW r \in Requests, Serve(r) PROVE TypeOK'
  <2> USE DEF Places
  <2>1. ASSUME NEW op \in Ops, Arrive(r, op) PROVE TypeOK'
    BY <1>0, <2>1 DEF Arrive, TypeOK, Free
  <2>2. CASE AskRuntime(r)
    <3>1. Goes(r, "ready") \/ Goes(r, "opening") \/ Goes(r, "over")
      BY <2>2 DEF AskRuntime, Release
    <3>2. req' \in [Requests -> [op : Ops \cup {"none"}, at : Places]]
      BY <1>3, <3>1
    <3>3. runtime' \in {runtime, "opening"} /\ running' \in {running, "none"} /\ aborted' \subseteq aborted
      BY <2>2 DEF AskRuntime, Release, Left
    <3>4. UNCHANGED <<drives, host, turns, current, starts, offered, agent, queued>>
      BY <2>2 DEF AskRuntime
    <3> QED
      BY <3>2, <3>3, <3>4 DEF TypeOK
  <2>3. CASE Opened(r) \/ Recovered(r)
    BY <1>3, <2>3 DEF Opened, Recovered, TypeOK
  <2>4. ASSUME Deliver(r)
        PROVE  /\ req' \in [Requests -> [op : Ops \cup {"none"}, at : Places]]
               /\ running' \in Holders \cup {"none"} /\ aborted' \subseteq Holders
               /\ agent' \in {"idle", "starting", "turn"} /\ queued' \in BOOLEAN
    BY <1>0, <2>4 DEF Deliver, TypeOK
  <2>5. CASE Message(r)
    <3>1. CASE Over(r) /\ UNCHANGED <<agent, queued>>
      BY <1>3, <2>5, <3>1 DEF Message, Over, TypeOK
    <3>2. CASE Goes(r, "put") /\ UNCHANGED <<running, aborted, agent, queued>>
      BY <1>3, <2>5, <3>2 DEF Message, TypeOK
    <3>3. CASE Deliver(r)
      BY <2>4, <2>5, <3>3 DEF Message, TypeOK
    <3> QED
      BY <2>5, <3>1, <3>2, <3>3 DEF Message
  <2>6. CASE ImagesStored(r)
    BY <2>4, <2>6 DEF ImagesStored, TypeOK
  <2>7. CASE Restore(r) \/ Restored(r)
    <3>1. Goes(r, "over") \/ Goes(r, "restoring")
      BY <2>7 DEF Restore, Restored, Release
    <3>2. running' \in {running, "none"} /\ aborted' \subseteq aborted
      BY <2>7 DEF Restore, Restored, Release, Left
    <3>3. UNCHANGED <<drives, host, turns, current, starts, runtime, offered, agent, queued>>
      BY <2>7 DEF Restore, Restored
    <3> QED
      BY <1>3, <3>1, <3>2, <3>3 DEF TypeOK
  <2>8. CASE Card(r)
    <3>1. Goes(r, "over") \/ Goes(r, "driving")
      BY <2>8 DEF Card, Release
    <3>2. /\ running' \in {running, "none"} /\ aborted' \subseteq aborted
          /\ UNCHANGED <<host, starts, runtime, offered, agent, queued>>
          /\ Opens(r) \/ UNCHANGED <<turns, current, drives>>
      BY <2>8 DEF Card, Release, Left
    <3> QED
      BY <1>0, <1>3, <1>4, <3>1, <3>2 DEF TypeOK
  <2>9. CASE Resume(r)
    <3>1. Goes(r, "over") \/ Goes(r, "driving")
      BY <2>9 DEF Resume, Over
    <3>2. /\ running' \in {running, r} /\ aborted' = aborted /\ offered' = FALSE
          /\ UNCHANGED <<host, turns, current, starts, runtime, agent, queued>>
          /\ drives' \in {drives, [drives EXCEPT ![r] = current]}
      BY <2>9 DEF Resume, Over
    <3>3. drives' \in [Holders -> 0..Len(turns)]
      BY <3>2 DEF TypeOK
    <3> QED
      BY <1>0, <1>3, <3>1, <3>2, <3>3 DEF TypeOK
  <2>10. CASE DriveEnds(r)
    BY <1>0, <1>3, <1>5, <2>10 DEF DriveEnds, Left, TypeOK
  <2>11. CASE Abandon(r)
    BY <1>3, <2>11 DEF Abandon, TypeOK
  <2>12. CASE Abandoned(r)
    <3>1. turns' \in Seq(Nat) /\ Len(turns') = Len(turns) /\ current' \in {current, 0}
      BY <2>12 DEF Abandoned, TypeOK
    <3> QED
      BY <1>3, <2>12, <3>1 DEF Abandoned, TypeOK
  <2> QED
    BY <1>6, <2>1, <2>2, <2>3, <2>5, <2>6, <2>7, <2>8, <2>9, <2>10, <2>11, <2>12 DEF Serve
<1>7. ASSUME NextBatch
      PROVE  agent' \in {"idle", "starting", "turn"} /\ running' \in {running, "none"} /\ queued' \in BOOLEAN
  BY <1>7 DEF NextBatch, Left, TypeOK
<1>8. CASE AgentStarts
  BY <1>0, <1>4, <1>8 DEF AgentStarts, TypeOK
<1>9. CASE AgentFails
  BY <1>7, <1>9 DEF AgentFails, TypeOK
<1>10. CASE AgentEnds
  BY <1>0, <1>5, <1>7, <1>10 DEF AgentEnds, TypeOK
<1>11. CASE Interrupt
  <2>1. aborted' \subseteq Holders
    BY <1>0, <1>11 DEF Interrupt, TypeOK
  <2>2. queued' \in {queued, FALSE} /\ UNCHANGED <<drives, host, turns, current, starts, runtime, offered, running, agent, req>>
    BY <1>11 DEF Interrupt
  <2> QED
    BY <2>1, <2>2 DEF TypeOK
<1>13. CASE Close
  BY <1>13 DEF Close, TypeOK
<1>14. CASE RuntimeCloses
  BY <1>14 DEF RuntimeCloses, TypeOK
<1>12. CASE Die
  <2>1. drives' \in [Holders -> 0..Len(turns)]
    BY <1>12 DEF Die, TypeOK
  <2> QED
    BY <1>12, <2>1 DEF Die, TypeOK, Free, Places
<1>15. CASE Start
  <2>1. starts' \in 0..MaxStarts
    BY <1>15, DesktopAssumption DEF Start, TypeOK, DesktopAssumption
  <2>2. offered' \in BOOLEAN /\ host' = "up" /\ UNCHANGED <<drives, turns, current, runtime, running, aborted, agent, queued, req>>
    BY <1>15 DEF Start
  <2> QED
    BY <2>1, <2>2 DEF TypeOK
<1> QED
  BY <1>1, <1>2, <1>6, <1>8, <1>9, <1>10, <1>11, <1>12, <1>13, <1>14, <1>15 DEF Next
-----------------------------------------------------------------------------
IsEvent(j, s, n) == wire[j].what = "event" /\ wire[j].session = s /\ wire[j].n = n

OnWire == [what : {"event", "reply"}, session : Sessions, n : Nat, read : Nat]
Reads == [session : Sessions, at : {"extras", "taken", "posted"}, extras : SUBSET Nat, upto : Nat]

IsDispatch(s, n) == n \in DOMAIN log[s] /\ log[s][n] = "tool.code.dispatch"

\* The types of the window, with what is answered and shown event by event.
ReadsFit ==
  \A i \in DOMAIN reads :
    /\ reads[i] \in Reads
    /\ \A n \in reads[i].extras : IsDispatch(reads[i].session, n)
    /\ reads[i].upto <= Len(log[reads[i].session])
ShownFits ==
  /\ shown \in Sessions \cup {"none"} /\ loaded \in BOOLEAN
  /\ shown = "none" => view = <<>> /\ details = {}
  /\ shown # "none" => view \in Seq(DOMAIN log[shown]) /\ \A n \in details : IsDispatch(shown, n)
LiveFits == live \in [message : {"none", "empty", "text"}, call : {"none", "running"}]
TabsFit == tabs \in Seq(Sessions) /\ Window!IsInjective(tabs)
WindowTyped == log \in [Sessions -> Seq(Window!Kinds)] /\ ReadsFit /\ TabsFit /\ ShownFits /\ LiveFits

\* What is on the wire: events of the log, and replies that were posted.
WireTypes ==
  /\ wire \in Seq(OnWire) /\ reads \in Seq(Reads)
  /\ \A j \in DOMAIN wire :
       IF wire[j].what = "event" THEN wire[j].n \in DOMAIN log[wire[j].session]
       ELSE wire[j].read \in DOMAIN reads /\ reads[wire[j].read].at = "posted"

\* The wire keeps the order: events of a session come as they were recorded, a reply comes
\* before those it does not hold, and the window has seen none that is still to come.
WireOrder ==
  /\ \A i, j \in DOMAIN wire :
       i < j /\ wire[i].what = "event" /\ wire[j].what = "event" /\ wire[i].session = wire[j].session =>
         wire[i].n < wire[j].n
  /\ \A i, j \in DOMAIN wire :
       /\ i < j /\ wire[i].what # "event" /\ wire[j].what = "event"
       /\ reads[wire[i].read].session = wire[j].session
       => reads[wire[i].read].upto < wire[j].n
  /\ loaded => \A j \in DOMAIN wire : wire[j].what = "event" /\ wire[j].session = shown =>
                 \A k \in DOMAIN view : view[k] < wire[j].n

\* k events of the session have been taken off the wire, and the others are on it.
Reached(s, k) == \A n \in DOMAIN log[s] : n > k <=> \E j \in DOMAIN wire : IsEvent(j, s, n)

\* After k of its events no turn of the session is open.
NoneOpen(s, k) ==
  \E n \in 0..k : /\ n = 0 \/ log[s][n] = "turn.end"
                  /\ \A m \in n + 1 .. k : log[s][m] \in {"message.delta", "tool.code.dispatch"}

\* What the window took of a session it shows leaves nothing under way when no turn is open.
Settled ==
  /\ \A s \in Sessions : \E k \in 0..Len(log[s]) : Reached(s, k)
  /\ ~ loaded => live = Window!EmptyLive
  /\ shown # "none" => \A k \in 0..Len(log[shown]) :
                         Reached(shown, k) /\ NoneOpen(shown, k) => live = Window!EmptyLive

WindowInv == WindowTyped /\ WireTypes /\ WireOrder /\ Settled /\ Window!NoneTwice

LEMMA WindowStarts == MachinesInit => WindowInv
<1> SUFFICES ASSUME MachinesInit PROVE WindowInv
  OBVIOUS
<1>1. Window!Init
  BY DEF MachinesInit
<1> USE <1>1 DEF Window!Init
<1>2. WindowTyped
  <2>1. LiveFits
    BY DEF LiveFits, Window!EmptyLive
  <2>2. TabsFit
    BY DEF TabsFit, Window!IsInjective
  <2>3. ReadsFit
    BY DEF ReadsFit
  <2>4. ShownFits
    BY DEF ShownFits
  <2> QED
    BY <2>1, <2>2, <2>3, <2>4 DEF WindowTyped
<1>3. WireTypes /\ WireOrder
  BY DEF WireTypes, WireOrder
<1>4. Settled
  <2>1. \A s \in Sessions : Len(log[s]) = 0 /\ DOMAIN log[s] = {}
    OBVIOUS
  <2>2. \A s \in Sessions : 0 \in 0..Len(log[s]) /\ Reached(s, 0)
    BY <2>1 DEF Reached
  <2> QED
    BY <2>2 DEF Settled
<1>5. Window!NoneTwice
  BY DEF Window!NoneTwice
<1> QED
  BY <1>2, <1>3, <1>4, <1>5 DEF WindowInv

-----------------------------------------------------------------------------
\* Where a session stands is one of four places, and it is idle when no turn is open.
LEMMA StandingIs ==
  ASSUME NEW events0 \in Seq(Window!Kinds)
  PROVE  /\ Window!Standing(events0) \in {"idle", "turn", "message", "call"}
         /\ Window!Standing(events0) = "idle" =>
              \E n \in 0..Len(events0) :
                /\ n = 0 \/ events0[n] = "turn.end"
                /\ \A m \in n + 1 .. Len(events0) : events0[m] \in {"message.delta", "tool.code.dispatch"}
<1> DEFINE steps == {n \in DOMAIN events0 : events0[n] \in DOMAIN Window!LeadsTo}
           last == Window!Max(steps)
<1>1. /\ DOMAIN events0 = 1..Len(events0) /\ Len(events0) \in Nat
      /\ \A n \in DOMAIN events0 : events0[n] \in Window!Kinds
      /\ DOMAIN Window!LeadsTo = Window!Kinds \ {"message.delta", "tool.code.dispatch"}
  BY DEF Window!LeadsTo
<1>2. Window!Standing(events0) = IF steps = {} THEN "idle" ELSE Window!LeadsTo[events0[last]]
  BY DEF Window!Standing
<1>3. ASSUME steps = {} PROVE \A m \in 0 + 1 .. Len(events0) : events0[m] \in {"message.delta", "tool.code.dispatch"}
  BY <1>1, <1>3
<1>4. ASSUME steps # {} PROVE last \in steps /\ \A n \in steps : n <= last
  <2> DEFINE back == {Len(events0) - n : n \in steps}
  <2>1. back \subseteq Nat /\ back # {}
    BY <1>1, <1>4
  <2>2. PICK b \in back : \A c \in back : b <= c
    BY <2>1, LeastOfNat
  <2>3. PICK top \in steps : b = Len(events0) - top
    BY <2>2
  <2>4. \A n \in steps : n <= top
    <3> SUFFICES ASSUME NEW n \in steps PROVE n <= top
      OBVIOUS
    <3>1. Len(events0) - top <= Len(events0) - n
      BY <2>2, <2>3
    <3> QED
      BY <1>1, <3>1
  <2>5. \A n \in steps : n \in Nat
    BY <1>1
  <2> HIDE DEF steps
  <2>6. \E x \in steps : \A y \in steps : x >= y
    BY <2>3, <2>4, <2>5
  <2>7. last \in steps /\ \A y \in steps : last >= y
    BY <2>6 DEF Window!Max
  <2> QED
    BY <2>5, <2>7
<1>5. ASSUME steps # {}
      PROVE  /\ last \in 1..Len(events0) /\ events0[last] \in DOMAIN Window!LeadsTo
             /\ \A m \in last + 1 .. Len(events0) : events0[m] \in {"message.delta", "tool.code.dispatch"}
  <2>1. last \in 1..Len(events0) /\ events0[last] \in DOMAIN Window!LeadsTo
    BY <1>1, <1>4, <1>5
  <2>2. ASSUME NEW m \in last + 1 .. Len(events0) PROVE events0[m] \in {"message.delta", "tool.code.dispatch"}
    <3>1. m \in 1..Len(events0) /\ ~ m <= last
      BY <1>1, <2>1, <2>2
    <3>2. m \notin steps
      BY <1>4, <1>5, <3>1
    <3> QED
      BY <1>1, <3>1, <3>2
  <2> QED
    BY <2>1, <2>2
<1> HIDE DEF last, steps
<1>6. /\ \A k \in DOMAIN Window!LeadsTo : Window!LeadsTo[k] \in {"idle", "turn", "message", "call"}
      /\ \A k \in DOMAIN Window!LeadsTo : Window!LeadsTo[k] = "idle" => k = "turn.end"
  BY DEF Window!LeadsTo
<1>7. CASE steps = {}
  BY <1>1, <1>2, <1>3, <1>7
<1>8. CASE steps # {}
  BY <1>1, <1>2, <1>5, <1>6, <1>8
<1> QED
  BY <1>7, <1>8

\* One more event is recorded and pushed.
LEMMA PublishKeeps ==
  ASSUME WindowInv, NEW s \in Sessions, Window!Publish(s) PROVE WindowInv'
<1> DEFINE len == Len(log[s])
           pushed == [what |-> "event", session |-> s, n |-> len + 1, read |-> 0]
<1>1. PICK of : /\ of \in Window!May[Window!Standing(log[s])]
                /\ log' = [log EXCEPT ![s] = Append(@, of)] /\ wire' = Append(wire, pushed)
  BY DEF Window!Publish
<1>2. UNCHANGED <<reads, tabs, shown, loaded, view, details, live>>
  BY DEF Window!Publish
<1>3. log \in [Sessions -> Seq(Window!Kinds)]
  BY DEF WindowInv, WindowTyped
<1>4. of \in Window!Kinds
  <2>1. log[s] \in Seq(Window!Kinds)
    BY <1>3
  <2>2. Window!Standing(log[s]) \in {"idle", "turn", "message", "call"}
    BY <2>1, StandingIs
  <2> QED
    BY <1>1, <2>2 DEF Window!May, Window!Kinds
<1>5. /\ log' \in [Sessions -> Seq(Window!Kinds)]
      /\ Len(log'[s]) = len + 1 /\ len \in Nat /\ DOMAIN log[s] = 1..len /\ DOMAIN log'[s] = 1..len + 1
      /\ \A n \in 1..len : log'[s][n] = log[s][n]
      /\ \A t \in Sessions \ {s} : log'[t] = log[t]
  <2>1. /\ Append(log[s], of) \in Seq(Window!Kinds) /\ Len(Append(log[s], of)) = len + 1 /\ len \in Nat
        /\ DOMAIN log[s] = 1..len /\ DOMAIN Append(log[s], of) = 1..len + 1
        /\ \A n \in 1..len : Append(log[s], of)[n] = log[s][n]
    BY <1>3, <1>4
  <2> QED
    BY <1>1, <1>3, <2>1
<1>6. \A t \in Sessions : /\ Len(log[t]) \in Nat /\ Len(log'[t]) \in Nat /\ Len(log[t]) <= Len(log'[t])
                          /\ DOMAIN log[t] = 1..Len(log[t]) /\ DOMAIN log'[t] = 1..Len(log'[t])
                          /\ \A n \in DOMAIN log[t] : n \in DOMAIN log'[t] /\ log'[t][n] = log[t][n]
  <2> SUFFICES ASSUME NEW t \in Sessions
               PROVE  /\ Len(log[t]) \in Nat /\ Len(log'[t]) \in Nat /\ Len(log[t]) <= Len(log'[t])
                      /\ DOMAIN log[t] = 1..Len(log[t]) /\ DOMAIN log'[t] = 1..Len(log'[t])
                      /\ \A n \in DOMAIN log[t] : n \in DOMAIN log'[t] /\ log'[t][n] = log[t][n]
    OBVIOUS
  <2>1. CASE t = s
    BY <1>5, <2>1
  <2>2. CASE t # s
    <3>1. log[t] \in Seq(Window!Kinds) /\ log'[t] = log[t]
      BY <1>3, <1>5, <2>2
    <3> QED
      BY <3>1
  <2> QED
    BY <2>1, <2>2
<1>7. /\ wire \in Seq(OnWire) /\ wire' \in Seq(OnWire) /\ Len(wire') = Len(wire) + 1 /\ Len(wire) \in Nat
      /\ DOMAIN wire = 1..Len(wire) /\ DOMAIN wire' = 1..Len(wire) + 1
      /\ \A j \in DOMAIN wire : j \in DOMAIN wire' /\ wire'[j] = wire[j]
      /\ wire'[Len(wire) + 1] = pushed
  <2>1. pushed \in OnWire /\ wire \in Seq(OnWire)
    BY <1>5 DEF OnWire, WindowInv, WireTypes
  <2> HIDE DEF pushed
  <2> QED
    BY <1>1, <2>1
<1>8. pushed.what = "event" /\ pushed.session = s /\ pushed.n = len + 1
  OBVIOUS
<1> HIDE DEF len, pushed
<1>9. WindowTyped'
  <2>1. \A t \in Sessions : \A n : IsDispatch(t, n) => n \in DOMAIN log'[t] /\ log'[t][n] = "tool.code.dispatch"
    BY <1>6 DEF IsDispatch
  <2>2. ReadsFit'
    <3> SUFFICES ASSUME NEW i \in DOMAIN reads
                 PROVE  /\ reads[i] \in Reads
                        /\ \A n \in reads[i].extras : /\ n \in DOMAIN log'[reads[i].session]
                                                      /\ log'[reads[i].session][n] = "tool.code.dispatch"
                        /\ reads[i].upto <= Len(log'[reads[i].session])
      BY <1>2 DEF ReadsFit, IsDispatch
    <3>1. /\ reads[i] \in Reads /\ \A n \in reads[i].extras : IsDispatch(reads[i].session, n)
          /\ reads[i].upto <= Len(log[reads[i].session])
      BY DEF WindowInv, WindowTyped, ReadsFit, IsDispatch
    <3>2. reads[i].session \in Sessions /\ reads[i].upto \in Nat
      BY <3>1 DEF Reads
    <3> QED
      BY <1>6, <2>1, <3>1, <3>2
  <2>3. ShownFits'
    <3>1. CASE shown = "none"
      BY <1>2, <3>1 DEF WindowInv, WindowTyped, ShownFits
    <3>2. CASE shown # "none"
      <4>1. shown \in Sessions /\ view \in Seq(DOMAIN log[shown]) /\ \A n \in details : IsDispatch(shown, n)
        BY <3>2 DEF WindowInv, WindowTyped, ShownFits
      <4>2. \A k \in DOMAIN view : view[k] \in DOMAIN log'[shown]
        BY <1>6, <4>1
      <4>3. view \in Seq(DOMAIN log'[shown])
        BY <4>1, <4>2
      <4> QED
        BY <1>2, <2>1, <3>2, <4>1, <4>3 DEF WindowInv, WindowTyped, ShownFits, IsDispatch
    <3> QED
      BY <3>1, <3>2
  <2> QED
    BY <1>2, <1>5, <2>2, <2>3 DEF WindowInv, WindowTyped, TabsFit, LiveFits
<1>10. \A j \in DOMAIN wire' : j \in DOMAIN wire \/ j = Len(wire) + 1
  BY <1>7
<1>11. WireTypes'
  <2>1. ASSUME NEW j \in DOMAIN wire
        PROVE  IF wire'[j].what = "event" THEN wire'[j].n \in DOMAIN log'[wire'[j].session]
               ELSE wire'[j].read \in DOMAIN reads /\ reads[wire'[j].read].at = "posted"
    <3>1. wire[j].session \in Sessions
      <4>1. wire[j] \in OnWire
        BY <1>7
      <4> QED
        BY <4>1 DEF OnWire
    <3> QED
      BY <1>6, <1>7, <3>1 DEF WindowInv, WireTypes
  <2> QED
    BY <1>2, <1>5, <1>7, <1>8, <1>10, <2>1 DEF WindowInv, WireTypes
<1>12. \A j \in DOMAIN wire : wire[j].what = "event" /\ wire[j].session = s => wire[j].n <= len /\ wire[j].n \in Nat
  BY <1>5 DEF WindowInv, WireTypes
<1>13. WireOrder'
  <2>1. ASSUME NEW i \in DOMAIN wire', NEW j \in DOMAIN wire', i < j,
               wire'[i].what = "event", wire'[j].what = "event", wire'[i].session = wire'[j].session
        PROVE  wire'[i].n < wire'[j].n
    <3>1. i \in DOMAIN wire /\ wire'[i] = wire[i]
      BY <1>7, <1>10, <2>1
    <3>2. CASE j \in DOMAIN wire
      BY <1>7, <2>1, <3>1, <3>2 DEF WindowInv, WireOrder
    <3>3. CASE j = Len(wire) + 1
      BY <1>5, <1>7, <1>8, <1>12, <2>1, <3>1, <3>3
    <3> QED
      BY <1>10, <3>2, <3>3
  <2>2. ASSUME NEW i \in DOMAIN wire', NEW j \in DOMAIN wire', i < j, wire'[i].what # "event", wire'[j].what = "event",
               reads[wire'[i].read].session = wire'[j].session
        PROVE  reads[wire'[i].read].upto < wire'[j].n
    <3>1. i \in DOMAIN wire /\ wire'[i] = wire[i]
      BY <1>7, <1>10, <2>2
    <3>2. CASE j \in DOMAIN wire
      BY <1>7, <2>2, <3>1, <3>2 DEF WindowInv, WireOrder
    <3>3. CASE j = Len(wire) + 1
      <4>1. wire[i].read \in DOMAIN reads
        BY <2>2, <3>1 DEF WindowInv, WireTypes
      <4>2. reads[wire[i].read] \in Reads /\ reads[wire[i].read].upto <= Len(log[reads[wire[i].read].session])
        BY <4>1 DEF WindowInv, WindowTyped, ReadsFit, IsDispatch
      <4>3. reads[wire[i].read].session = s
        BY <1>7, <1>8, <2>2, <3>1, <3>3
      <4> QED
        BY <1>5, <1>7, <1>8, <3>1, <3>3, <4>2, <4>3 DEF len, Reads
    <3> QED
      BY <1>10, <3>2, <3>3
  <2>3. ASSUME loaded, NEW j \in DOMAIN wire', wire'[j].what = "event", wire'[j].session = shown,
               NEW k \in DOMAIN view
        PROVE  view[k] < wire'[j].n
    <3>1. CASE j \in DOMAIN wire
      BY <1>7, <2>3, <3>1 DEF WindowInv, WireOrder
    <3>2. CASE j = Len(wire) + 1
      <4>1. shown = s /\ wire'[j].n = len + 1
        BY <1>7, <1>8, <2>3, <3>2
      <4>2. shown # "none"
        BY <4>1, DesktopAssumption DEF DesktopAssumption
      <4>3. view[k] \in DOMAIN log[s]
        BY <4>1, <4>2 DEF WindowInv, WindowTyped, ShownFits
      <4> QED
        BY <1>5, <4>1, <4>3
    <3> QED
      BY <1>10, <3>1, <3>2
  <2> QED
    BY <1>2, <2>1, <2>2, <2>3 DEF WireOrder
<1>14. \A t \in Sessions : \A n \in DOMAIN log[t] :
         ((\E j \in DOMAIN wire' : wire'[j].what = "event" /\ wire'[j].session = t /\ wire'[j].n = n)
          <=> \E j \in DOMAIN wire : IsEvent(j, t, n))
  BY <1>5, <1>7, <1>8, <1>10 DEF IsEvent
<1>15. Settled'
  <2>1. ASSUME NEW t \in Sessions, NEW k \in 0..Len(log[t]), Reached(t, k) PROVE Reached(t, k)'
    <3>1. CASE t # s
      BY <1>5, <1>14, <2>1, <3>1 DEF Reached, IsEvent
    <3>2. CASE t = s
      <4>1. \E j \in DOMAIN wire' : wire'[j].what = "event" /\ wire'[j].session = s /\ wire'[j].n = len + 1
        BY <1>7, <1>8
      <4>2. \A n \in DOMAIN log'[s] : n \in DOMAIN log[s] \/ n = len + 1
        BY <1>5
      <4>3. len + 1 > k
        BY <1>5, <2>1, <3>2 DEF len
      <4> QED
        BY <1>5, <1>14, <2>1, <3>2, <4>1, <4>2, <4>3 DEF Reached, IsEvent
    <3> QED
      BY <3>1, <3>2
  <2>2. \A t \in Sessions : \E k \in 0..Len(log'[t]) : Reached(t, k)'
    <3> SUFFICES ASSUME NEW t \in Sessions PROVE \E k \in 0..Len(log'[t]) : Reached(t, k)'
      OBVIOUS
    <3>1. PICK k \in 0..Len(log[t]) : Reached(t, k)
      BY DEF WindowInv, Settled
    <3>2. k \in 0..Len(log'[t])
      BY <1>6
    <3> QED
      BY <2>1, <3>1, <3>2
  <2>3. ASSUME shown # "none", NEW k \in 0..Len(log'[shown]), Reached(shown, k)', NoneOpen(shown, k)'
        PROVE  live = Window!EmptyLive
    <3>1. shown \in Sessions
      BY <2>3 DEF WindowInv, WindowTyped, ShownFits
    <3>2. k <= Len(log[shown])
      <4>1. CASE shown # s
        BY <1>5, <1>6, <2>3, <3>1, <4>1
      <4>2. CASE shown = s
        <5>1. len + 1 \in DOMAIN log'[s] /\ \E j \in DOMAIN wire' : wire'[j].what = "event" /\ wire'[j].session = s /\ wire'[j].n = len + 1
          BY <1>5, <1>7, <1>8
        <5>2. len + 1 > k
          BY <1>2, <2>3, <4>2, <5>1 DEF Reached, IsEvent
        <5> QED
          BY <1>5, <2>3, <4>2, <5>2 DEF len
      <4> QED
        BY <4>1, <4>2
    <3>3. k \in 0..Len(log[shown]) /\ DOMAIN log[shown] = 1..Len(log[shown]) /\ Len(log[shown]) \in Nat
      BY <1>6, <2>3, <3>1, <3>2
    <3>4. Reached(shown, k)
      BY <1>2, <1>6, <1>14, <2>3, <3>1 DEF Reached, IsEvent
    <3>5. NoneOpen(shown, k)
      <4>1. PICK n \in 0..k : /\ n = 0 \/ log'[shown][n] = "turn.end"
                              /\ \A m \in n + 1 .. k : log'[shown][m] \in {"message.delta", "tool.code.dispatch"}
        BY <1>2, <2>3 DEF NoneOpen
      <4>2. \A m \in 1..k : log'[shown][m] = log[shown][m]
        BY <1>6, <3>1, <3>3
      <4> QED
        <5>1. k \in Nat /\ \A m \in n + 1 .. k : m \in 1..k
          BY <3>3
        <5>2. n = 0 \/ log[shown][n] = "turn.end"
          BY <3>3, <4>1, <4>2
        <5>3. \A m \in n + 1 .. k : log[shown][m] \in {"message.delta", "tool.code.dispatch"}
          BY <4>1, <4>2, <5>1
        <5> QED
          BY <5>2, <5>3 DEF NoneOpen
    <3> QED
      BY <2>3, <3>3, <3>4, <3>5 DEF WindowInv, Settled
  <2> QED
    BY <1>2, <2>2, <2>3 DEF WindowInv, Settled
<1>16. Window!NoneTwice'
  BY <1>2 DEF WindowInv, Window!NoneTwice
<1> QED
  BY <1>9, <1>11, <1>13, <1>15, <1>16 DEF WindowInv
-----------------------------------------------------------------------------
LEMMA ReadsTyped ==
  ASSUME WindowInv
  PROVE  \A i \in DOMAIN reads : /\ reads[i] \in Reads /\ reads[i].session \in Sessions
                                 /\ \A n \in reads[i].extras : IsDispatch(reads[i].session, n)
                                 /\ reads[i].upto \in Nat /\ reads[i].upto <= Len(log[reads[i].session])
<1> SUFFICES ASSUME NEW i \in DOMAIN reads
             PROVE  /\ reads[i] \in Reads /\ reads[i].session \in Sessions
                    /\ \A n \in reads[i].extras : IsDispatch(reads[i].session, n)
                    /\ reads[i].upto \in Nat /\ reads[i].upto <= Len(log[reads[i].session])
  BY DEF IsDispatch
<1>1. /\ reads[i] \in Reads /\ \A n \in reads[i].extras : IsDispatch(reads[i].session, n)
      /\ reads[i].upto <= Len(log[reads[i].session])
  BY DEF WindowInv, WindowTyped, ReadsFit, IsDispatch
<1> QED
  BY <1>1 DEF Reads

\* One entry of a sequence is replaced.
LEMMA OneEntry ==
  ASSUME NEW S, NEW list \in Seq(S), NEW i \in DOMAIN list, NEW v \in S
  PROVE  /\ [list EXCEPT ![i] = v] \in Seq(S) /\ DOMAIN [list EXCEPT ![i] = v] = DOMAIN list
         /\ [list EXCEPT ![i] = v][i] = v
         /\ \A h \in DOMAIN list \ {i} : [list EXCEPT ![i] = v][h] = list[h]
  OBVIOUS

LEMMA AnswerKeeps ==
  ASSUME WindowInv, NEW i \in DOMAIN reads, Window!Answer(i) PROVE WindowInv'
<1>1. /\ reads \in Seq(Reads) /\ reads[i].at = "extras"
      /\ reads' = [reads EXCEPT ![i].at = "taken", ![i].upto = Len(log[reads[i].session])]
      /\ UNCHANGED <<log, wire, tabs, shown, loaded, view, details, live>>
  BY DEF WindowInv, WireTypes, Window!Answer
<1>2. /\ reads[i] \in Reads /\ reads[i].session \in Sessions /\ Len(log[reads[i].session]) \in Nat
  BY ReadsTyped DEF WindowInv, WindowTyped
<1>3. /\ reads' \in Seq(Reads) /\ DOMAIN reads' = DOMAIN reads
      /\ \A h \in DOMAIN reads \ {i} : reads'[h] = reads[h]
      /\ reads'[i].at = "taken" /\ reads'[i].session = reads[i].session /\ reads'[i].extras = reads[i].extras
      /\ reads'[i].upto = Len(log[reads[i].session])
  <2> DEFINE now == [reads[i] EXCEPT !.at = "taken", !.upto = Len(log[reads[i].session])]
  <2>1. /\ now \in Reads /\ now.session = reads[i].session /\ now.extras = reads[i].extras
        /\ now.at = "taken" /\ now.upto = Len(log[reads[i].session])
    BY <1>2 DEF Reads
  <2>2. reads' = [reads EXCEPT ![i] = now]
    BY <1>1
  <2> HIDE DEF now
  <2>3. /\ reads' \in Seq(Reads) /\ DOMAIN reads' = DOMAIN reads /\ reads'[i] = now
        /\ \A h \in DOMAIN reads \ {i} : reads'[h] = reads[h]
    <3>1. reads \in Seq(Reads) /\ now \in Reads /\ i \in DOMAIN reads
      BY <1>1, <2>1
    <3> QED
      BY <2>2, <3>1, OneEntry
  <2> QED
    BY <2>1, <2>3
<1>4. WindowTyped'
  <2>1. ReadsFit'
    <3> SUFFICES ASSUME NEW h \in DOMAIN reads
                 PROVE  /\ reads'[h] \in Reads /\ \A n \in reads'[h].extras : IsDispatch(reads'[h].session, n)
                        /\ reads'[h].upto <= Len(log[reads'[h].session])
      BY <1>1, <1>3 DEF ReadsFit, IsDispatch
    <3>1. CASE h = i
      <4>1. reads'[h] \in Reads
        BY <1>3
      <4> QED
        BY <1>1, <1>2, <1>3, <3>1, <4>1, ReadsTyped DEF IsDispatch
    <3>2. CASE h # i
      BY <1>1, <1>3, <3>2, ReadsTyped DEF IsDispatch
    <3> QED
      BY <3>1, <3>2
  <2> QED
    BY <1>1, <2>1 DEF WindowInv, WindowTyped, TabsFit, ShownFits, LiveFits, IsDispatch
<1>5. WireTypes'
  BY <1>1, <1>3 DEF WindowInv, WireTypes
<1>6. WireOrder'
  BY <1>1, <1>3 DEF WindowInv, WireOrder, WireTypes
<1>7. Settled'
  BY <1>1 DEF WindowInv, Settled, Reached, NoneOpen, IsEvent
<1>8. Window!NoneTwice'
  BY <1>1 DEF WindowInv, Window!NoneTwice
<1> QED
  BY <1>4, <1>5, <1>6, <1>7, <1>8 DEF WindowInv

LEMMA PostKeeps ==
  ASSUME WindowInv, NEW i \in DOMAIN reads, Window!Post(i) PROVE WindowInv'
<1> DEFINE reply == [what |-> "reply", session |-> reads[i].session, n |-> 0, read |-> i]
<1>1. /\ reads \in Seq(Reads) /\ wire \in Seq(OnWire) /\ reads[i].session \in Sessions /\ i \in Nat
      /\ UNCHANGED <<log, tabs, shown, loaded, view, details, live>>
      /\ reads' = [reads EXCEPT ![i].at = "posted"] /\ wire' = Append(wire, reply)
  BY ReadsTyped DEF Window!Post, WindowInv, WireTypes
<1>2. /\ reads' \in Seq(Reads) /\ DOMAIN reads' = DOMAIN reads
      /\ reads'[i].at = "posted" /\ (\A h \in DOMAIN reads \ {i} : reads'[h] = reads[h])
      /\ reads'[i].session = reads[i].session /\ reads'[i].extras = reads[i].extras /\ reads'[i].upto = reads[i].upto
  <2> DEFINE now == [reads[i] EXCEPT !.at = "posted"]
  <2>1. /\ now \in Reads /\ now.session = reads[i].session /\ now.extras = reads[i].extras
        /\ now.at = "posted" /\ now.upto = reads[i].upto
    BY ReadsTyped DEF Reads
  <2>2. reads' = [reads EXCEPT ![i] = now]
    BY <1>1
  <2> HIDE DEF now
  <2>3. /\ reads' \in Seq(Reads) /\ DOMAIN reads' = DOMAIN reads /\ reads'[i] = now
        /\ \A h \in DOMAIN reads \ {i} : reads'[h] = reads[h]
    <3>1. reads \in Seq(Reads) /\ now \in Reads /\ i \in DOMAIN reads
      BY <1>1, <2>1
    <3> QED
      BY <2>2, <3>1, OneEntry
  <2> QED
    BY <2>1, <2>3
<1>3. /\ wire' \in Seq(OnWire) /\ DOMAIN wire = 1..Len(wire) /\ Len(wire) \in Nat
      /\ DOMAIN wire' = 1..Len(wire) + 1
      /\ \A j \in DOMAIN wire : j \in DOMAIN wire' /\ wire'[j] = wire[j]
      /\ wire'[Len(wire) + 1] = reply
  <2>1. reply \in OnWire
    BY <1>1 DEF OnWire
  <2> HIDE DEF reply
  <2> QED
    BY <1>1, <2>1
<1>4. reply.what # "event" /\ reply.read = i
  OBVIOUS
<1> HIDE DEF reply
<1>5. \A j \in DOMAIN wire' : (j \in DOMAIN wire /\ wire'[j] = wire[j]) \/ j = Len(wire) + 1
  BY <1>3
<1>6. \A h \in DOMAIN reads : /\ reads'[h].session = reads[h].session /\ reads'[h].upto = reads[h].upto
                              /\ reads'[h].extras = reads[h].extras
  BY <1>2
<1>7. WindowTyped'
  <2>1. ReadsFit'
    <3> SUFFICES ASSUME NEW h \in DOMAIN reads
                 PROVE  /\ reads'[h] \in Reads /\ \A n \in reads'[h].extras : IsDispatch(reads'[h].session, n)
                        /\ reads'[h].upto <= Len(log[reads'[h].session])
      BY <1>1, <1>2 DEF ReadsFit, IsDispatch
    <3>1. reads'[h] \in Reads
      BY <1>2
    <3> QED
      BY <1>1, <1>6, <3>1, ReadsTyped DEF IsDispatch
  <2> QED
    BY <1>1, <2>1 DEF WindowInv, WindowTyped, TabsFit, ShownFits, LiveFits, IsDispatch
<1>8. WireTypes'
  <2>1. ASSUME NEW j \in DOMAIN wire'
        PROVE  IF wire'[j].what = "event" THEN wire'[j].n \in DOMAIN log[wire'[j].session]
               ELSE wire'[j].read \in DOMAIN reads /\ reads'[wire'[j].read].at = "posted"
    <3>1. CASE j \in DOMAIN wire /\ wire'[j] = wire[j]
      BY <1>2, <3>1 DEF WindowInv, WireTypes
    <3>2. CASE j = Len(wire) + 1
      BY <1>2, <1>3, <1>4, <3>2
    <3> QED
      BY <1>5, <3>1, <3>2
  <2> QED
    BY <1>1, <1>2, <1>3, <2>1 DEF WireTypes
<1>9. WireOrder'
  <2>1. ASSUME NEW j \in DOMAIN wire', wire'[j].what = "event"
        PROVE  /\ j \in DOMAIN wire /\ wire'[j] = wire[j]
               /\ \A h \in DOMAIN wire' : h < j => h \in DOMAIN wire /\ wire'[h] = wire[h]
    BY <1>3, <1>4, <1>5, <2>1
  <2>2. \A h \in DOMAIN wire : wire[h].what # "event" => wire[h].read \in DOMAIN reads
    BY DEF WindowInv, WireTypes
  <2>3. \A h, j \in DOMAIN wire' :
          h < j /\ wire'[h].what = "event" /\ wire'[j].what = "event" /\ wire'[h].session = wire'[j].session =>
            wire'[h].n < wire'[j].n
    BY <2>1 DEF WindowInv, WireOrder
  <2>4. \A h, j \in DOMAIN wire' :
          /\ h < j /\ wire'[h].what # "event" /\ wire'[j].what = "event"
          /\ reads'[wire'[h].read].session = wire'[j].session
          => reads'[wire'[h].read].upto < wire'[j].n
    BY <1>6, <2>1, <2>2 DEF WindowInv, WireOrder
  <2>5. loaded => \A j \in DOMAIN wire' : wire'[j].what = "event" /\ wire'[j].session = shown =>
                   \A k \in DOMAIN view : view[k] < wire'[j].n
    BY <2>1 DEF WindowInv, WireOrder
  <2> QED
    BY <1>1, <2>3, <2>4, <2>5 DEF WireOrder
<1>10. Settled'
  <2>1. \A s, n : (\E j \in DOMAIN wire' : wire'[j].what = "event" /\ wire'[j].session = s /\ wire'[j].n = n)
                  <=> (\E j \in DOMAIN wire : IsEvent(j, s, n))
    BY <1>3, <1>4, <1>5 DEF IsEvent
  <2>2. ASSUME NEW s \in Sessions, NEW k \in 0..Len(log[s]) PROVE Reached(s, k)' <=> Reached(s, k)
    <3>1. DOMAIN log'[s] = DOMAIN log[s]
      BY <1>1
    <3>2. \A n : (\E j \in DOMAIN wire' : wire'[j].what = "event" /\ wire'[j].session = s /\ wire'[j].n = n)
                 <=> (\E j \in DOMAIN wire : wire[j].what = "event" /\ wire[j].session = s /\ wire[j].n = n)
      BY <2>1 DEF IsEvent
    <3> QED
      BY <3>1, <3>2 DEF Reached, IsEvent
  <2>3. \A s \in Sessions : \E k \in 0..Len(log'[s]) : Reached(s, k)'
    BY <1>1, <2>2 DEF WindowInv, Settled
  <2>4. ASSUME shown # "none", NEW k \in 0..Len(log'[shown]), Reached(shown, k)', NoneOpen(shown, k)'
        PROVE  live = Window!EmptyLive
    <3>1. shown \in Sessions /\ k \in 0..Len(log[shown])
      BY <1>1, <2>4 DEF WindowInv, WindowTyped, ShownFits
    <3>2. Reached(shown, k)
      BY <1>1, <2>2, <2>4, <3>1
    <3>3. NoneOpen(shown, k)
      BY <1>1, <2>4 DEF NoneOpen
    <3> QED
      BY <2>4, <3>1, <3>2, <3>3 DEF WindowInv, Settled
  <2> QED
    BY <1>1, <2>3, <2>4 DEF WindowInv, Settled
<1>11. Window!NoneTwice'
  BY <1>1 DEF WindowInv, Window!NoneTwice
<1> QED
  BY <1>7, <1>8, <1>9, <1>10, <1>11 DEF WindowInv

-----------------------------------------------------------------------------
\* Another session is shown, or none: nothing is left of the one before.
LEMMA ShownAnew ==
  ASSUME WindowInv, UNCHANGED <<log, wire>>, TabsFit', ReadsFit', reads' \in Seq(Reads),
         \A i \in DOMAIN reads : i \in DOMAIN reads' /\ reads'[i] = reads[i],
         shown' \in Sessions \cup {"none"}, loaded' = FALSE, view' = <<>>, details' = {}, live' = Window!EmptyLive
  PROVE  WindowInv'
<1>1. LiveFits'
  BY DEF LiveFits, Window!EmptyLive
<1>5. ShownFits'
  <2>1. view' \in Seq(DOMAIN log'[shown']) /\ details' = {}
    OBVIOUS
  <2> QED
    BY <2>1 DEF ShownFits, IsDispatch
<1>2. WindowTyped'
  BY <1>1, <1>5 DEF WindowInv, WindowTyped
<1>3. WireTypes' /\ WireOrder'
  BY DEF WindowInv, WireTypes, WireOrder
<1>4. Settled' /\ Window!NoneTwice'
  BY DEF WindowInv, Settled, Reached, IsEvent, Window!NoneTwice
<1> QED
  BY <1>2, <1>3, <1>4 DEF WindowInv

LEMMA ShowKeeps ==
  ASSUME WindowInv, NEW s \in Sessions, NEW open \in Seq(Sessions), Window!IsInjective(open),
         Window!Show(s, open), UNCHANGED <<log, wire>>
  PROVE  WindowInv'
<1> DEFINE call0 == [session |-> s, at |-> "extras", extras |-> Window!Dispatches(s), upto |-> 0]
<1>1. /\ tabs' = open /\ shown' = s /\ loaded' = FALSE /\ view' = <<>> /\ details' = {}
      /\ live' = Window!EmptyLive /\ reads' = Append(reads, call0)
  BY DEF Window!Show
<1>2. /\ log \in [Sessions -> Seq(Window!Kinds)] /\ reads \in Seq(Reads)
      /\ DOMAIN log[s] = 1..Len(log[s]) /\ Len(log[s]) \in Nat
  BY DEF WindowInv, WindowTyped, WireTypes
<1>3. call0 \in Reads /\ call0.session = s /\ call0.upto = 0 /\ \A n \in call0.extras : IsDispatch(s, n)
  BY <1>2 DEF Reads, Window!Dispatches, IsDispatch
<1> HIDE DEF call0
<1>4. /\ reads' \in Seq(Reads)
      /\ \A i \in DOMAIN reads : i \in DOMAIN reads' /\ reads'[i] = reads[i]
      /\ \A i \in DOMAIN reads' : (i \in DOMAIN reads /\ reads'[i] = reads[i]) \/ reads'[i] = call0
  BY <1>1, <1>2, <1>3
<1>5. ReadsFit'
  <2> SUFFICES ASSUME NEW i \in DOMAIN reads'
               PROVE  /\ reads'[i] \in Reads /\ \A n \in reads'[i].extras : IsDispatch(reads'[i].session, n)
                      /\ reads'[i].upto <= Len(log[reads'[i].session])
    BY DEF ReadsFit, IsDispatch
  <2>1. CASE i \in DOMAIN reads /\ reads'[i] = reads[i]
    BY <2>1, ReadsTyped DEF IsDispatch
  <2>2. CASE reads'[i] = call0
    <3>1. 0 <= Len(log[s])
      BY <1>2
    <3> QED
      BY <1>3, <2>2, <3>1 DEF IsDispatch
  <2> QED
    BY <1>4, <2>1, <2>2
<1>6. TabsFit'
  BY <1>1 DEF TabsFit, Window!IsInjective
<1> QED
  BY <1>1, <1>4, <1>5, <1>6, ShownAnew

LEMMA OpenKeeps ==
  ASSUME WindowInv, NEW s \in Sessions, Window!OpenSession(s) PROVE WindowInv'
<1> DEFINE open == IF s \in Window!ToSet(tabs) THEN tabs ELSE Append(tabs, s)
<1>1. tabs \in Seq(Sessions) /\ Window!IsInjective(tabs)
  BY DEF WindowInv, WindowTyped, TabsFit
<1>2. open \in Seq(Sessions) /\ Window!IsInjective(open)
  <2>1. CASE s \in Window!ToSet(tabs)
    BY <1>1, <2>1
  <2>2. CASE s \notin Window!ToSet(tabs)
    <3>1. /\ open = Append(tabs, s) /\ open \in Seq(Sessions)
          /\ DOMAIN open = 1..Len(tabs) + 1 /\ open[Len(tabs) + 1] = s
          /\ \A i \in 1..Len(tabs) : open[i] = tabs[i] /\ open[i] # s
          /\ DOMAIN tabs = 1..Len(tabs) /\ Len(tabs) \in Nat
      BY <1>1, <2>2 DEF Window!ToSet
    <3> HIDE DEF open
    <3>2. \A i \in DOMAIN open : i \in 1..Len(tabs) \/ i = Len(tabs) + 1
      BY <3>1
    <3> QED
      BY <1>1, <3>1, <3>2 DEF Window!IsInjective
  <2> QED
    BY <2>1, <2>2
<1>3. Window!Show(s, open) /\ UNCHANGED <<log, wire>>
  BY DEF Window!OpenSession
<1> HIDE DEF open
<1> QED
  BY <1>2, <1>3, ShowKeeps

LEMMA CloseKeeps ==
  ASSUME WindowInv, NEW s \in Sessions, Window!CloseTab(s) PROVE WindowInv'
<1>1. tabs \in Seq(Sessions) /\ Window!IsInjective(tabs) /\ UNCHANGED <<log, wire>>
  BY DEF WindowInv, WindowTyped, TabsFit, Window!CloseTab
<1>2. PICK i \in DOMAIN tabs :
        LET rest == Window!RemoveAt(tabs, i) IN
        \/ s # shown /\ tabs' = rest /\ UNCHANGED <<reads, shown, loaded, view, details, live>>
        \/ s = shown /\ rest # <<>> /\ Window!Show(Window!Last(rest), rest)
        \/ /\ s = shown /\ rest = <<>>
           /\ tabs' = rest /\ shown' = "none" /\ loaded' = FALSE /\ view' = <<>>
           /\ details' = {} /\ live' = Window!EmptyLive /\ UNCHANGED reads
  BY DEF Window!CloseTab
<1> DEFINE rest == Window!RemoveAt(tabs, i)
<1>3. rest \in Seq(Sessions) /\ Window!IsInjective(rest)
  <2> DEFINE front == SubSeq(tabs, 1, i - 1)
             back == SubSeq(tabs, i + 1, Len(tabs))
  <2>1. /\ i \in 1..Len(tabs) /\ Len(tabs) \in Nat /\ DOMAIN tabs = 1..Len(tabs)
        /\ front \in Seq(Sessions) /\ back \in Seq(Sessions)
        /\ Len(front) = i - 1 /\ Len(back) = Len(tabs) - i
        /\ \A j \in 1..i - 1 : front[j] = tabs[j]
        /\ \A j \in 1..Len(tabs) - i : back[j] = tabs[i + j]
    BY <1>1
  <2>2. rest = front \o back
    BY DEF Window!RemoveAt
  <2> HIDE DEF front, back, rest
  <2>6. /\ rest \in Seq(Sessions) /\ Len(rest) = Len(front) + Len(back)
        /\ \A j \in 1..Len(front) + Len(back) : rest[j] = IF j <= Len(front) THEN front[j] ELSE back[j - Len(front)]
    BY <2>1, <2>2, ConcatProperties
  <2>3. /\ rest \in Seq(Sessions) /\ Len(rest) = Len(tabs) - 1 /\ DOMAIN rest = 1..Len(tabs) - 1
        /\ \A j \in 1..i - 1 : rest[j] = tabs[j]
        /\ \A j \in i .. Len(tabs) - 1 : rest[j] = back[j - (i - 1)]
    <3>1. Len(rest) = Len(tabs) - 1 /\ rest \in Seq(Sessions) /\ DOMAIN rest = 1..Len(tabs) - 1
      BY <2>1, <2>6
    <3>2. \A j \in 1..i - 1 : rest[j] = tabs[j]
      BY <2>1, <2>6
    <3>3. \A j \in i .. Len(tabs) - 1 : rest[j] = back[j - (i - 1)]
      BY <2>1, <2>6
    <3> QED
      BY <3>1, <3>2, <3>3
  <2>4. \A j \in i .. Len(tabs) - 1 : rest[j] = tabs[j + 1]
    <3> SUFFICES ASSUME NEW j \in i .. Len(tabs) - 1 PROVE rest[j] = tabs[j + 1]
      OBVIOUS
    <3>1. j - (i - 1) \in 1..Len(tabs) - i /\ i + (j - (i - 1)) = j + 1
      BY <2>1
    <3> QED
      BY <2>1, <2>3, <3>1
  <2>5. ASSUME NEW a \in DOMAIN rest, NEW b \in DOMAIN rest, rest[a] = rest[b] PROVE a = b
    <3> DEFINE x == IF a <= i - 1 THEN a ELSE a + 1
               y == IF b <= i - 1 THEN b ELSE b + 1
    <3>3. \A c \in DOMAIN rest : c \in 1..i - 1 \/ (c \in i .. Len(tabs) - 1 /\ ~ c <= i - 1)
      BY <2>1, <2>3
    <3>4. x \in DOMAIN tabs /\ rest[a] = tabs[x]
      <4>1. CASE a \in 1..i - 1
        BY <2>1, <2>3, <4>1
      <4>2. CASE a \in i .. Len(tabs) - 1 /\ ~ a <= i - 1
        BY <2>1, <2>4, <4>2
      <4> QED
        BY <3>3, <4>1, <4>2
    <3>5. y \in DOMAIN tabs /\ rest[b] = tabs[y]
      BY <2>1, <2>3, <2>4, <3>3
    <3>1. x \in DOMAIN tabs /\ y \in DOMAIN tabs /\ rest[a] = tabs[x] /\ rest[b] = tabs[y]
      BY <3>4, <3>5
    <3>2. x = y
      BY <1>1, <2>5, <3>1 DEF Window!IsInjective
    <3> QED
      BY <2>1, <2>3, <3>2
  <2> QED
    BY <2>3, <2>5 DEF Window!IsInjective
<1>4. \/ s # shown /\ tabs' = rest /\ UNCHANGED <<reads, shown, loaded, view, details, live>>
      \/ rest # <<>> /\ Window!Show(Window!Last(rest), rest)
      \/ /\ tabs' = rest /\ shown' = "none" /\ loaded' = FALSE /\ view' = <<>>
         /\ details' = {} /\ live' = Window!EmptyLive /\ UNCHANGED reads
  BY <1>2
<1> HIDE DEF rest
<1>5. CASE s # shown /\ tabs' = rest /\ UNCHANGED <<reads, shown, loaded, view, details, live>>
  <2>1. WindowTyped'
    BY <1>1, <1>3, <1>5 DEF WindowInv, WindowTyped, TabsFit, ReadsFit, ShownFits, LiveFits, IsDispatch, Window!IsInjective
  <2>2. WireTypes' /\ WireOrder'
    BY <1>1, <1>5 DEF WindowInv, WireTypes, WireOrder
  <2>3. Settled' /\ Window!NoneTwice'
    BY <1>1, <1>5 DEF WindowInv, Settled, Reached, NoneOpen, IsEvent, Window!NoneTwice
  <2> QED
    BY <2>1, <2>2, <2>3 DEF WindowInv
<1>6. CASE rest # <<>> /\ Window!Show(Window!Last(rest), rest)
  <2>1. Window!Last(rest) \in Sessions
    BY <1>3, <1>6 DEF Window!Last
  <2> QED
    BY <1>1, <1>3, <1>6, <2>1, ShowKeeps
<1>7. CASE /\ tabs' = rest /\ shown' = "none" /\ loaded' = FALSE /\ view' = <<>>
           /\ details' = {} /\ live' = Window!EmptyLive /\ UNCHANGED reads
  <2>1. TabsFit'
    BY <1>3, <1>7 DEF TabsFit, Window!IsInjective
  <2>2. ReadsFit' /\ reads' \in Seq(Reads)
    BY <1>1, <1>7 DEF WindowInv, WindowTyped, WireTypes, ReadsFit, IsDispatch
  <2> QED
    BY <1>1, <1>7, <2>1, <2>2, ShownAnew
<1> QED
  BY <1>4, <1>5, <1>6, <1>7

-----------------------------------------------------------------------------
\* The buffer keeps its type, the end of a turn empties it, and what may follow that end
\* leaves it empty.
LEMMA LiveIs ==
  ASSUME LiveFits, NEW of \in Window!Kinds
  PROVE  /\ Window!ApplyLive(live, of) \in [message : {"none", "empty", "text"}, call : {"none", "running"}]
         /\ of = "turn.end" => Window!ApplyLive(live, of) = Window!EmptyLive
         /\ of \in {"message.delta", "tool.code.dispatch"} /\ live = Window!EmptyLive
            => Window!ApplyLive(live, of) = Window!EmptyLive
<1>1. live \in [message : {"none", "empty", "text"}, call : {"none", "running"}]
  BY DEF LiveFits
<1>2. /\ [live EXCEPT !.message = "empty"] \in [message : {"none", "empty", "text"}, call : {"none", "running"}]
      /\ [live EXCEPT !.message = "text"] \in [message : {"none", "empty", "text"}, call : {"none", "running"}]
      /\ [live EXCEPT !.message = "none"] \in [message : {"none", "empty", "text"}, call : {"none", "running"}]
      /\ [live EXCEPT !.call = "running"] \in [message : {"none", "empty", "text"}, call : {"none", "running"}]
      /\ [live EXCEPT !.call = "none"] \in [message : {"none", "empty", "text"}, call : {"none", "running"}]
  BY <1>1
<1>3. /\ Window!EmptyLive \in [message : {"none", "empty", "text"}, call : {"none", "running"}]
      /\ Window!EmptyLive.message = "none"
  BY DEF Window!EmptyLive
<1>4. Window!ApplyLive(live, of) \in [message : {"none", "empty", "text"}, call : {"none", "running"}]
  BY <1>1, <1>2, <1>3 DEF Window!ApplyLive, Window!Kinds
<1>5. of = "turn.end" => Window!ApplyLive(live, of) = Window!EmptyLive
  BY DEF Window!ApplyLive
<1>6. ASSUME of \in {"message.delta", "tool.code.dispatch"}, live = Window!EmptyLive
      PROVE  Window!ApplyLive(live, of) = Window!EmptyLive
  BY <1>3, <1>6 DEF Window!ApplyLive
<1> QED
  BY <1>4, <1>5, <1>6

\* The head is taken off the wire, and what follows it keeps its order.
LEMMA TakenOff ==
  ASSUME WindowInv, Window!Arrives
  PROVE  /\ wire \in Seq(OnWire) /\ 1 \in DOMAIN wire /\ wire' \in Seq(OnWire) /\ Head(wire) = wire[1]
         /\ \A j \in DOMAIN wire' : j + 1 \in DOMAIN wire /\ wire'[j] = wire[j + 1] /\ j \in Nat /\ 1 < j + 1
         /\ \A j \in DOMAIN wire : j = 1 \/ (j - 1 \in DOMAIN wire' /\ wire'[j - 1] = wire[j] /\ 1 < j)
         /\ UNCHANGED <<log, reads, tabs, shown>>
<1>1. wire \in Seq(OnWire) /\ wire # <<>> /\ wire' = Tail(wire) /\ UNCHANGED <<log, reads, tabs, shown>>
  BY DEF WindowInv, WireTypes, Window!Arrives
<1>2. /\ Len(wire) \in Nat /\ Len(wire) > 0 /\ DOMAIN wire = 1..Len(wire) /\ Head(wire) = wire[1]
      /\ wire' \in Seq(OnWire) /\ DOMAIN wire' = 1..Len(wire) - 1
      /\ \A j \in 1..Len(wire) - 1 : wire'[j] = wire[j + 1]
  BY <1>1
<1>3. ASSUME NEW j \in DOMAIN wire' PROVE j + 1 \in DOMAIN wire /\ wire'[j] = wire[j + 1] /\ j \in Nat /\ 1 < j + 1
  BY <1>2, <1>3
<1>4. ASSUME NEW j \in DOMAIN wire, j # 1 PROVE j - 1 \in DOMAIN wire' /\ wire'[j - 1] = wire[j] /\ 1 < j
  <2>1. j - 1 \in 1..Len(wire) - 1 /\ (j - 1) + 1 = j /\ 1 < j
    BY <1>2, <1>4
  <2> QED
    BY <1>2, <2>1
<1> QED
  BY <1>1, <1>2, <1>3, <1>4

\* What is still on the wire keeps its types and its order.
LEMMA WireShifts ==
  ASSUME WindowInv, Window!Arrives
  PROVE  /\ WireTypes'
         /\ \A i, j \in DOMAIN wire' :
              i < j /\ wire'[i].what = "event" /\ wire'[j].what = "event" /\ wire'[i].session = wire'[j].session =>
                wire'[i].n < wire'[j].n
         /\ \A i, j \in DOMAIN wire' :
              /\ i < j /\ wire'[i].what # "event" /\ wire'[j].what = "event"
              /\ reads[wire'[i].read].session = wire'[j].session
              => reads[wire'[i].read].upto < wire'[j].n
<1> USE TakenOff
<1>1. WireTypes'
  BY DEF WindowInv, WireTypes
<1>2. \A i, j \in DOMAIN wire' : i < j => i + 1 < j + 1
  OBVIOUS
<1>3. \A i, j \in DOMAIN wire' :
        i < j /\ wire'[i].what = "event" /\ wire'[j].what = "event" /\ wire'[i].session = wire'[j].session =>
          wire'[i].n < wire'[j].n
  BY <1>2 DEF WindowInv, WireOrder
<1>4. \A i, j \in DOMAIN wire' :
        /\ i < j /\ wire'[i].what # "event" /\ wire'[j].what = "event"
        /\ reads[wire'[i].read].session = wire'[j].session
        => reads[wire'[i].read].upto < wire'[j].n
  <2> SUFFICES ASSUME NEW i \in DOMAIN wire', NEW j \in DOMAIN wire', i < j, wire'[i].what # "event",
                      wire'[j].what = "event", reads[wire'[i].read].session = wire'[j].session
               PROVE  reads[wire'[i].read].upto < wire'[j].n
    OBVIOUS
  <2>1. /\ i + 1 \in DOMAIN wire /\ wire'[i] = wire[i + 1] /\ i + 1 < j + 1
        /\ j + 1 \in DOMAIN wire /\ wire'[j] = wire[j + 1]
    BY <1>2
  <2> QED
    BY <2>1 DEF WindowInv, WireOrder
<1> QED
  BY <1>1, <1>3, <1>4

\* A reply is taken: the state it holds is older than what is still to come.
LEMMA ReplyKeeps ==
  ASSUME WindowInv, Window!Arrives, Head(wire).what # "event" PROVE WindowInv'
<1> DEFINE r == Head(wire).read
<1>1. Window!Loads(r) /\ live' = live
  BY DEF Window!Arrives
<1>2. /\ r \in DOMAIN reads /\ wire[1].read = r /\ wire[1].what # "event"
      /\ reads[r] \in Reads /\ reads[r].session \in Sessions /\ reads[r].upto \in Nat
      /\ \A n \in reads[r].extras : IsDispatch(reads[r].session, n)
      /\ reads[r].upto <= Len(log[reads[r].session])
  <2>1. r \in DOMAIN reads /\ wire[1].read = r /\ wire[1].what # "event"
    BY TakenOff DEF WindowInv, WireTypes
  <2> QED
    BY <2>1, ReadsTyped DEF IsDispatch
<1> HIDE DEF r
<1>3. /\ log \in [Sessions -> Seq(Window!Kinds)] /\ UNCHANGED <<log, reads, tabs, shown>>
  BY TakenOff DEF WindowInv, WindowTyped
<1>4. ReadsFit' /\ TabsFit' /\ LiveFits'
  BY <1>1, <1>3 DEF WindowInv, WindowTyped, ReadsFit, TabsFit, LiveFits, IsDispatch
<1>5. ASSUME NEW s \in Sessions, NEW k \in 0..Len(log[s]), Reached(s, k)' PROVE Reached(s, k)
  <2>1. \A n : (\E j \in DOMAIN wire' : wire'[j].what = "event" /\ wire'[j].session = s /\ wire'[j].n = n)
               <=> (\E j \in DOMAIN wire : wire[j].what = "event" /\ wire[j].session = s /\ wire[j].n = n)
    BY <1>2, TakenOff
  <2> QED
    BY <1>3, <1>5, <2>1 DEF Reached, IsEvent
<1>6. ASSUME NEW s \in Sessions, NEW k \in 0..Len(log[s]), Reached(s, k) PROVE Reached(s, k)'
  <2>1. \A n : (\E j \in DOMAIN wire' : wire'[j].what = "event" /\ wire'[j].session = s /\ wire'[j].n = n)
               <=> (\E j \in DOMAIN wire : wire[j].what = "event" /\ wire[j].session = s /\ wire[j].n = n)
    BY <1>2, TakenOff
  <2> QED
    BY <1>3, <1>6, <2>1 DEF Reached, IsEvent
<1>7. (loaded' = loaded \/ loaded' = TRUE) => Settled'
  <2> SUFFICES ASSUME loaded' = loaded \/ loaded' = TRUE PROVE Settled'
    OBVIOUS
  <2>1. \A s \in Sessions : \E k \in 0..Len(log'[s]) : Reached(s, k)'
    BY <1>3, <1>6 DEF WindowInv, Settled
  <2>2. ASSUME shown # "none", NEW k \in 0..Len(log'[shown]), Reached(shown, k)', NoneOpen(shown, k)'
        PROVE  live' = Window!EmptyLive
    <3>1. shown \in Sessions /\ k \in 0..Len(log[shown]) /\ Reached(shown, k)'
      BY <1>3, <2>2 DEF WindowInv, WindowTyped, ShownFits
    <3>2. Reached(shown, k)
      BY <1>3, <1>5, <3>1
    <3>3. NoneOpen(shown, k)
      BY <1>3, <2>2 DEF NoneOpen
    <3> QED
      BY <1>1, <1>3, <2>2, <3>1, <3>2, <3>3 DEF WindowInv, Settled
  <2>3. ~ loaded' => live' = Window!EmptyLive
    BY <1>1 DEF WindowInv, Settled
  <2> QED
    BY <1>3, <2>1, <2>2, <2>3 DEF Settled
<1>8. CASE shown # reads[r].session
  <2>1. UNCHANGED <<loaded, view, details>>
    BY <1>1, <1>8 DEF Window!Loads
  <2>2. ShownFits'
    BY <1>3, <2>1 DEF WindowInv, WindowTyped, ShownFits, IsDispatch
  <2>3. WireOrder'
    <3>1. loaded => \A j \in DOMAIN wire' : wire'[j].what = "event" /\ wire'[j].session = shown =>
                     \A k \in DOMAIN view : view[k] < wire'[j].n
      BY TakenOff DEF WindowInv, WireOrder
    <3> QED
      BY <1>3, <2>1, <3>1, WireShifts DEF WireOrder
  <2>4. Window!NoneTwice'
    BY <2>1 DEF WindowInv, Window!NoneTwice
  <2>5. WindowTyped'
    BY <1>3, <1>4, <2>2 DEF WindowTyped
  <2> QED
    BY <1>7, <2>1, <2>3, <2>4, <2>5, WireShifts DEF WindowInv
<1>9. CASE shown = reads[r].session
  <2> DEFINE top == reads[r].upto
  <2>1. loaded' = TRUE /\ details' = reads[r].extras /\ view' = [n \in 1..top |-> n]
    BY <1>1, <1>9 DEF Window!Loads
  <2>2. /\ top \in Nat /\ top <= Len(log[shown]) /\ shown \in Sessions /\ Len(log[shown]) \in Nat
        /\ DOMAIN log[shown] = 1..Len(log[shown]) /\ \A n \in reads[r].extras : IsDispatch(shown, n)
    BY <1>2, <1>3, <1>9 DEF IsDispatch
  <2> HIDE DEF top
  <2>3. view' \in Seq(DOMAIN log[shown]) /\ DOMAIN view' = 1..top /\ \A k \in 1..top : view'[k] = k
    <3>1. \A n \in 1..top : n \in DOMAIN log[shown]
      BY <2>2
    <3> QED
      BY <2>1, <2>2, <3>1
  <2>4. ShownFits'
    <3>1. \A n \in details' : IsDispatch(shown, n)'
      BY <1>3, <2>1, <2>2 DEF IsDispatch
    <3>2. shown' \in Sessions /\ loaded' \in BOOLEAN /\ view' \in Seq(DOMAIN log'[shown']) /\ shown' # "none"
      BY <1>3, <2>1, <2>2, <2>3, DesktopAssumption DEF DesktopAssumption
    <3> QED
      BY <1>3, <3>1, <3>2 DEF ShownFits, IsDispatch
  <2>5. WireOrder'
    <3>1. ASSUME NEW j \in DOMAIN wire', wire'[j].what = "event", wire'[j].session = shown, NEW k \in DOMAIN view'
          PROVE  view'[k] < wire'[j].n
      <4>1. j + 1 \in DOMAIN wire /\ wire'[j] = wire[j + 1] /\ 1 < j + 1 /\ 1 \in DOMAIN wire
        BY TakenOff
      <4>2. top < wire'[j].n
        BY <1>2, <1>9, <3>1, <4>1 DEF WindowInv, WireOrder, top
      <4>3. wire'[j].n \in Nat
        <5>1. wire[j + 1] \in OnWire
          BY <4>1, TakenOff
        <5> QED
          BY <4>1, <5>1 DEF OnWire
      <4>4. view'[k] = k /\ k \in 1..top
        BY <2>3
      <4> QED
        BY <2>2, <4>2, <4>3, <4>4
    <3> QED
      BY <1>3, <3>1, WireShifts DEF WireOrder
  <2>6. Window!NoneTwice'
    BY <2>2, <2>3 DEF Window!NoneTwice
  <2>7. WindowTyped'
    BY <1>3, <1>4, <2>4 DEF WindowTyped
  <2> QED
    BY <1>7, <2>1, <2>5, <2>6, <2>7, WireShifts DEF WindowInv
<1> QED
  BY <1>8, <1>9

\* An event is taken off the wire: it is the next of its session.
LEMMA NextOfSession ==
  ASSUME WindowInv, Window!Arrives, NEW s \in Sessions, NEW n, Head(wire).what = "event",
         Head(wire).session = s, Head(wire).n = n
  PROVE  /\ n \in 1..Len(log[s]) /\ DOMAIN log[s] = 1..Len(log[s]) /\ Len(log[s]) \in Nat
         /\ Reached(s, n - 1) /\ Reached(s, n)'
         /\ \A k \in 0..Len(log[s]) : Reached(s, k)' => k = n
         /\ \A j \in DOMAIN wire' : wire'[j].what = "event" /\ wire'[j].session = s => n < wire'[j].n
<1>1. log \in [Sessions -> Seq(Window!Kinds)] /\ log' = log
  BY TakenOff DEF WindowInv, WindowTyped
<1>2. /\ wire[1].what = "event" /\ wire[1].session = s /\ wire[1].n = n /\ 1 \in DOMAIN wire
      /\ n \in DOMAIN log[s]
  BY TakenOff DEF WindowInv, WireTypes
<1>3. n \in 1..Len(log[s]) /\ DOMAIN log[s] = 1..Len(log[s]) /\ Len(log[s]) \in Nat
  BY <1>1, <1>2
<1>4. ASSUME NEW j \in DOMAIN wire, j # 1, wire[j].what = "event", wire[j].session = s
      PROVE  n < wire[j].n
  BY <1>2, <1>4, TakenOff DEF WindowInv, WireOrder
<1>5. \A j \in DOMAIN wire' : wire'[j].what = "event" /\ wire'[j].session = s => n < wire'[j].n
  BY <1>4, TakenOff
<1>6. PICK k \in 0..Len(log[s]) : Reached(s, k)
  BY DEF WindowInv, Settled
<1>7. \A x \in 1..Len(log[s]) : x > k <=> \E j \in DOMAIN wire : wire[j].what = "event" /\ wire[j].session = s /\ wire[j].n = x
  BY <1>3, <1>6 DEF Reached, IsEvent
<1>8. k = n - 1
  <2>1. n > k
    BY <1>2, <1>3, <1>7
  <2>2. k + 1 \in 1..Len(log[s]) /\ k + 1 > k
    BY <1>3, <2>1
  <2>3. PICK j \in DOMAIN wire : wire[j].what = "event" /\ wire[j].session = s /\ wire[j].n = k + 1
    BY <1>7, <2>2
  <2>4. n <= k + 1
    BY <1>2, <1>3, <1>4, <2>3
  <2> QED
    BY <1>3, <2>1, <2>4
<1>9. \A x \in 1..Len(log[s]) :
        x > n <=> \E j \in DOMAIN wire' : wire'[j].what = "event" /\ wire'[j].session = s /\ wire'[j].n = x
  <2> TAKE x \in 1..Len(log[s])
  <2>1. ASSUME x > n PROVE \E j \in DOMAIN wire' : wire'[j].what = "event" /\ wire'[j].session = s /\ wire'[j].n = x
    <3>1. x > k
      BY <1>3, <1>8, <2>1
    <3>2. PICK j \in DOMAIN wire : wire[j].what = "event" /\ wire[j].session = s /\ wire[j].n = x
      BY <1>7, <3>1
    <3>3. j # 1
      BY <1>2, <1>3, <2>1, <3>2
    <3> QED
      BY <3>2, <3>3, TakenOff
  <2>2. ASSUME NEW j \in DOMAIN wire', wire'[j].what = "event", wire'[j].session = s, wire'[j].n = x PROVE x > n
    BY <1>3, <1>5, <2>2
  <2> QED
    BY <2>1, <2>2
<1>10. Reached(s, n)'
  BY <1>1, <1>3, <1>9 DEF Reached, IsEvent
<1>11. ASSUME NEW h \in 0..Len(log[s]), Reached(s, h)' PROVE h = n
  <2>1. \A x \in 1..Len(log[s]) :
          x > h <=> \E j \in DOMAIN wire' : wire'[j].what = "event" /\ wire'[j].session = s /\ wire'[j].n = x
    BY <1>1, <1>3, <1>11 DEF Reached, IsEvent
  <2>2. \A x \in 1..Len(log[s]) : x > h <=> x > n
    BY <1>9, <2>1
  <2>3. ~ h > n
    <3> SUFFICES ASSUME h > n PROVE FALSE
      OBVIOUS
    <3>1. h \in 1..Len(log[s])
      BY <1>3
    <3> QED
      BY <1>3, <2>2, <3>1
  <2>4. ~ n > h
    BY <1>3, <2>2
  <2> QED
    BY <1>3, <2>3, <2>4
<1>12. Reached(s, n - 1)
  BY <1>6, <1>8
<1> QED
  BY <1>3, <1>5, <1>10, <1>11, <1>12

\* It is left out, or it is added to what is shown, and a turn that is over leaves nothing.
LEMMA EventKeeps ==
  ASSUME WindowInv, Window!Arrives, Head(wire).what = "event" PROVE WindowInv'
<1>0. PICK s \in Sessions, n \in Nat : Head(wire).session = s /\ Head(wire).n = n
  <2>1. wire[1] \in OnWire /\ Head(wire) = wire[1]
    BY TakenOff
  <2> QED
    BY <2>1 DEF OnWire
<1>1. Window!ApplyEvent(s, n) /\ UNCHANGED <<log, reads, tabs, shown, loaded>>
  BY <1>0, TakenOff DEF Window!Arrives
<1>2. s \in Sessions /\ log \in [Sessions -> Seq(Window!Kinds)] /\ n \in DOMAIN log[s]
  BY <1>0, TakenOff DEF WindowInv, WindowTyped, WireTypes
<1>3. /\ n \in 1..Len(log[s]) /\ DOMAIN log[s] = 1..Len(log[s]) /\ Len(log[s]) \in Nat
      /\ Reached(s, n - 1) /\ Reached(s, n)'
      /\ \A k \in 0..Len(log[s]) : Reached(s, k)' => k = n
      /\ \A j \in DOMAIN wire' : wire'[j].what = "event" /\ wire'[j].session = s => n < wire'[j].n
  BY <1>0, NextOfSession
<1>4. /\ wire[1].session = s /\ wire[1].n = n /\ wire[1].what = "event" /\ 1 \in DOMAIN wire
  BY <1>0, TakenOff
<1>5. ASSUME NEW t \in Sessions \ {s}, NEW k \in 0..Len(log[t]) PROVE Reached(t, k)' <=> Reached(t, k)
  <2>1. \A x : (\E j \in DOMAIN wire' : wire'[j].what = "event" /\ wire'[j].session = t /\ wire'[j].n = x)
               <=> (\E j \in DOMAIN wire : wire[j].what = "event" /\ wire[j].session = t /\ wire[j].n = x)
    BY <1>4, <1>5, TakenOff
  <2> QED
    BY <1>1, <2>1 DEF Reached, IsEvent
<1>6. \A t \in Sessions : \E k \in 0..Len(log'[t]) : Reached(t, k)'
  <2> SUFFICES ASSUME NEW t \in Sessions PROVE \E k \in 0..Len(log'[t]) : Reached(t, k)'
    OBVIOUS
  <2>1. CASE t = s
    <3>1. n \in 0..Len(log'[t])
      BY <1>1, <1>3, <2>1
    <3> QED
      BY <1>3, <2>1, <3>1
  <2>2. CASE t # s
    <3>1. PICK k \in 0..Len(log[t]) : Reached(t, k)
      BY DEF WindowInv, Settled
    <3> QED
      BY <1>1, <1>5, <2>2, <3>1
  <2> QED
    BY <2>1, <2>2
<1>7. CASE shown # s \/ ~ loaded
  <2>1. UNCHANGED <<view, details, live>>
    BY <1>1, <1>7 DEF Window!ApplyEvent
  <2>2. WindowTyped'
    BY <1>1, <2>1 DEF WindowInv, WindowTyped, ReadsFit, TabsFit, ShownFits, LiveFits, IsDispatch
  <2>3. WireOrder'
    <3>1. loaded => \A j \in DOMAIN wire' : wire'[j].what = "event" /\ wire'[j].session = shown =>
                     \A k \in DOMAIN view : view[k] < wire'[j].n
      BY TakenOff DEF WindowInv, WireOrder
    <3> QED
      BY <1>1, <2>1, <3>1, WireShifts DEF WireOrder
  <2>4. ASSUME shown # "none", NEW k \in 0..Len(log'[shown]), Reached(shown, k)', NoneOpen(shown, k)'
        PROVE  live' = Window!EmptyLive
    <3>1. CASE ~ loaded
      BY <2>1, <3>1 DEF WindowInv, Settled
    <3>2. CASE shown # s
      <4>1. shown \in Sessions \ {s} /\ k \in 0..Len(log[shown])
        BY <1>1, <2>4, <3>2 DEF WindowInv, WindowTyped, ShownFits
      <4>2. Reached(shown, k)
        BY <1>1, <1>5, <2>4, <4>1
      <4>3. NoneOpen(shown, k)
        BY <1>1, <2>4 DEF NoneOpen
      <4> QED
        BY <2>1, <2>4, <4>1, <4>2, <4>3 DEF WindowInv, Settled
    <3> QED
      BY <1>7, <3>1, <3>2
  <2>5. ~ loaded' => live' = Window!EmptyLive
    BY <1>1, <2>1 DEF WindowInv, Settled
  <2>6. Settled'
    BY <1>1, <1>6, <2>4, <2>5 DEF Settled
  <2>7. Window!NoneTwice'
    BY <2>1 DEF WindowInv, Window!NoneTwice
  <2> QED
    BY <2>2, <2>3, <2>6, <2>7, WireShifts DEF WindowInv
<1>8. CASE shown = s /\ loaded
  <2>1. /\ view' = Append(view, n)
        /\ details' = (IF log[s][n] = "tool.code.dispatch" THEN details \cup {n} ELSE details)
        /\ live' = Window!ApplyLive(live, log[s][n])
    BY <1>1, <1>8 DEF Window!ApplyEvent
  <2>2. /\ shown # "none" /\ view \in Seq(DOMAIN log[s]) /\ LiveFits
        /\ \A x \in details : x \in DOMAIN log[s] /\ log[s][x] = "tool.code.dispatch"
    BY <1>2, <1>8, DesktopAssumption DEF DesktopAssumption, WindowInv, WindowTyped, ShownFits, IsDispatch
  <2>3. log[s][n] \in Window!Kinds
    BY <1>2
  <2>4. LiveFits'
    BY <2>1, <2>2, <2>3, LiveIs DEF LiveFits
  <2>5. /\ view' \in Seq(DOMAIN log[s]) /\ Len(view) \in Nat /\ DOMAIN view = 1..Len(view)
        /\ DOMAIN view' = 1..Len(view) + 1 /\ view'[Len(view) + 1] = n
        /\ \A k \in 1..Len(view) : view'[k] = view[k] /\ view[k] \in DOMAIN log[s]
    BY <1>2, <2>1, <2>2
  <2>6. WindowTyped'
    <3>1. \A x \in details' : x \in DOMAIN log[s] /\ log[s][x] = "tool.code.dispatch"
      BY <1>2, <2>1, <2>2
    <3>2. ShownFits'
      BY <1>1, <1>2, <1>8, <2>2, <2>5, <3>1 DEF ShownFits, IsDispatch
    <3> QED
      BY <1>1, <2>4, <3>2 DEF WindowInv, WindowTyped, ReadsFit, TabsFit, IsDispatch
  <2>7. \A k \in 1..Len(view) : view[k] < n
    BY <1>4, <1>8, <2>5 DEF WindowInv, WireOrder
  <2>8. \A k \in DOMAIN view' : k \in 1..Len(view) \/ k = Len(view) + 1
    BY <2>5
  <2>9. WireOrder'
    <3>1. ASSUME NEW j \in DOMAIN wire', wire'[j].what = "event", wire'[j].session = s, NEW k \in DOMAIN view'
          PROVE  view'[k] < wire'[j].n
      <4>1. n < wire'[j].n
        BY <1>3, <3>1
      <4>2. wire'[j].n \in Nat
        <5>1. wire'[j] \in OnWire
          BY TakenOff
        <5> QED
          BY <5>1 DEF OnWire
      <4>3. CASE k = Len(view) + 1
        BY <2>5, <4>1, <4>3
      <4>4. CASE k \in 1..Len(view)
        BY <1>3, <2>5, <2>7, <4>1, <4>2, <4>4
      <4> QED
        BY <2>8, <4>3, <4>4
    <3> QED
      BY <1>1, <1>8, <3>1, WireShifts DEF WireOrder
  <2>10. ASSUME NEW k \in 0..Len(log'[s]), Reached(s, k)', NoneOpen(s, k)' PROVE live' = Window!EmptyLive
    <3>1. k = n
      BY <1>1, <1>3, <2>10
    <3>2. PICK least \in 0..n : /\ least = 0 \/ log[s][least] = "turn.end"
                                /\ \A m \in least + 1 .. n : log[s][m] \in {"message.delta", "tool.code.dispatch"}
      BY <1>1, <2>10, <3>1 DEF NoneOpen
    <3>3. CASE least = n
      BY <1>3, <2>1, <2>2, <2>3, <3>2, <3>3, LiveIs
    <3>4. CASE least # n
      <4>1. least \in 0..n - 1 /\ n \in least + 1 .. n /\ \A m \in least + 1 .. n - 1 : m \in least + 1 .. n
        BY <1>3, <3>4
      <4>2. NoneOpen(s, n - 1)
        BY <3>2, <4>1 DEF NoneOpen
      <4>3. live = Window!EmptyLive
        <5>1. n - 1 \in 0..Len(log[s])
          BY <1>3
        <5>2. NoneOpen(shown, n - 1) /\ Reached(shown, n - 1)
          BY <1>3, <1>8, <4>2
        <5> QED
          BY <1>8, <2>2, <5>1, <5>2 DEF WindowInv, Settled
      <4> QED
        BY <2>1, <2>2, <2>3, <3>2, <4>1, <4>3, LiveIs
    <3> QED
      BY <3>3, <3>4
  <2>11. Settled'
    <3>1. shown' # "none" => \A k \in 0..Len(log'[shown]) : Reached(shown, k)' /\ NoneOpen(shown, k)' => live' = Window!EmptyLive
      BY <1>1, <1>8, <2>10
    <3> QED
      BY <1>1, <1>6, <1>8, <3>1 DEF Settled
  <2>12. Window!NoneTwice'
    <3>1. ASSUME NEW i \in DOMAIN view', NEW j \in DOMAIN view', i < j PROVE view'[i] < view'[j]
      <4>1. i \in 1..Len(view)
        BY <2>5, <3>1
      <4>2. CASE j = Len(view) + 1
        BY <2>5, <2>7, <4>1, <4>2
      <4>3. CASE j \in 1..Len(view)
        BY <2>5, <3>1, <4>1, <4>3 DEF WindowInv, Window!NoneTwice
      <4> QED
        BY <2>8, <4>2, <4>3
    <3> QED
      BY <3>1 DEF Window!NoneTwice
  <2> QED
    BY <2>6, <2>9, <2>11, <2>12, WireShifts DEF WindowInv
<1> QED
  BY <1>7, <1>8

LEMMA WindowKept == WindowInv /\ [MachinesNext]_machineVars => WindowInv'
<1> SUFFICES ASSUME WindowInv, [MachinesNext]_machineVars PROVE WindowInv'
  OBVIOUS
<1>1. Window!Next \/ UNCHANGED windowVars
  BY DEF MachinesNext, Moves, machineVars
<1>2. CASE UNCHANGED windowVars
  <2> USE <1>2 DEF windowVars
  <2>1. WindowTyped'
    BY DEF WindowInv, WindowTyped, ReadsFit, TabsFit, ShownFits, LiveFits, IsDispatch
  <2>2. WireTypes' /\ WireOrder'
    BY DEF WindowInv, WireTypes, WireOrder
  <2>3. Window!NoneTwice'
    BY DEF WindowInv, Window!NoneTwice
  <2>4. Settled'
    BY DEF WindowInv, Settled, Reached, NoneOpen, IsEvent
  <2> QED
    BY <2>1, <2>2, <2>3, <2>4 DEF WindowInv
<1>3. CASE Window!Next
  <2>1. CASE \E s \in Sessions : Window!Publish(s) \/ Window!OpenSession(s) \/ Window!CloseTab(s)
    BY <2>1, PublishKeeps, OpenKeeps, CloseKeeps
  <2>2. CASE \E i \in DOMAIN reads : Window!Answer(i) \/ Window!Post(i)
    BY <2>2, AnswerKeeps, PostKeeps
  <2>3. CASE Window!Arrives
    BY <2>3, ReplyKeeps, EventKeeps
  <2> QED
    BY <1>3, <2>1, <2>2, <2>3 DEF Window!Next
<1> QED
  BY <1>1, <1>2, <1>3

\* With nothing on the wire every event of the session shown was taken.
LEMMA WindowIsRight == WindowInv => Window!TypeOK /\ Window!NoneTwice /\ Window!LiveSettles
<1> SUFFICES ASSUME WindowInv PROVE Window!TypeOK /\ Window!NoneTwice /\ Window!LiveSettles
  OBVIOUS
<1>1. log \in [Sessions -> Seq(Window!Kinds)]
  BY DEF WindowInv, WindowTyped
<1>2. Window!TypeOK
  <2>1. ASSUME NEW i \in DOMAIN reads
        PROVE  /\ reads[i] \in [session : Sessions, at : {"extras", "taken", "posted"},
                                extras : SUBSET Nat, upto : Nat]
               /\ reads[i].extras \subseteq Window!Dispatches(reads[i].session)
               /\ reads[i].upto <= Len(log[reads[i].session])
    BY <2>1, ReadsTyped DEF Reads, IsDispatch, Window!Dispatches
  <2>2. shown = "none" => view = <<>> /\ details = {}
    BY DEF WindowInv, WindowTyped, ShownFits
  <2>3. shown # "none" => view \in Seq(DOMAIN log[shown]) /\ details \subseteq Window!Dispatches(shown)
    BY DEF WindowInv, WindowTyped, ShownFits, IsDispatch, Window!Dispatches
  <2>4. tabs \in Seq(Sessions) /\ Window!IsInjective(tabs)
    BY DEF WindowInv, WindowTyped, TabsFit
  <2>5. shown \in Sessions \cup {"none"} /\ loaded \in BOOLEAN
    BY DEF WindowInv, WindowTyped, ShownFits
  <2>6. live.message \in {"none", "empty", "text"} /\ live.call \in {"none", "running"}
    BY DEF WindowInv, WindowTyped, LiveFits
  <2> QED
    BY <1>1, <2>1, <2>2, <2>3, <2>4, <2>5, <2>6 DEF Window!TypeOK
<1>3. Window!LiveSettles
  <2> SUFFICES ASSUME wire = <<>>, shown # "none", Window!Standing(log[shown]) = "idle"
               PROVE  live = Window!EmptyLive
    BY DEF Window!LiveSettles, Window!Quiet
  <2>1. /\ shown \in Sessions /\ log[shown] \in Seq(Window!Kinds) /\ Len(log[shown]) \in Nat
        /\ DOMAIN log[shown] = 1..Len(log[shown])
    BY <1>1 DEF WindowInv, WindowTyped, ShownFits
  <2>2. Reached(shown, Len(log[shown]))
    BY <2>1 DEF Reached
  <2>3. NoneOpen(shown, Len(log[shown]))
    BY <2>1, StandingIs DEF NoneOpen
  <2> QED
    BY <2>1, <2>2, <2>3 DEF WindowInv, Settled
<1> QED
  BY <1>2, <1>3 DEF WindowInv

\* The window holds no event twice or out of order, and when nothing is on its way and the turn
\* is over it shows nothing as under way (renderer/store.ts, kernel/src/state/live-buffer.ts).
THEOREM WindowCorrect == MachinesSpec => []WindowSettles
<1>1. MachinesInit => TypeOK /\ WindowInv
  <2>1. MachinesInit => TypeOK
    <3> SUFFICES ASSUME MachinesInit PROVE TypeOK
      OBVIOUS
    <3>1. Init
      BY DEF MachinesInit
    <3>2. turns = <<>> /\ Len(turns) = 0 /\ turns \in Seq(Nat) /\ MaxStarts \in Nat
      BY <3>1, DesktopAssumption DEF Init, DesktopAssumption
    <3>3. req \in [Requests -> [op : Ops \cup {"none"}, at : Places]]
      BY <3>1 DEF Init, Fresh, Free, Places
    <3>4. drives \in [Holders -> 0..Len(turns)]
      BY <3>1, <3>2 DEF Init, Fresh
    <3>5. current \in 0..Len(turns) /\ starts \in 0..MaxStarts
      BY <3>1, <3>2 DEF Init
    <3>6. /\ host \in {"up", "closing", "down"} /\ runtime \in {"absent", "opening", "open", "closed"}
          /\ offered \in BOOLEAN /\ running \in Holders \cup {"none"} /\ aborted \subseteq Holders
          /\ agent \in {"idle", "starting", "turn"} /\ queued \in BOOLEAN
      BY <3>1 DEF Init, Fresh
    <3> QED
      BY <3>2, <3>3, <3>4, <3>5, <3>6 DEF TypeOK
  <2> QED
    BY <2>1, WindowStarts
<1>2. (TypeOK /\ WindowInv) /\ [MachinesNext]_machineVars => (TypeOK /\ WindowInv)'
  BY HostTyped, WindowKept
<1>3. TypeOK /\ WindowInv => WindowSettles
  BY WindowIsRight DEF WindowSettles
<1> QED
  BY <1>1, <1>2, <1>3, PTL DEF MachinesSpec
=============================================================================
