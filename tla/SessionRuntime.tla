--------------------------- MODULE SessionRuntime ---------------------------
(***************************************************************************)
(* The life of ONE session's event log: the SQLite event store             *)
(* (packages/storage/src/sqlite-event-store.ts) and the session runtimes   *)
(* (packages/runtime/src/session-runtime.ts) that write to it, in one or   *)
(* several processes that may crash between any two awaits.                *)
(*                                                                         *)
(* A session state is represented by the sequence of the persisted events  *)
(* folded into it: reduce() is deterministic, so two states are equal when *)
(* the folded sequences are.  lastSeq is then the length of that sequence, *)
(* and the seq of an entry of the log is its position.                     *)
(*                                                                         *)
(* One action stands for the code between two awaits.  The store's methods *)
(* are async functions whose bodies are synchronous, so an append, its     *)
(* seq check and the transaction belong to the step that calls it; what    *)
(* follows the await is the next action.                                   *)
(***************************************************************************)
EXTENDS Naturals, Sequences, FiniteSets

CONSTANTS Runtimes,          \* SessionRuntime objects that may be opened
          Procs,             \* process instances; a restart is another one
          ProcOf,            \* the process a runtime lives in
          None,
          SnapshotInterval,  \* persisted events between two snapshots (500)
          ReadPage,          \* rows per page of a read (500)
          MaxCalls           \* bound: record() calls per runtime

ASSUME ConstantsAssumption ==
  /\ ProcOf \in [Runtimes -> Procs]
  /\ None \notin Procs
  /\ SnapshotInterval \in Nat \ {0}
  /\ ReadPage \in Nat \ {0}
  /\ MaxCalls \in [Runtimes -> Nat]

VARIABLES
  \* the database file
  log,          \* rows of events, in seq order
  lease,        \* the session's row of write_leases: the holder, or None
  snapshot,     \* the folded state in the session's row of snapshots
  readable,     \* can that row still be parsed?
  \* the processes
  alive,        \* instances that run
  pids,         \* instances whose pid answers kill(pid, 0)
  storeOpen,    \* instances whose store has not been closed
  handles,      \* instances whose PROCESS_HANDLES holds this session
  \* the runtimes, see Runtime below
  rt

file  == <<log, lease, snapshot, readable>>
hosts == <<alive, pids, storeOpen, handles>>
vars  == <<file, hosts, rt>>

-----------------------------------------------------------------------------
Calls  == {"created", "fact", "transient"}       \* session.created or another
Entry  == [by : Runtimes, call : Nat, type : {"created", "fact", "notice"}]
\* "ok": the promise resolved; "reported": it rejected with an InvariantError,
\* which announces a broken relation without undoing anything; "failed": it
\* rejected with anything else.
Answer == [call : Calls, out : {"ok", "reported", "failed"}]

Runtime ==
  [phase : {"none", "acquiring", "loading", "replaying", "open", "closing"},
   state : Seq(Entry),       \* #state, as the events folded into it
   snapSeq : Nat,            \* #lastSnapshotSeq
   snapshotting : BOOLEAN,   \* #snapshotting
   queue : Seq(Calls),       \* calls chained on #tail; the head is being served
   at : {"idle", "appended", "snapped", "snapFailed"},  \* the await it is in
   pending : Seq(Entry),     \* the event appended and not folded yet, if any
   settled : Seq(Answer),    \* how earlier calls were answered
   published : Seq(Entry)]   \* persisted events sent to the bus since open()

\* No object: only what its callers were told remains.
Gone(answers) ==
  [phase |-> "none", state |-> <<>>, snapSeq |-> 0, snapshotting |-> FALSE,
   queue |-> <<>>, at |-> "idle", pending |-> <<>>, settled |-> answers,
   published |-> <<>>]

IsPrefixOf(s, t) == /\ Len(s) <= Len(t)
                    /\ \A i \in 1..Len(s) : s[i] = t[i]

TypeOK ==
  /\ log \in Seq(Entry) /\ snapshot \in Seq(Entry)
  /\ lease \in Procs \cup {None}
  /\ readable \in BOOLEAN
  /\ alive \subseteq Procs /\ pids \subseteq Procs
  /\ storeOpen \subseteq Procs /\ handles \subseteq Procs
  /\ rt \in [Runtimes -> Runtime]

Init ==
  /\ log = <<>> /\ lease = None /\ snapshot = <<>> /\ readable = TRUE
  /\ alive = Procs /\ pids = Procs /\ storeOpen = Procs /\ handles = {}
  /\ rt = [r \in Runtimes |-> Gone(<<>>)]

\* JavaScript of one process is single-threaded: while a runtime is between
\* the two statements of #acquireLease nothing else of its process runs.
Runs(p) == /\ p \in alive
           /\ \A q \in Runtimes : rt[q].phase = "acquiring" => ProcOf[q] # p

In(r, phase) == Runs(ProcOf[r]) /\ rt[r].phase = phase

-----------------------------------------------------------------------------
(* open(): the lease, the snapshot, the tail                               *)

\* Mutant: the process's own lease is always taken for a leftover.
LeaseFree_OwnIsStale(p) == \/ lease \in {None, p}
                           \/ lease \notin pids

\* The verdict of #acquireLease on the row it has read.
LeaseFree(p) ==
  \/ lease = None
  \/ lease = p /\ p \notin handles
  \/ lease # p /\ lease \notin pids

\* open() -> openForWrite(): SELECT the lease and judge it.  A refusal throws
\* WriteLeaseError and changes nothing.
SelectLease(r) ==
  /\ In(r, "none") /\ ProcOf[r] \in storeOpen /\ LeaseFree(ProcOf[r])
  /\ rt' = [rt EXCEPT ![r].phase = "acquiring"]
  /\ UNCHANGED <<file, hosts>>

\* ... then INSERT OR REPLACE it, a statement of its own: another process may
\* have done the same in between.
PutLease(r) ==
  /\ ProcOf[r] \in alive /\ rt[r].phase = "acquiring"
  /\ lease' = ProcOf[r]
  /\ handles' = handles \cup {ProcOf[r]}
  /\ rt' = [rt EXCEPT ![r].phase = "loading"]
  /\ UNCHANGED <<log, snapshot, readable, alive, pids, storeOpen>>

\* readSnapshot() and deserialize; no row is an empty state at seq 0.
LoadSnapshot(r) ==
  /\ In(r, "loading") /\ ProcOf[r] \in storeOpen /\ readable
  /\ rt' = [rt EXCEPT ![r].phase = "replaying", ![r].state = snapshot,
                      ![r].snapSeq = Len(snapshot)]
  /\ UNCHANGED <<file, hosts>>

\* read(fromSeq) pages through the rows after the folded ones; a short page is
\* the last one.
PageLimit(r) == Len(rt[r].state) + ReadPage
PageEnd(r) == IF Len(log) < PageLimit(r) THEN Len(log) ELSE PageLimit(r)

\* Mutant: the first page is taken for the whole tail.
LastPage_Always(r) == Len(log) >= 0

LastPage(r) == Len(log) < PageLimit(r)

\* Mutant: the tail is read from the snapshot's own seq on.
Replayed_Overlaps(r) ==
  rt[r].state \o SubSeq(log, IF rt[r].state = <<>> THEN 1 ELSE Len(rt[r].state),
                        PageEnd(r))

Replayed(r) == [i \in 1..PageEnd(r) |->
                  IF i <= Len(rt[r].state) THEN rt[r].state[i] ELSE log[i]]

ReplayPage(r) ==
  /\ In(r, "replaying") /\ ProcOf[r] \in storeOpen
  /\ rt' = [rt EXCEPT ![r].state = Replayed(r),
                      ![r].phase = IF LastPage(r) THEN "open" ELSE "replaying"]
  /\ UNCHANGED <<file, hosts>>

\* readSnapshot() or read() throws: the snapshot row or an event row does not
\* parse, or the store was closed meanwhile.  open() has no finally: the write
\* handle it took is dropped without being closed.
OpenFails(r) ==
  /\ \/ In(r, "loading") /\ (readable => ProcOf[r] \notin storeOpen)
     \/ In(r, "replaying") /\ (PageEnd(r) = Len(rt[r].state) => ProcOf[r] \notin storeOpen)
  /\ rt' = [rt EXCEPT ![r] = Gone(rt[r].settled)]
  /\ UNCHANGED <<file, hosts>>

-----------------------------------------------------------------------------
(* record(): one critical section per runtime                              *)

\* record() chains the call on #tail, unless the runtime is closed.
Record(r, c) ==
  /\ In(r, "open")
  /\ Len(rt[r].settled) + Len(rt[r].queue) < MaxCalls[r]
  /\ rt' = [rt EXCEPT ![r].queue = Append(rt[r].queue, c)]
  /\ UNCHANGED <<file, hosts>>

\* Mutant: a rejected call is left on the chain and rejects those behind it.
Serving_Poisoned(r, await) ==
  /\ (In(r, "open") \/ In(r, "closing")) /\ rt[r].queue # <<>> /\ rt[r].at = await
  /\ \A i \in 1..Len(rt[r].settled) : rt[r].settled[i].out = "ok"

Serving(r, await) == /\ In(r, "open") \/ In(r, "closing")
                     /\ rt[r].queue # <<>> /\ rt[r].at = await

\* Calls are answered in the order they came, so the one being served is known
\* by how many were answered before it.
EventOf(r, t) == [by |-> r, call |-> Len(rt[r].settled) + 1, type |-> t]

\* The object when the call at the head of the chain has been answered.
Answered(o, out) ==
  [o EXCEPT !.queue = Tail(o.queue), !.at = "idle", !.snapshotting = FALSE,
            !.settled = Append(o.settled, [call |-> Head(o.queue), out |-> out])]

\* A transient event reuses lastSeq, is folded (which changes nothing of the
\* replayable state), published and judged by the invariants, without an await.
RecordTransient(r) ==
  /\ Serving(r, "idle") /\ Head(rt[r].queue) = "transient"
  /\ \E out \in {"ok", "reported"} : rt' = [rt EXCEPT ![r] = Answered(rt[r], out)]
  /\ UNCHANGED <<file, hosts>>

\* Mutant: the store takes any seq.
Accepts_AnySeq(r, t) == ProcOf[r] \in storeOpen /\ (log = <<>> => t = "created")

\* appendTx: the seq the runtime computed from its state must follow the last
\* row, and the first row of a session must be session.created.
Accepts(r, t) ==
  /\ ProcOf[r] \in storeOpen
  /\ Len(rt[r].state) + 1 = Len(log) + 1
  /\ log = <<>> => t = "created"

\* The transaction commits; the runtime is now suspended in `await append`.
Insert(r, t) ==
  /\ Accepts(r, t)
  /\ log' = Append(log, EventOf(r, t))
  /\ rt' = [rt EXCEPT ![r].pending = <<EventOf(r, t)>>, ![r].at = "appended"]
  /\ UNCHANGED <<lease, snapshot, readable, hosts>>

\* Mutant: what is persisted and what is transient is not told apart.
AppendEvent_All(r) == Serving(r, "idle") /\ Insert(r, Head(rt[r].queue))

AppendEvent(r) == /\ Serving(r, "idle") /\ Head(rt[r].queue) # "transient"
                  /\ Insert(r, Head(rt[r].queue))

\* Mutant: the failure is swallowed.
AppendFails_Swallowed(r) ==
  /\ Serving(r, "idle") /\ Head(rt[r].queue) # "transient"
  /\ rt' = [rt EXCEPT ![r] = Answered(rt[r], "ok")]
  /\ UNCHANGED <<file, hosts>>

\* sealEvent refuses the event, appendTx refuses it, or SQLite fails and rolls
\* back: the call rejects and nothing else has happened.
AppendFails(r) ==
  /\ Serving(r, "idle") /\ Head(rt[r].queue) # "transient"
  /\ rt' = [rt EXCEPT ![r] = Answered(rt[r], "failed")]
  /\ UNCHANGED <<file, hosts>>

\* #state = reduce(#state, event); bus.publish(event).
Folded(o) == [o EXCEPT !.state = o.state \o o.pending,
                       !.published = o.published \o o.pending,
                       !.pending = <<>>]

SnapshotDue(o) == /\ ~o.snapshotting
                  /\ Len(o.state) - o.snapSeq >= SnapshotInterval

\* After the append: fold and publish; no snapshot is due; the invariants give
\* their verdict.  This also ends a snapshot_write_failed notice, and with it
\* the call that caused it.
Complete(r) ==
  /\ Serving(r, "appended") /\ ~SnapshotDue(Folded(rt[r]))
  /\ \E out \in {"ok", "reported"} :
       rt' = [rt EXCEPT ![r] = Answered(Folded(rt[r]), out)]
  /\ UNCHANGED <<file, hosts>>

\* ... or a snapshot is due, and writeSnapshot stores the new state
WriteSnapshot(r) ==
  /\ Serving(r, "appended") /\ SnapshotDue(Folded(rt[r])) /\ ProcOf[r] \in storeOpen
  /\ snapshot' = Folded(rt[r]).state /\ readable' = TRUE
  /\ rt' = [rt EXCEPT ![r] = [Folded(rt[r]) EXCEPT !.snapshotting = TRUE,
                                                  !.at = "snapped"]]
  /\ UNCHANGED <<log, lease, hosts>>

\* ... or it throws.
SnapshotFails(r) ==
  /\ Serving(r, "appended") /\ SnapshotDue(Folded(rt[r]))
  /\ rt' = [rt EXCEPT ![r] = [Folded(rt[r]) EXCEPT !.snapshotting = TRUE,
                                                  !.at = "snapFailed"]]
  /\ UNCHANGED <<file, hosts>>

SnapshotWritten(r) ==
  /\ Serving(r, "snapped")
  /\ \E out \in {"ok", "reported"} :
       rt' = [rt EXCEPT ![r] = [Answered(rt[r], out) EXCEPT !.snapSeq = Len(rt[r].state)]]
  /\ UNCHANGED <<file, hosts>>

\* The failure is reported by notice.posted, through #recordNow itself: the
\* chain's slot is still taken.
PostNotice(r) == Serving(r, "snapFailed") /\ Insert(r, "notice")

\* The notice cannot be appended either: its error leaves #maybeSnapshot.
NoticeFails(r) ==
  /\ Serving(r, "snapFailed")
  /\ rt' = [rt EXCEPT ![r] = Answered(rt[r], "failed")]
  /\ UNCHANGED <<file, hosts>>

-----------------------------------------------------------------------------
(* close(), and what happens to a process                                  *)

\* close() shuts the door first ...
Close(r) == /\ In(r, "open")
            /\ rt' = [rt EXCEPT ![r].phase = "closing"]
            /\ UNCHANGED <<file, hosts>>

\* ... waits for #tail, then closes the handle, which deletes the session's
\* lease row whoever holds it.  With the store closed the DELETE throws.
CloseHandle(r) ==
  /\ In(r, "closing") /\ rt[r].queue = <<>>
  /\ handles' = handles \ {ProcOf[r]}
  /\ lease' = IF ProcOf[r] \in storeOpen THEN None ELSE lease
  /\ rt' = [rt EXCEPT ![r] = Gone(rt[r].settled)]
  /\ UNCHANGED <<log, snapshot, readable, alive, pids, storeOpen>>

\* SqliteEventStore.close(): drop the leases this store took.
CloseStore(p) ==
  /\ Runs(p) /\ p \in storeOpen
  /\ lease' = IF p \in handles THEN None ELSE lease
  /\ handles' = handles \ {p}
  /\ storeOpen' = storeOpen \ {p}
  /\ UNCHANGED <<log, snapshot, readable, alive, pids, rt>>

\* A process ends between two awaits; all it had in memory is gone.
Crash(p) ==
  /\ p \in alive
  /\ alive' = alive \ {p} /\ pids' = pids \ {p}
  /\ handles' = handles \ {p} /\ storeOpen' = storeOpen \ {p}
  /\ rt' = [r \in Runtimes |-> IF ProcOf[r] = p THEN Gone(rt[r].settled) ELSE rt[r]]
  /\ UNCHANGED file

\* The operating system gives the pid of a dead process to an unrelated one,
\* which may end as well.
ReusePid(p) == /\ p \notin pids \cup alive /\ pids' = pids \cup {p}
               /\ UNCHANGED <<file, alive, storeOpen, handles, rt>>
FreePid(p) == /\ p \in pids \ alive /\ pids' = pids \ {p}
              /\ UNCHANGED <<file, alive, storeOpen, handles, rt>>

\* The snapshot row is damaged, or was written by an incompatible version.
DamageSnapshot == /\ readable /\ snapshot # <<>> /\ readable' = FALSE
                  /\ UNCHANGED <<log, lease, snapshot, hosts, rt>>

-----------------------------------------------------------------------------
Serve(r) == \/ RecordTransient(r) \/ AppendEvent(r) \/ AppendFails(r)
            \/ Complete(r) \/ WriteSnapshot(r) \/ SnapshotFails(r)
            \/ SnapshotWritten(r) \/ PostNotice(r) \/ NoticeFails(r)
OpenStep(r) == PutLease(r) \/ LoadSnapshot(r) \/ ReplayPage(r) \/ OpenFails(r)

Next ==
  \/ \E r \in Runtimes : \/ SelectLease(r) \/ OpenStep(r) \/ Serve(r)
                         \/ \E c \in Calls : Record(r, c)
                         \/ Close(r) \/ CloseHandle(r)
  \/ \E p \in Procs : CloseStore(p) \/ Crash(p) \/ FreePid(p) \/ ReusePid(p)
  \/ DamageSnapshot

Spec == Init /\ [][Next]_vars

\* A promise chain that can go on does: the event loop runs every continuation
\* of a live process.  Nothing makes anybody open, record, close or crash.
Fairness == \A r \in Runtimes : /\ WF_vars(Serve(r))
                                /\ WF_vars(OpenStep(r))
                                /\ WF_vars(CloseHandle(r))
FairSpec == Spec /\ Fairness

-----------------------------------------------------------------------------
(* Properties                                                              *)

\* Whatever crashes, however many writers slipped past the lease, a runtime's
\* state and the stored snapshot are the replay of a prefix of the one history
\* (event-store.ts, invariants three and eight).
StateIsReplay == /\ \A r \in Runtimes : IsPrefixOf(rt[r].state, log)
                 /\ IsPrefixOf(snapshot, log)

\* What the bus has carried since open() is the end of what the runtime has
\* folded, entry by entry: a subscriber sees no gap, no repetition, and nothing
\* a replay would not show it (record(): broadcast only after the append).
GapFreeFeed ==
  \A r \in Runtimes :
    LET skipped == Len(rt[r].state) - Len(rt[r].published)
    IN  /\ skipped >= 0
        /\ \A i \in 1..Len(rt[r].published) : rt[r].published[i] = log[skipped + i]

Durable(r, i) ==
  \E k \in 1..Len(log) : log[k].by = r /\ log[k].call = i /\ log[k].type # "notice"

\* A record() of a persisted event that resolves, or that only reports a broken
\* relation, has its event in the log, whatever crashed or was closed since.
AnsweredIsDurable ==
  \A r \in Runtimes : \A i \in 1..Len(rt[r].settled) :
    rt[r].settled[i].call # "transient" /\ rt[r].settled[i].out # "failed" => Durable(r, i)

\* The log holds a runtime's calls in the order record() was called, each at
\* most once, each followed by at most one snapshot_write_failed notice: the
\* notice about a failed snapshot never provokes another snapshot.
SubmissionOrder ==
  \A k, m \in 1..Len(log) :
    k < m /\ log[k].by = log[m].by =>
      \/ log[k].call < log[m].call
      \/ log[k].call = log[m].call /\ log[k].type # "notice" /\ log[m].type = "notice"

\* A runtime between two calls has folded everything it has itself written, in
\* this life or an earlier one, so that a SeqConflictError always means another
\* writer, never its own concurrent record() calls (event-store.ts, three).
NeverBehindItself ==
  \A r \in Runtimes : rt[r].phase \in {"open", "closing"} /\ rt[r].at = "idle" =>
    \A k \in Len(rt[r].state) + 1..Len(log) : log[k].by # r

\* The feed and the state behind it: no gap for a subscriber, and nothing of the
\* runtime's own writing that it has not folded between two calls.
FeedIsComplete == GapFreeFeed /\ NeverBehindItself

HoldsHandle(r) == rt[r].phase \in {"loading", "replaying", "open", "closing"}

\* Within one process the lease is exact: no two runtimes hold a write handle
\* of the session at once, whatever was closed, failed or crashed before.
OneWriterPerProcess ==
  \A q, r \in Runtimes :
    q # r /\ ProcOf[q] = ProcOf[r] => ~(HoldsHandle(q) /\ HoldsHandle(r))

\* In one process there is one writer, and the log keeps the order of its calls.
OneWriterInOrder == OneWriterPerProcess /\ SubmissionOrder

\* Closing ends, however many calls failed on the way: the chain is never
\* rejected and nothing in the critical section waits for its own slot.
CloseEnds == \A r \in Runtimes : rt[r].phase = "closing" ~> rt[r].phase = "none"

\* The runtimes and the store implement the append-only history.
Contract == INSTANCE EventLog WITH Readers <- Runtimes, Events <- Entry,
                                   view <- [r \in Runtimes |-> rt[r].state]
ImplementsEventLog == Contract!Spec
=============================================================================
