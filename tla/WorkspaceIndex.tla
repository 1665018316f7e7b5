--------------------------- MODULE WorkspaceIndex ---------------------------
(***************************************************************************)
(* The persistent text index of the workspaces: one incremental refresh    *)
(* per root at a time, clear() with its generation, the states a query     *)
(* reads (packages/storage/src/workspace-index.ts).                        *)
(*                                                                         *)
(* A file is the number of its last edit (0: no indexable file), which is  *)
(* both its mtime and its content; a row holds the mtime stat() returned   *)
(* and the content readFile() returned, two separate reads of the disk.    *)
(* Synchronous code between two awaits is one step; the await inside       *)
(* extractSymbols is merged into the one of readFile (the row keeps what   *)
(* was read, and only the disk may move in between).                       *)
(***************************************************************************)
EXTENDS Naturals, Sequences, FiniteSets, SequencesExt

CONSTANTS Roots, Paths,
          MaxEdits,     \* bound: edits of files
          MaxClears,    \* bound: calls of clear() in one process
          MaxStops,     \* bound: 1 if the background signal may abort
          MaxRestarts   \* bound: crashes or clean restarts of the process

ASSUME BoundsAssumption ==
  /\ IsFiniteSet(Paths)
  /\ {MaxEdits, MaxClears, MaxStops, MaxRestarts} \subseteq Nat

VARIABLES
  disk, edits,    \* the files, and the number of the last edit
  rows,           \* table files (with file_fts and symbols): path -> row
  wsState,        \* table workspaces: root -> state, "cold" without a row
  op,             \* #refreshing: where the refresh of each root is
  generation,     \* #generation
  clearing,       \* calls of clear() still waiting for refreshes
  wiped,          \* history: the last generation whose clear() has wiped
  stopped,        \* background.signal.aborted
  closed,         \* #closed
  restarts,       \* restarts so far
  stale,          \* history: paths the ready index may be wrong about
  spoiled         \* history: roots whose last refresh met a stop while listing,
                  \* or the wipe of a clear() that did not wait for it

world   == <<disk, edits>>
process == <<stopped, closed, restarts>>
vars    == <<world, rows, wsState, op, generation, clearing, wiped, process, stale, spoiled>>

NoRow == [mtime |-> 0, content |-> 0]
NoOp  == [pc |-> "idle", gen |-> 0, todo |-> <<>>, mtime |-> 0,
          existing |-> [p \in Paths |-> 0], current |-> {}, touched |-> {}, spoiled |-> FALSE]

States == {"cold", "building", "ready", "stale", "failed"}

TypeOK ==
  /\ edits \in 1..(MaxEdits + 1)
  /\ disk \in [Roots -> [Paths -> 0..(MaxEdits + 1)]]
  /\ rows \in [Roots -> [Paths -> [mtime : 0..(MaxEdits + 1), content : 0..(MaxEdits + 1)]]]
  /\ wsState \in [Roots -> States]
  /\ op \in [Roots -> [pc : {"idle", "list", "stat", "read"}, gen : 0..MaxClears,
                       todo : Seq(Paths), mtime : 0..(MaxEdits + 1),
                       existing : [Paths -> 0..(MaxEdits + 1)],
                       current : SUBSET Paths, touched : SUBSET Paths, spoiled : BOOLEAN]]
  /\ generation \in 0..MaxClears
  /\ clearing \subseteq [gen : 1..generation, waits : SUBSET Roots]
  /\ wiped \in 0..generation
  /\ stopped \in BOOLEAN /\ closed \in BOOLEAN /\ restarts \in 0..MaxRestarts
  /\ stale \in [Roots -> SUBSET Paths] /\ spoiled \subseteq Roots

Init ==
  /\ edits = 1 /\ disk \in [Roots -> [Paths -> {0, 1}]]
  /\ rows = [r \in Roots |-> [p \in Paths |-> NoRow]]
  /\ wsState = [r \in Roots |-> "cold"]
  /\ op = [r \in Roots |-> NoOp]
  /\ generation = 0 /\ clearing = {} /\ wiped = 0
  /\ stopped = FALSE /\ closed = FALSE /\ restarts = 0
  /\ stale = [r \in Roots |-> {}] /\ spoiled = {}

-----------------------------------------------------------------------------
Running(r) == op[r].pc # "idle"

\* A clear() whose refreshes have all settled wipes in a microtask, before any
\* further event or I/O result reaches the process.
WipeIsDue == \E c \in clearing : c.waits = {}

\* The refresh of r settles: it leaves #refreshing, clear() stops waiting for it.
Ends(r) ==
  /\ op' = [op EXCEPT ![r] = NoOp]
  /\ clearing' = {[c EXCEPT !.waits = @ \ {r}] : c \in clearing}

\* After the last file: rows the scan did not confirm go, and the index is
\* ready unless a clear() has come in between.
Finish(r, o, table) ==
  /\ rows' = [rows EXCEPT ![r] = [p \in Paths |->
                IF o.existing[p] # 0 /\ p \notin o.current THEN NoRow ELSE table[p]]]
  /\ IF o.gen = generation
     THEN /\ wsState' = [wsState EXCEPT ![r] = "ready"]
          /\ stale' = [stale EXCEPT ![r] = o.touched]
          /\ spoiled' = IF o.spoiled THEN spoiled \cup {r} ELSE spoiled \ {r}
     ELSE /\ stale' = [stale EXCEPT ![r] = @ \cup o.touched]
          /\ spoiled' = IF o.spoiled THEN spoiled \cup {r} ELSE spoiled
          /\ UNCHANGED wsState
  /\ Ends(r)

\* The head of the loop for the record o and the rows `table` of r: finish,
\* give up (an outdated generation leaves no state, an abort leaves "stale"),
\* or go and stat the next file.
Continue(r, o, table) ==
  \/ o.todo = <<>> /\ Finish(r, o, table)
  \/ /\ o.todo # <<>>
     /\ rows' = [rows EXCEPT ![r] = table]
     /\ stale' = [stale EXCEPT ![r] = @ \cup (o.touched \ op[r].touched)]
     /\ UNCHANGED spoiled
     /\ \/ /\ o.gen # generation
           /\ Ends(r) /\ UNCHANGED wsState
        \/ /\ o.gen = generation /\ stopped
           /\ wsState' = [wsState EXCEPT ![r] = "stale"]
           /\ Ends(r)
        \/ /\ o.gen = generation /\ ~stopped
           /\ op' = [op EXCEPT ![r] = [o EXCEPT !.pc = "stat"]]
           /\ UNCHANGED <<clearing, wsState>>

\* refresh(root): a running refresh is joined; a new one runs to the listing.
Refresh(r) ==
  /\ ~closed /\ ~Running(r) /\ ~WipeIsDue
  /\ IF stopped
     THEN wsState' = [wsState EXCEPT ![r] = "stale"] /\ UNCHANGED op
     ELSE /\ wsState' = [wsState EXCEPT ![r] = IF @ = "ready" THEN @ ELSE "building"]
          /\ op' = [op EXCEPT ![r] = [NoOp EXCEPT !.pc = "list", !.gen = generation]]
  /\ UNCHANGED <<world, rows, generation, clearing, wiped, process, stale, spoiled>>

\* What listFiles() may return: the files that have been there all along,
\* perhaps some that changed meanwhile; after an abort whatever was found so far
\* (ripgrep: nothing).
Listings(r) ==
  LET there == {p \in Paths : disk[r][p] # 0}
  IN  {found \in SUBSET (there \cup op[r].touched) :
         stopped \/ (there \ op[r].touched) \subseteq found}

\* The listing arrives: the rows known at that moment become `existing`.
Listed(r) ==
  /\ op[r].pc = "list" /\ ~WipeIsDue
  /\ \E found \in Listings(r) : \E todo \in SetToSeqs(found) :
       Continue(r, [op[r] EXCEPT !.todo = todo, !.spoiled = stopped,
                                 !.existing = [p \in Paths |-> rows[r][p].mtime]], rows[r])
  /\ UNCHANGED <<world, generation, wiped, process>>

\* ripgrep itself fails.
ListFails(r) ==
  /\ op[r].pc = "list" /\ ~WipeIsDue
  /\ wsState' = [wsState EXCEPT ![r] = IF stopped THEN "stale" ELSE "failed"]
  /\ Ends(r)
  /\ UNCHANGED <<world, rows, generation, wiped, process, stale, spoiled>>

\* stat() answers: no indexable file; a file the table already knows; or one to read.
Stat(r) ==
  LET o == op[r]
      p == Head(o.todo)
      next == [o EXCEPT !.todo = Tail(@)]
  IN  /\ o.pc = "stat" /\ ~WipeIsDue
      /\ \/ disk[r][p] = 0 /\ Continue(r, next, rows[r])
         \/ /\ disk[r][p] # 0 /\ o.existing[p] = disk[r][p]
            /\ Continue(r, [next EXCEPT !.current = @ \cup {p}], rows[r])
         \/ /\ disk[r][p] # 0 /\ o.existing[p] # disk[r][p]
            /\ op' = [op EXCEPT ![r] = [o EXCEPT !.pc = "read", !.mtime = disk[r][p]]]
            /\ UNCHANGED <<rows, wsState, clearing, stale, spoiled>>
      /\ UNCHANGED <<world, generation, wiped, process>>

\* Mutant: the content is read first and the mtime taken afterwards.
Read_LateStamp(r) ==
  LET o == op[r]
      p == Head(o.todo)
      next == [o EXCEPT !.todo = Tail(@), !.current = @ \cup {p}]
  IN  /\ o.pc = "read" /\ ~WipeIsDue
      /\ disk[r][p] # 0
      /\ Continue(r, next, [rows[r] EXCEPT ![p] = [mtime |-> disk[r][p], content |-> o.mtime]])
      /\ UNCHANGED <<world, generation, wiped, process>>

\* readFile() answers and #replace writes the row; or the content has become
\* binary (or the file has gone): no row.
Read(r) ==
  LET o == op[r]
      p == Head(o.todo)
      next == [o EXCEPT !.todo = Tail(@)]
  IN  /\ o.pc = "read" /\ ~WipeIsDue
      /\ \/ disk[r][p] = 0 /\ Continue(r, next, rows[r])
         \/ /\ disk[r][p] # 0
            /\ Continue(r, [next EXCEPT !.current = @ \cup {p}],
                        [rows[r] EXCEPT ![p] = [mtime |-> o.mtime, content |-> disk[r][p]]])
      /\ UNCHANGED <<world, generation, wiped, process>>

\* stat() or readFile() throws: the error is collected, the path not confirmed.
Unreadable(r) ==
  LET o == op[r]
      p == Head(o.todo)
  IN  /\ o.pc \in {"stat", "read"} /\ ~WipeIsDue
      /\ Continue(r, [o EXCEPT !.todo = Tail(@), !.touched = @ \cup {p}], rows[r])
      /\ UNCHANGED <<world, generation, wiped, process>>

\* clear(): outdate the refreshes, wait for those that run now.
Clear ==
  /\ ~closed /\ generation < MaxClears
  /\ generation' = generation + 1
  /\ clearing' = clearing \cup {[gen |-> generation + 1, waits |-> {r \in Roots : Running(r)}]}
  /\ UNCHANGED <<world, rows, wsState, op, wiped, process, stale, spoiled>>

\* Mutant: clear() goes on waiting for whatever refresh is running.
Wipe_WhenQuiet ==
  \E c \in clearing :
    /\ \A r \in Roots : ~Running(r)
    /\ clearing' = clearing \ {c} /\ wiped' = c.gen
    /\ rows' = [r \in Roots |-> [p \in Paths |-> NoRow]]
    /\ wsState' = [r \in Roots |-> "cold"]
    /\ op' = [r \in Roots |-> [op[r] EXCEPT !.spoiled = Running(r)]]
    /\ UNCHANGED <<world, generation, process, stale, spoiled>>

\* clearWorkspaceIndex(): every table is emptied, for every root.
Wipe ==
  \E c \in clearing :
    /\ c.waits = {}
    /\ clearing' = clearing \ {c} /\ wiped' = c.gen
    /\ rows' = [r \in Roots |-> [p \in Paths |-> NoRow]]
    /\ wsState' = [r \in Roots |-> "cold"]
    /\ op' = [r \in Roots |-> [op[r] EXCEPT !.spoiled = Running(r)]]
    /\ UNCHANGED <<world, generation, process, stale, spoiled>>

\* The user edits, creates or deletes a file.
Edit(r, p) ==
  /\ edits <= MaxEdits /\ edits' = edits + 1
  /\ \E to \in {0, edits + 1} \ {disk[r][p]} : disk' = [disk EXCEPT ![r][p] = to]
  /\ stale' = [stale EXCEPT ![r] = @ \cup {p}]
  /\ op' = [op EXCEPT ![r].touched = IF Running(r) THEN @ \cup {p} ELSE @]
  /\ UNCHANGED <<rows, wsState, generation, clearing, wiped, process, spoiled>>

\* The desktop host aborts its background work, the first step of its close().
Stop ==
  /\ MaxStops > 0 /\ ~stopped
  /\ stopped' = TRUE
  /\ UNCHANGED <<world, rows, wsState, op, generation, clearing, wiped, closed, restarts, stale, spoiled>>

\* close(): no new refresh or clear; the database closes once all have settled.
Close ==
  /\ stopped /\ ~closed
  /\ closed' = TRUE
  /\ UNCHANGED <<world, rows, wsState, op, generation, clearing, wiped, stopped, restarts, stale, spoiled>>

\* The process dies, or has closed, and the constructor opens the database
\* again: a build that was cut short is stale.
Restart ==
  /\ restarts < MaxRestarts
  /\ restarts' = restarts + 1 /\ stopped' = FALSE /\ closed' = FALSE
  /\ op' = [r \in Roots |-> NoOp] /\ clearing' = {} /\ generation' = 0 /\ wiped' = 0
  /\ wsState' = [r \in Roots |-> IF wsState[r] = "building" THEN "stale" ELSE wsState[r]]
  /\ UNCHANGED <<world, rows, stale, spoiled>>

InputOutput(r) == Listed(r) \/ ListFails(r) \/ Stat(r) \/ Read(r) \/ Unreadable(r)

Next ==
  \/ \E r \in Roots : Refresh(r) \/ InputOutput(r) \/ \E p \in Paths : Edit(r, p)
  \/ Clear \/ Wipe \/ Stop \/ Close \/ Restart

Spec == Init /\ [][Next]_vars

\* Every file operation answers and a due wipe runs: the event loop is not blocked.
FairSpec == Spec /\ WF_vars(Wipe) /\ \A r \in Roots : WF_vars(InputOutput(r))

-----------------------------------------------------------------------------
(***************************************************************************)
(* Properties.                                                             *)
(***************************************************************************)

Faithful(r) ==
  wsState[r] = "ready" => \A p \in Paths \ stale[r] : rows[r][p].content = disk[r][p]

\* An index shown as ready is right about every file that has not changed since
\* the refresh that made it ready began and could be read: the row holds what
\* is on the disk, and there is no row for a file that is not there.  True
\* also while an incremental refresh runs, after one was cut short, and across
\* restarts; but not of the two kinds of refresh `spoiled` names.
ReadyIsFaithful == \A r \in Roots \ spoiled : Faithful(r)

\* A row never hides an edit: if its mtime is the file's, so is its content,
\* otherwise every later refresh would count the file as unchanged.
NoEditIsMasked ==
  \A r \in Roots, p \in Paths :
    rows[r][p].mtime = disk[r][p] => rows[r][p].content = disk[r][p]

\* Once a clear() has wiped, no refresh that was running when it was called is
\* still there to write rows of before into the emptied tables.
OldWorkEndsBeforeWipe == \A r \in Roots : Running(r) => op[r].gen >= wiped

\* What the index says, of files as of the work behind it.
IndexIsRight == TypeOK /\ ReadyIsFaithful /\ NoEditIsMasked /\ OldWorkEndsBeforeWipe

\* clear() comes to its end although refreshes keep being started.
ClearEnds == \A g \in 1..MaxClears :
  (\E c \in clearing : c.gen = g) ~> (\A c \in clearing : c.gen # g)

(* What the documentation says of the code, and the code does not do       *)

\* "An index that has been built stays usable during an incremental update, its
\* results are at most a little old" (workspace-index.ts, #refresh).
ReadyIsAlwaysFaithful == \A r \in Roots : Faithful(r)
=============================================================================
