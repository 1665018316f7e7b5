------------------------ MODULE WorkspaceIndexProofs ------------------------
(***************************************************************************)
(* Proofs about WorkspaceIndex, for any roots, files, edits, clears, stops *)
(* and restarts: the index is right about the files it can be right about. *)
(*                                                                         *)
(* IndexIsRight is not inductive.  IInv adds what a refresh knows midway:  *)
(* a row's content is not older than its mtime (Stamped), of a file that   *)
(* has not been touched the refresh has yet to look, or its row is right   *)
(* (Scanned), and whoever is older than a clear() the clear() waits for    *)
(* (Waited).                                                               *)
(***************************************************************************)
EXTENDS WorkspaceIndex, FiniteSetTheorems, SequenceTheorems, TLAPS

\* The files a refresh has still to look at.
Ahead(o) == {o.todo[k] : k \in 1..Len(o.todo)}

\* Edits are numbered in their order, mtimes and contents are of edits that were
\* made, and what a row says of the content is not older than its mtime.
Stamped(r, table) ==
  \A p \in Paths :
    /\ disk[r][p] <= edits /\ table[p].content <= edits
    /\ table[p].mtime <= table[p].content
    /\ table[p].mtime = 0 => table[p].content = 0
    /\ disk[r][p] # 0 => table[p].content <= disk[r][p]

\* A file is about to be read whose mtime has been seen; while the files are being
\* listed none has been confirmed.
Seeing(r) ==
  /\ op[r].pc = "list" => op[r].current = {}
  /\ op[r].pc \in {"stat", "read"} => op[r].todo # <<>>
  /\ op[r].pc = "read" =>
       /\ op[r].mtime \in 1..edits
       /\ disk[r][Head(op[r].todo)] # 0 => op[r].mtime <= disk[r][Head(op[r].todo)]

\* What a refresh knows of a file that has not been edited since it began: the file
\* is still to be looked at, or found and confirmed; its row is the one the refresh
\* found, or right.
Scanned(r, o, table) ==
  \A p \in Paths \ o.touched :
    /\ disk[r][p] # 0 => p \in Ahead(o) \/ (p \in o.current /\ table[p].content = disk[r][p])
    /\ disk[r][p] = 0 => p \notin o.current
    /\ p \in Ahead(o) \/ disk[r][p] = 0 =>
         table[p].mtime = o.existing[p] \/ table[p].content = disk[r][p]

\* A ready index is right, and a refresh that will make it so knows the files.
Right(r) ==
  /\ Stamped(r, rows[r]) /\ Seeing(r)
  /\ r \notin spoiled => Faithful(r)
  /\ op[r].pc \in {"stat", "read"} /\ ~op[r].spoiled => Scanned(r, op[r], rows[r])

\* Who is older than a clear(), the clear() waits for.
Waited == \A c \in clearing : \A r \in Roots : Running(r) /\ op[r].gen < c.gen => r \in c.waits

IInv == /\ TypeOK /\ (\A r \in Roots : Right(r)) /\ Waited /\ OldWorkEndsBeforeWipe

-----------------------------------------------------------------------------
(* Types                                                                   *)

Stamps == 0..(MaxEdits + 1)
Row == [mtime : Stamps, content : Stamps]
Refreshes == [pc : {"idle", "list", "stat", "read"}, gen : 0..MaxClears, todo : Seq(Paths), mtime : Stamps,
              existing : [Paths -> Stamps], current : SUBSET Paths, touched : SUBSET Paths,
              spoiled : BOOLEAN]
Clears == [gen : 1..generation, waits : SUBSET Roots]

\* The type invariant, part by part.
LEMMA Types ==
  TypeOK <=> /\ edits \in 1..(MaxEdits + 1) /\ disk \in [Roots -> [Paths -> Stamps]]
             /\ rows \in [Roots -> [Paths -> Row]] /\ wsState \in [Roots -> States]
             /\ op \in [Roots -> Refreshes] /\ generation \in 0..MaxClears
             /\ clearing \subseteq Clears /\ wiped \in 0..generation
             /\ stopped \in BOOLEAN /\ closed \in BOOLEAN /\ restarts \in 0..MaxRestarts
             /\ stale \in [Roots -> SUBSET Paths] /\ spoiled \subseteq Roots
  BY DEF TypeOK, Stamps, Row, Refreshes, Clears

\* What a refresh may leave of a root, and what the others see of it.
LEMMA TypesKept ==
  ASSUME TypeOK, UNCHANGED <<world, generation, wiped, process>>,
         rows' \in [Roots -> [Paths -> Row]], wsState' \in [Roots -> States],
         op' \in [Roots -> Refreshes], clearing' \subseteq Clears,
         stale' \in [Roots -> SUBSET Paths], spoiled' \subseteq Roots
  PROVE  TypeOK'
<1>1. /\ edits' = edits /\ disk' = disk /\ generation' = generation /\ wiped' = wiped
      /\ stopped' = stopped /\ closed' = closed /\ restarts' = restarts
  BY DEF world, process
<1> QED
  BY <1>1 DEF TypeOK, Stamps, Row, Refreshes, Clears

\* No refresh, and no row.
LEMMA Nothing ==
  NoRow \in Row /\ NoOp \in Refreshes /\ NoRow.mtime = 0 /\ NoRow.content = 0 /\ NoOp.pc = "idle"
<1>1. 0 \in Stamps /\ 0 \in 0..MaxClears /\ <<>> \in Seq(Paths)
  BY BoundsAssumption DEF Stamps
<1> QED
  BY <1>1 DEF NoRow, NoOp, Row, Refreshes

\* A refresh that ends.
LEMMA EndTypes ==
  ASSUME TypeOK, NEW r \in Roots, Ends(r)
  PROVE  /\ op' \in [Roots -> Refreshes] /\ clearing' \subseteq Clears
         /\ op'[r] = NoOp /\ \A q \in Roots : q # r => op'[q] = op[q]
<1>1. op \in [Roots -> Refreshes] /\ clearing \subseteq Clears
  BY Types
<1>2. \A c \in Clears : [c EXCEPT !.waits = @ \ {r}] \in Clears
  BY DEF Clears
<1> QED
  BY <1>1, <1>2, Nothing DEF Ends

\* The head of the loop keeps the types, and leaves the other roots alone.
LEMMA ContinueTypes ==
  ASSUME TypeOK, NEW r \in Roots, NEW o \in Refreshes, NEW table \in [Paths -> Row],
         Continue(r, o, table), UNCHANGED <<world, generation, wiped, process>>
  PROVE  /\ TypeOK'
         /\ \A q \in Roots \ {r} : /\ op'[q] = op[q] /\ rows'[q] = rows[q] /\ wsState'[q] = wsState[q]
                                   /\ stale'[q] = stale[q] /\ (q \in spoiled' <=> q \in spoiled)
<1>1. /\ rows \in [Roots -> [Paths -> Row]] /\ wsState \in [Roots -> States]
      /\ op \in [Roots -> Refreshes] /\ clearing \subseteq Clears
      /\ stale \in [Roots -> SUBSET Paths] /\ spoiled \subseteq Roots
  BY Types
<1>2. o.touched \subseteq Paths /\ {"ready", "stale"} \subseteq States
  BY DEF Refreshes, States
<1>3. CASE o.todo = <<>> /\ Finish(r, o, table)
  <2>1. [p \in Paths |-> IF o.existing[p] # 0 /\ p \notin o.current THEN NoRow ELSE table[p]]
          \in [Paths -> Row]
    BY Nothing
  <2>2. /\ rows' \in [Roots -> [Paths -> Row]]
        /\ \A q \in Roots \ {r} : rows'[q] = rows[q]
    BY <1>1, <1>3, <2>1 DEF Finish
  <2>3. /\ wsState' \in [Roots -> States] /\ stale' \in [Roots -> SUBSET Paths] /\ spoiled' \subseteq Roots
        /\ \A q \in Roots \ {r} : /\ wsState'[q] = wsState[q] /\ stale'[q] = stale[q]
                                  /\ (q \in spoiled' <=> q \in spoiled)
    BY <1>1, <1>2, <1>3 DEF Finish
  <2>4. Ends(r)
    BY <1>3 DEF Finish
  <2> QED
    BY <2>2, <2>3, <2>4, EndTypes, TypesKept
<1>4. CASE ~(o.todo = <<>> /\ Finish(r, o, table))
  <2>1. /\ rows' = [rows EXCEPT ![r] = table] /\ spoiled' = spoiled
        /\ stale' = [stale EXCEPT ![r] = @ \cup (o.touched \ op[r].touched)]
    BY <1>4 DEF Continue
  <2>2. /\ wsState' \in [Roots -> States]
        /\ \A q \in Roots \ {r} : wsState'[q] = wsState[q]
    BY <1>1, <1>2, <1>4 DEF Continue
  <2>3. /\ op' \in [Roots -> Refreshes] /\ clearing' \subseteq Clears
        /\ \A q \in Roots \ {r} : op'[q] = op[q]
    <3>1. CASE Ends(r)
      BY <3>1, EndTypes
    <3>2. CASE op' = [op EXCEPT ![r] = [o EXCEPT !.pc = "stat"]] /\ clearing' = clearing
      <4>1. [o EXCEPT !.pc = "stat"] \in Refreshes
        BY DEF Refreshes
      <4> QED
        BY <1>1, <3>2, <4>1
    <3> QED
      BY <1>4, <3>1, <3>2 DEF Continue
  <2> QED
    BY <1>1, <1>2, <2>1, <2>2, <2>3, TypesKept
<1> QED
  BY <1>3, <1>4

-----------------------------------------------------------------------------
(* What is known of one root                                               *)

\* A root nothing happens to.
LEMMA SameRoot ==
  ASSUME TypeOK, NEW r \in Roots, Right(r), disk'[r] = disk[r], edits' \in Nat, edits <= edits',
         rows'[r] = rows[r], op'[r] = op[r],
         wsState'[r] = wsState[r] \/ wsState'[r] # "ready", stale'[r] = stale[r],
         r \in spoiled' <=> r \in spoiled
  PROVE  Right(r)'
<1>1. Stamped(r, rows[r])'
  <2> SUFFICES ASSUME NEW p \in Paths
               PROVE  /\ disk'[r][p] <= edits' /\ rows'[r][p].content <= edits'
                      /\ rows'[r][p].mtime <= rows'[r][p].content
                      /\ rows'[r][p].mtime = 0 => rows'[r][p].content = 0
                      /\ disk'[r][p] # 0 => rows'[r][p].content <= disk'[r][p]
    BY DEF Stamped
  <2>1. disk[r][p] \in Nat /\ rows[r][p].content \in Nat /\ edits \in Nat
    BY Types, BoundsAssumption DEF Stamps, Row
  <2> QED
    BY <2>1 DEF Right, Stamped
<1>2. Seeing(r)'
  <2>1. edits \in Nat
    BY Types, BoundsAssumption
  <2> QED
    BY <2>1 DEF Right, Seeing
<1>3. r \notin spoiled' => Faithful(r)'
  BY DEF Right, Faithful
<1>4. op'[r].pc \in {"stat", "read"} /\ ~op'[r].spoiled => Scanned(r, op[r], rows[r])'
  BY DEF Right, Scanned
<1> QED
  BY <1>1, <1>2, <1>3, <1>4 DEF Right

\* The files are all looked at: the rows say what is on the disk of each that was
\* not touched.
LEMMA Finished ==
  ASSUME NEW r, NEW o, NEW table, Scanned(r, o, table), Stamped(r, table), o.todo = <<>>,
         NEW p \in Paths \ o.touched
  PROVE  (IF o.existing[p] # 0 /\ p \notin o.current THEN NoRow ELSE table[p]).content = disk[r][p]
<1>1. p \notin Ahead(o)
  BY EmptySeq DEF Ahead
<1>2. table[p].mtime = 0 => table[p].content = 0
  BY DEF Stamped
<1> QED
  BY <1>1, <1>2, Nothing DEF Scanned

\* The head of the loop keeps what is known of its root.
LEMMA ContinueRight ==
  ASSUME TypeOK, NEW r \in Roots, NEW o \in Refreshes, NEW table \in [Paths -> Row],
         Continue(r, o, table), UNCHANGED <<world, generation, wiped, process>>,
         Stamped(r, table), op[r].touched \subseteq o.touched,
         wsState[r] = "ready" /\ r \notin spoiled =>
           \A p \in Paths \ stale[r] : table[p].content = disk[r][p],
         ~o.spoiled => Scanned(r, o, table)
  PROVE  Right(r)'
<1>1. /\ rows \in [Roots -> [Paths -> Row]] /\ wsState \in [Roots -> States]
      /\ op \in [Roots -> Refreshes] /\ stale \in [Roots -> SUBSET Paths]
      /\ disk \in [Roots -> [Paths -> Stamps]] /\ edits \in 1..(MaxEdits + 1)
  BY Types
<1>2. disk' = disk /\ edits' = edits
  BY DEF world
<1>3. CASE o.todo = <<>> /\ Finish(r, o, table)
  <2> DEFINE kept == [p \in Paths |-> IF o.existing[p] # 0 /\ p \notin o.current THEN NoRow ELSE table[p]]
  <2>1. rows'[r] = kept
    BY <1>1, <1>3 DEF Finish
  <2>2. op'[r] = NoOp
    BY <1>3, EndTypes DEF Finish
  <2>3. Stamped(r, kept)
    <3> SUFFICES ASSUME NEW p \in Paths
                 PROVE  /\ disk[r][p] <= edits /\ kept[p].content <= edits
                        /\ kept[p].mtime <= kept[p].content
                        /\ kept[p].mtime = 0 => kept[p].content = 0
                        /\ disk[r][p] # 0 => kept[p].content <= disk[r][p]
      BY DEF Stamped
    <3>1. disk[r][p] \in Stamps
      BY <1>1
    <3> QED
      BY <1>1, <3>1, Nothing DEF Stamped, Stamps
  <2>4. Stamped(r, rows[r])'
    BY <1>2, <2>1, <2>3 DEF Stamped
  <2>5. ASSUME r \notin spoiled', wsState'[r] = "ready", NEW p \in Paths \ stale'[r]
        PROVE  rows'[r][p].content = disk'[r][p]
    <3>1. ~o.spoiled /\ p \notin o.touched
      BY <1>1, <1>3, <2>5 DEF Finish
    <3>2. kept[p].content = disk[r][p]
      BY <1>3, <2>5, <3>1, Finished
    <3> HIDE DEF kept
    <3> QED
      BY <1>2, <2>1, <3>2
  <2>6. Seeing(r)'
    BY <2>2, Nothing DEF Seeing
  <2> QED
    BY <2>2, <2>4, <2>5, <2>6, Nothing DEF Right, Faithful
<1>4. CASE ~(o.todo = <<>> /\ Finish(r, o, table))
  <2>1. /\ rows'[r] = table /\ spoiled' = spoiled /\ o.todo # <<>>
        /\ stale'[r] = stale[r] \cup (o.touched \ op[r].touched)
    BY <1>1, <1>4 DEF Continue
  <2>2. wsState'[r] \in {wsState[r], "stale"}
    BY <1>1, <1>4 DEF Continue
  <2>3. op'[r] = NoOp \/ op'[r] = [o EXCEPT !.pc = "stat"]
    BY <1>1, <1>4, EndTypes DEF Continue
  <2>4. Stamped(r, rows[r])'
    BY <1>2, <2>1 DEF Stamped
  <2>5. r \notin spoiled' => Faithful(r)'
    BY <1>2, <2>1, <2>2 DEF Faithful
  <2>6. CASE op'[r] = NoOp
    BY <2>4, <2>5, <2>6, Nothing DEF Right, Seeing
  <2>7. CASE op'[r] = [o EXCEPT !.pc = "stat"]
    <3>1. /\ op'[r].pc = "stat" /\ op'[r].todo = o.todo /\ op'[r].touched = o.touched
          /\ op'[r].existing = o.existing /\ op'[r].current = o.current /\ op'[r].spoiled = o.spoiled
      BY <2>7 DEF Refreshes
    <3>2. Seeing(r)'
      BY <2>1, <3>1 DEF Seeing
    <3>3. ~op'[r].spoiled => Scanned(r, op[r], rows[r])'
      BY <1>2, <2>1, <3>1 DEF Scanned, Ahead
    <3> QED
      BY <2>4, <2>5, <3>2, <3>3 DEF Right
  <2> QED
    BY <2>3, <2>6, <2>7
<1> QED
  BY <1>3, <1>4

\* The head of the loop, for a refresh that goes on or settles, keeps the order of
\* refreshes and clears.
LEMMA EndsInOrder ==
  ASSUME TypeOK, Waited, OldWorkEndsBeforeWipe, NEW r \in Roots, Ends(r), wiped' = wiped
  PROVE  Waited' /\ OldWorkEndsBeforeWipe'
<1>1. op'[r] = NoOp /\ \A q \in Roots : q # r => op'[q] = op[q]
  BY EndTypes
<1>2. \A q \in Roots : Running(q)' => q # r /\ Running(q) /\ op'[q] = op[q]
  BY <1>1, Nothing DEF Running
<1>3. OldWorkEndsBeforeWipe'
  BY <1>2 DEF OldWorkEndsBeforeWipe
<1>4. ASSUME NEW c \in clearing', NEW q \in Roots, Running(q)', op'[q].gen < c.gen
      PROVE  q \in c.waits
  <2>1. PICK b \in clearing : c = [b EXCEPT !.waits = @ \ {r}]
    BY <1>4 DEF Ends
  <2>2. b \in Clears
    BY Types
  <2>3. c.gen = b.gen /\ c.waits = b.waits \ {r}
    BY <2>1, <2>2 DEF Clears
  <2> QED
    BY <1>2, <1>4, <2>3 DEF Waited
<1> QED
  BY <1>3, <1>4 DEF Waited

\* So does a step after which no other refresh runs, of the same generations.
LEMMA StaysInOrder ==
  ASSUME Waited, OldWorkEndsBeforeWipe, clearing' = clearing, wiped' = wiped,
         \A q \in Roots : Running(q)' => Running(q) /\ op'[q].gen = op[q].gen
  PROVE  Waited' /\ OldWorkEndsBeforeWipe'
  BY DEF Waited, OldWorkEndsBeforeWipe

\* The head of the loop, for what is known of the files.
LEMMA ContinueKeeps ==
  ASSUME IInv, NEW r \in Roots, NEW o \in Refreshes, NEW table \in [Paths -> Row],
         Running(r), o.gen = op[r].gen,
         Continue(r, o, table), UNCHANGED <<world, generation, wiped, process>>,
         Stamped(r, table), op[r].touched \subseteq o.touched,
         wsState[r] = "ready" /\ r \notin spoiled =>
           \A p \in Paths \ stale[r] : table[p].content = disk[r][p],
         ~o.spoiled => Scanned(r, o, table)
  PROVE  IInv'
<1>1. TypeOK /\ Waited /\ OldWorkEndsBeforeWipe
  BY DEF IInv
<1>2. TypeOK' /\ Right(r)'
  BY <1>1, ContinueTypes, ContinueRight
<1>3. ASSUME NEW q \in Roots, q # r
      PROVE  Right(q)'
  <2>1. /\ op'[q] = op[q] /\ rows'[q] = rows[q] /\ wsState'[q] = wsState[q]
        /\ stale'[q] = stale[q] /\ (q \in spoiled' <=> q \in spoiled)
    BY <1>1, <1>3, ContinueTypes
  <2>2. disk' = disk /\ edits' = edits /\ edits \in Nat
    BY <1>1, Types, BoundsAssumption DEF world
  <2>3. Right(q)
    BY DEF IInv
  <2> QED
    BY <1>1, <2>1, <2>2, <2>3, SameRoot
<1>4. Waited' /\ OldWorkEndsBeforeWipe'
  <2>1. CASE Ends(r)
    BY <1>1, <2>1, EndsInOrder
  <2>2. CASE op' = [op EXCEPT ![r] = [o EXCEPT !.pc = "stat"]] /\ clearing' = clearing
    <3>1. op \in [Roots -> Refreshes]
      BY <1>1, Types
    <3>2. \A q \in Roots : Running(q)' => Running(q) /\ op'[q].gen = op[q].gen
      BY <2>2, <3>1 DEF Running, Refreshes
    <3> QED
      BY <1>1, <2>2, <3>2, StaysInOrder
  <2> QED
    BY <2>1, <2>2 DEF Continue, Finish
<1> QED
  BY <1>2, <1>3, <1>4 DEF IInv

-----------------------------------------------------------------------------
(* The steps of a refresh                                                  *)

\* The first of the files ahead, and the others.
LEMMA Next1 ==
  ASSUME NEW o \in Refreshes, o.todo # <<>>, NEW n \in Refreshes, n.todo = Tail(o.todo)
  PROVE  /\ Head(o.todo) \in Paths /\ Tail(o.todo) \in Seq(Paths)
         /\ Ahead(o) = {Head(o.todo)} \cup Ahead(n)
<1>1. o.todo \in Seq(Paths)
  BY DEF Refreshes
<1>2. /\ Head(o.todo) \in Paths /\ Tail(o.todo) \in Seq(Paths)
      /\ Len(Tail(o.todo)) = Len(o.todo) - 1
      /\ \A i \in 1..Len(Tail(o.todo)) : Tail(o.todo)[i] = o.todo[i + 1]
  BY <1>1, HeadTailProperties
<1>3. Len(o.todo) \in Nat \ {0} /\ Head(o.todo) = o.todo[1]
  BY <1>1, EmptySeq
<1>4. ASSUME NEW k \in 1..Len(o.todo)
      PROVE  o.todo[k] \in {Head(o.todo)} \cup Ahead(n)
  <2>1. CASE k = 1
    BY <1>3, <2>1
  <2>2. CASE k # 1
    <3>1. k - 1 \in 1..Len(n.todo) /\ (k - 1) + 1 = k
      BY <1>2, <1>3, <2>2
    <3>2. n.todo[k - 1] = o.todo[k]
      BY <1>2, <3>1
    <3> QED
      BY <3>1, <3>2 DEF Ahead
  <2> QED
    BY <2>1, <2>2
<1>5. ASSUME NEW k \in 1..Len(n.todo)
      PROVE  n.todo[k] \in Ahead(o)
  <2>1. k + 1 \in 1..Len(o.todo) /\ n.todo[k] = o.todo[k + 1]
    BY <1>2, <1>3
  <2> QED
    BY <2>1 DEF Ahead
<1>6. Head(o.todo) \in Ahead(o)
  BY <1>3 DEF Ahead
<1> QED
  BY <1>2, <1>4, <1>5, <1>6 DEF Ahead

\* What the invariant says of a root whose refresh runs.
LEMMA OfRoot ==
  ASSUME IInv, NEW r \in Roots
  PROVE  /\ TypeOK /\ Stamped(r, rows[r]) /\ Seeing(r) /\ op[r] \in Refreshes
         /\ rows[r] \in [Paths -> Row] /\ op[r].touched \subseteq Paths
         /\ edits \in Nat /\ \A p \in Paths : disk[r][p] \in Nat /\ disk[r][p] \in Stamps
         /\ wsState[r] = "ready" /\ r \notin spoiled =>
              \A p \in Paths \ stale[r] : rows[r][p].content = disk[r][p]
         /\ op[r].pc \in {"stat", "read"} /\ ~op[r].spoiled => Scanned(r, op[r], rows[r])
<1>1. TypeOK /\ Right(r)
  BY DEF IInv
<1>2. op \in [Roots -> Refreshes] /\ rows \in [Roots -> [Paths -> Row]]
      /\ disk \in [Roots -> [Paths -> Stamps]]
  BY <1>1, Types
<1>3. edits \in Nat /\ Stamps \subseteq Nat
  BY <1>1, Types, BoundsAssumption DEF Stamps
<1>4. op[r] \in Refreshes /\ op[r].touched \subseteq Paths
  BY <1>2 DEF Refreshes
<1> QED
  BY <1>1, <1>2, <1>3, <1>4 DEF Right, Faithful

\* The listing arrives.
LEMMA ListedKeeps ==
  ASSUME IInv, NEW r \in Roots, Listed(r)
  PROVE  IInv'
<1>0. PICK found \in Listings(r) : \E todo \in SetToSeqs(found) :
        Continue(r, [op[r] EXCEPT !.todo = todo, !.spoiled = stopped,
                                  !.existing = [p \in Paths |-> rows[r][p].mtime]], rows[r])
  BY DEF Listed
<1>1. PICK todo \in SetToSeqs(found) :
        Continue(r, [op[r] EXCEPT !.todo = todo, !.spoiled = stopped,
                                  !.existing = [p \in Paths |-> rows[r][p].mtime]], rows[r])
  BY <1>0
<1> DEFINE o == [op[r] EXCEPT !.todo = todo, !.spoiled = stopped,
                              !.existing = [p \in Paths |-> rows[r][p].mtime]]
<1>2. op[r].pc = "list" /\ UNCHANGED <<world, generation, wiped, process>>
  BY DEF Listed
<1>3. op[r] \in Refreshes /\ rows[r] \in [Paths -> Row] /\ op[r].touched \subseteq Paths /\ Stamped(r, rows[r])
  BY OfRoot
<1>4. found \subseteq Paths /\ stopped \in BOOLEAN
  BY <1>3, OfRoot, Types DEF Listings
<1>5. todo \in Seq(Paths) /\ \A p \in found : \E k \in 1..Len(todo) : todo[k] = p
  <2>1. IsFiniteSet(found)
    BY <1>4, BoundsAssumption, FS_Subset
  <2>2. Cardinality(found) \in Nat
    BY <2>1, FS_CardinalityType
  <2>3. todo \in [1..Cardinality(found) -> found] /\ \A i, j \in 1..Cardinality(found) : i # j => todo[i] # todo[j]
    BY DEF SetToSeqs
  <2>4. todo \in Seq(Paths) /\ Len(todo) = Cardinality(found)
    BY <1>4, <2>2, <2>3
  <2>5. todo \in Injection(1..Cardinality(found), found)
    BY <2>3 DEF Injection, IsInjective
  <2>6. IsFiniteSet(1..Cardinality(found)) /\ Cardinality(1..Cardinality(found)) = Cardinality(found)
    BY <2>2, FS_Interval
  <2>7. todo \in Surjection(1..Cardinality(found), found)
    BY <2>1, <2>5, <2>6, FS_Injection
  <2> QED
    BY <2>4, <2>7 DEF Surjection
<1>6. /\ o \in Refreshes /\ o.todo = todo /\ o.spoiled = stopped /\ o.gen = op[r].gen
      /\ o.touched = op[r].touched /\ o.current = op[r].current
      /\ o.existing = [p \in Paths |-> rows[r][p].mtime]
  <2>1. [p \in Paths |-> rows[r][p].mtime] \in [Paths -> Stamps]
    BY <1>3 DEF Row
  <2> QED
    BY <1>3, <1>4, <1>5, <2>1 DEF Refreshes
<1>7. o.current = {}
  BY <1>2, <1>6, OfRoot DEF Seeing
<1> HIDE DEF o
<1>8. ASSUME ~o.spoiled
      PROVE  Scanned(r, o, rows[r])
  <2>1. {p \in Paths : disk[r][p] # 0} \ o.touched \subseteq found
    BY <1>6, <1>8 DEF Listings
  <2>2. found \subseteq Ahead(o)
    BY <1>5, <1>6 DEF Ahead
  <2> QED
    BY <1>6, <1>7, <2>1, <2>2 DEF Scanned
<1>9. Continue(r, o, rows[r])
  BY <1>1 DEF o
<1>10. wsState[r] = "ready" /\ r \notin spoiled => \A p \in Paths \ stale[r] : rows[r][p].content = disk[r][p]
  BY OfRoot
<1> QED
  BY <1>2, <1>3, <1>6, <1>8, <1>9, <1>10, ContinueKeeps DEF Running

\* One file less ahead: the one that was looked at is confirmed and its row right,
\* or it has been touched, or there is none.
LEMMA OneLess ==
  ASSUME NEW r \in Roots, NEW o \in Refreshes, o.todo # <<>>, NEW n \in Refreshes, n.todo = Tail(o.todo),
         n.existing = o.existing, NEW table, NEW new,
         Scanned(r, o, table), \A p \in Paths \ {Head(o.todo)} : new[p] = table[p],
         \/ /\ n.current = o.current /\ n.touched = o.touched /\ disk[r][Head(o.todo)] = 0 /\ new = table
         \/ /\ n.current = o.current \cup {Head(o.todo)} /\ n.touched = o.touched
            /\ disk[r][Head(o.todo)] # 0
            /\ Head(o.todo) \in Paths \ o.touched => new[Head(o.todo)].content = disk[r][Head(o.todo)]
         \/ n.current = o.current /\ n.touched = o.touched \cup {Head(o.todo)} /\ new = table
  PROVE  Scanned(r, n, new)
<1>1. Ahead(o) = {Head(o.todo)} \cup Ahead(n) /\ Head(o.todo) \in Paths
  BY Next1
<1> SUFFICES ASSUME NEW p \in Paths \ n.touched
             PROVE  /\ disk[r][p] # 0 => p \in Ahead(n) \/ (p \in n.current /\ new[p].content = disk[r][p])
                    /\ disk[r][p] = 0 => p \notin n.current
                    /\ p \in Ahead(n) \/ disk[r][p] = 0 =>
                         new[p].mtime = n.existing[p] \/ new[p].content = disk[r][p]
  BY DEF Scanned
<1>2. /\ disk[r][p] # 0 => p \in Ahead(o) \/ (p \in o.current /\ table[p].content = disk[r][p])
      /\ disk[r][p] = 0 => p \notin o.current
      /\ p \in Ahead(o) \/ disk[r][p] = 0 =>
           table[p].mtime = o.existing[p] \/ table[p].content = disk[r][p]
  BY DEF Scanned
<1>3. CASE p = Head(o.todo)
  BY <1>1, <1>2, <1>3
<1>4. CASE p # Head(o.todo)
  <2>1. new[p] = table[p] /\ (p \in n.current <=> p \in o.current) /\ (p \in Ahead(n) <=> p \in Ahead(o))
    BY <1>1, <1>4
  <2> QED
    BY <1>2, <2>1
<1> QED
  BY <1>3, <1>4

\* stat() answers.
LEMMA StatKeeps ==
  ASSUME IInv, NEW r \in Roots, Stat(r)
  PROVE  IInv'
<1> DEFINE o == op[r]
           p == Head(o.todo)
           next == [o EXCEPT !.todo = Tail(@)]
           confirmed == [next EXCEPT !.current = @ \cup {p}]
<1>1. /\ o.pc = "stat" /\ UNCHANGED <<world, generation, wiped, process>>
      /\ \/ disk[r][p] = 0 /\ Continue(r, next, rows[r])
         \/ disk[r][p] # 0 /\ o.existing[p] = disk[r][p] /\ Continue(r, confirmed, rows[r])
         \/ /\ disk[r][p] # 0
            /\ op' = [op EXCEPT ![r] = [o EXCEPT !.pc = "read", !.mtime = disk[r][p]]]
            /\ UNCHANGED <<rows, wsState, clearing, stale, spoiled>>
  BY DEF Stat
<1>2. /\ o \in Refreshes /\ o.todo # <<>> /\ rows[r] \in [Paths -> Row] /\ Stamped(r, rows[r])
      /\ o.touched \subseteq Paths /\ (~o.spoiled => Scanned(r, o, rows[r]))
      /\ TypeOK /\ Running(r)
      /\ wsState[r] = "ready" /\ r \notin spoiled =>
           \A q \in Paths \ stale[r] : rows[r][q].content = disk[r][q]
  BY <1>1, OfRoot DEF Seeing, Running
<1>3. /\ next \in Refreshes /\ next.todo = Tail(o.todo) /\ next.existing = o.existing /\ next.gen = o.gen
      /\ next.current = o.current /\ next.touched = o.touched /\ next.spoiled = o.spoiled
      /\ confirmed \in Refreshes /\ confirmed.todo = Tail(o.todo) /\ confirmed.existing = o.existing
      /\ confirmed.current = o.current \cup {p} /\ confirmed.touched = o.touched
      /\ confirmed.spoiled = o.spoiled /\ confirmed.gen = o.gen
      /\ p \in Paths
  <2>1. p \in Paths /\ Tail(o.todo) \in Seq(Paths)
    BY <1>2, HeadTailProperties DEF Refreshes
  <2> QED
    BY <1>2, <2>1 DEF Refreshes
<1>4. CASE disk[r][p] = 0 /\ Continue(r, next, rows[r])
  <2>1. ~next.spoiled => Scanned(r, next, rows[r])
    <3> HIDE DEF next
    <3> QED
      BY <1>2, <1>3, <1>4, OneLess
  <2> HIDE DEF next
  <2> QED
    BY <1>1, <1>2, <1>3, <1>4, <2>1, ContinueKeeps
<1>5. CASE disk[r][p] # 0 /\ o.existing[p] = disk[r][p] /\ Continue(r, confirmed, rows[r])
  <2>1. ~confirmed.spoiled => Scanned(r, confirmed, rows[r])
    <3> SUFFICES ASSUME ~o.spoiled
                 PROVE  Scanned(r, confirmed, rows[r])
      BY <1>3
    <3>1. p \in Paths \ o.touched => rows[r][p].content = disk[r][p]
      <4> SUFFICES ASSUME p \in Paths \ o.touched
                   PROVE  rows[r][p].content = disk[r][p]
        OBVIOUS
      <4>1. p \in Ahead(o)
        <5> HIDE DEF next
        <5>1. Ahead(o) = {Head(o.todo)} \cup Ahead(next)
          BY <1>2, <1>3, Next1
        <5> QED
          BY <5>1
      <4>2. rows[r][p].mtime = disk[r][p] \/ rows[r][p].content = disk[r][p]
        BY <1>2, <1>5, <4>1 DEF Scanned
      <4>3. rows[r][p].mtime <= rows[r][p].content /\ rows[r][p].content <= disk[r][p]
        BY <1>2, <1>5 DEF Stamped
      <4>4. rows[r][p].content \in Nat /\ disk[r][p] \in Nat
        BY <1>2, BoundsAssumption, OfRoot DEF Row, Stamps
      <4> HIDE DEF p
      <4> QED
        BY <4>2, <4>3, <4>4
    <3> HIDE DEF confirmed
    <3> QED
      BY <1>2, <1>3, <1>5, <3>1, OneLess
  <2> HIDE DEF confirmed
  <2> QED
    BY <1>1, <1>2, <1>3, <1>5, <2>1, ContinueKeeps
<1>6. CASE /\ disk[r][p] # 0
           /\ op' = [op EXCEPT ![r] = [o EXCEPT !.pc = "read", !.mtime = disk[r][p]]]
           /\ UNCHANGED <<rows, wsState, clearing, stale, spoiled>>
  <2> DEFINE n == [o EXCEPT !.pc = "read", !.mtime = disk[r][p]]
  <2>1. disk[r][p] \in Stamps /\ disk[r][p] \in 1..edits
    <3>1. disk[r][p] \in Nat /\ disk[r][p] <= edits /\ edits \in Nat /\ disk[r][p] \in Stamps
      BY <1>2, <1>3, OfRoot DEF Stamped
    <3> QED
      BY <1>6, <3>1
  <2>2. /\ n \in Refreshes /\ n.pc = "read" /\ n.mtime = disk[r][p] /\ n.todo = o.todo /\ n.gen = o.gen
        /\ n.touched = o.touched /\ n.current = o.current /\ n.existing = o.existing
        /\ n.spoiled = o.spoiled
    BY <1>2, <2>1 DEF Refreshes
  <2>3. op \in [Roots -> Refreshes]
    BY <1>2, Types
  <2>4. op'[r] = n /\ op' \in [Roots -> Refreshes] /\ \A q \in Roots \ {r} : op'[q] = op[q]
    BY <1>6, <2>2, <2>3
  <2>5. TypeOK'
    BY <1>1, <1>2, <1>6, <2>4, Types, TypesKept
  <2>6. disk' = disk /\ edits' = edits /\ edits \in Nat
    BY <1>1, <1>2, OfRoot DEF world
  <2> HIDE DEF n
  <2>7. ASSUME NEW q \in Roots, q # r
        PROVE  Right(q)'
    BY <1>2, <1>6, <2>4, <2>6, <2>7, SameRoot DEF IInv
  <2>8. Right(r)'
    <3>1. Stamped(r, rows[r])'
      BY <1>2, <1>6, <2>6 DEF Stamped
    <3>2. Seeing(r)'
      BY <1>2, <1>3, <2>1, <2>2, <2>4, <2>6, OfRoot DEF Seeing
    <3>3. ~op'[r].spoiled => Scanned(r, op[r], rows[r])'
      BY <1>2, <1>6, <2>2, <2>4, <2>6 DEF Scanned, Ahead
    <3>4. r \notin spoiled' => Faithful(r)'
      BY <1>2, <1>6, <2>6 DEF Faithful
    <3> QED
      BY <3>1, <3>2, <3>3, <3>4 DEF Right
  <2>9. \A q \in Roots : Running(q)' => Running(q) /\ op'[q].gen = op[q].gen
    BY <1>2, <2>2, <2>4 DEF Running
  <2>10. Waited' /\ OldWorkEndsBeforeWipe'
    BY <1>1, <1>6, <2>9, StaysInOrder DEF IInv
  <2> QED
    BY <2>5, <2>7, <2>8, <2>10 DEF IInv
<1> QED
  BY <1>1, <1>4, <1>5, <1>6

\* readFile() answers.
LEMMA ReadKeeps ==
  ASSUME IInv, NEW r \in Roots, Read(r)
  PROVE  IInv'
<1> DEFINE o == op[r]
           p == Head(o.todo)
           next == [o EXCEPT !.todo = Tail(@)]
           confirmed == [next EXCEPT !.current = @ \cup {p}]
           table == [rows[r] EXCEPT ![p] = [mtime |-> o.mtime, content |-> disk[r][p]]]
<1>1. /\ o.pc = "read" /\ UNCHANGED <<world, generation, wiped, process>>
      /\ \/ disk[r][p] = 0 /\ Continue(r, next, rows[r])
         \/ disk[r][p] # 0 /\ Continue(r, confirmed, table)
  BY DEF Read
<1>2. /\ o \in Refreshes /\ o.todo # <<>> /\ rows[r] \in [Paths -> Row] /\ Stamped(r, rows[r])
      /\ o.touched \subseteq Paths /\ (~o.spoiled => Scanned(r, o, rows[r]))
      /\ TypeOK /\ Running(r)
      /\ wsState[r] = "ready" /\ r \notin spoiled =>
           \A q \in Paths \ stale[r] : rows[r][q].content = disk[r][q]
  BY <1>1, OfRoot DEF Seeing, Running
<1>3. /\ next \in Refreshes /\ next.todo = Tail(o.todo) /\ next.existing = o.existing /\ next.gen = o.gen
      /\ next.current = o.current /\ next.touched = o.touched /\ next.spoiled = o.spoiled
      /\ confirmed \in Refreshes /\ confirmed.todo = Tail(o.todo) /\ confirmed.existing = o.existing
      /\ confirmed.current = o.current \cup {p} /\ confirmed.touched = o.touched
      /\ confirmed.spoiled = o.spoiled /\ confirmed.gen = o.gen
      /\ p \in Paths
  <2>1. p \in Paths /\ Tail(o.todo) \in Seq(Paths)
    BY <1>2, HeadTailProperties DEF Refreshes
  <2> QED
    BY <1>2, <2>1 DEF Refreshes
<1>4. CASE disk[r][p] = 0 /\ Continue(r, next, rows[r])
  <2>1. ~next.spoiled => Scanned(r, next, rows[r])
    <3> HIDE DEF next
    <3> QED
      BY <1>2, <1>3, <1>4, OneLess
  <2> HIDE DEF next
  <2> QED
    BY <1>1, <1>2, <1>3, <1>4, <2>1, ContinueKeeps
<1>5. CASE disk[r][p] # 0 /\ Continue(r, confirmed, table)
  <2>1. /\ o.mtime \in 1..edits /\ o.mtime <= disk[r][p] /\ disk[r][p] <= edits /\ edits \in Nat
        /\ o.mtime \in Stamps /\ disk[r][p] \in Stamps /\ disk[r][p] \in Nat
    BY <1>1, <1>2, <1>3, <1>5, OfRoot DEF Seeing, Stamped, Refreshes
  <2>2. table \in [Paths -> Row]
    BY <1>2, <2>1 DEF Row
  <2>3. /\ table[p].mtime = o.mtime /\ table[p].content = disk[r][p]
        /\ \A q \in Paths \ {p} : table[q] = rows[r][q]
    BY <1>2, <1>3
  <2>4. Stamped(r, table)
    <3> HIDE DEF table, p
    <3> SUFFICES ASSUME NEW q \in Paths
                 PROVE  /\ disk[r][q] <= edits /\ table[q].content <= edits
                        /\ table[q].mtime <= table[q].content
                        /\ table[q].mtime = 0 => table[q].content = 0
                        /\ disk[r][q] # 0 => table[q].content <= disk[r][q]
      BY DEF Stamped
    <3>1. CASE q = p
      BY <2>1, <2>3, <3>1
    <3>2. CASE q # p
      BY <1>2, <2>3, <3>2 DEF Stamped
    <3> QED
      BY <3>1, <3>2
  <2>5. ~confirmed.spoiled => Scanned(r, confirmed, table)
    <3> HIDE DEF confirmed, table
    <3> QED
      BY <1>2, <1>3, <1>5, <2>3, OneLess
  <2>6. wsState[r] = "ready" /\ r \notin spoiled =>
          \A q \in Paths \ stale[r] : table[q].content = disk[r][q]
    <3> HIDE DEF table, p
    <3> QED
      BY <1>2, <2>3
  <2> HIDE DEF confirmed, table
  <2> QED
    BY <1>1, <1>2, <1>3, <1>5, <2>2, <2>4, <2>5, <2>6, ContinueKeeps
<1> QED
  BY <1>1, <1>4, <1>5

\* stat() or readFile() throws.
LEMMA UnreadableKeeps ==
  ASSUME IInv, NEW r \in Roots, Unreadable(r)
  PROVE  IInv'
<1> DEFINE o == op[r]
           p == Head(o.todo)
           next == [o EXCEPT !.todo = Tail(@), !.touched = @ \cup {p}]
<1>1. /\ o.pc \in {"stat", "read"} /\ UNCHANGED <<world, generation, wiped, process>>
      /\ Continue(r, next, rows[r])
  BY DEF Unreadable
<1>2. /\ o \in Refreshes /\ o.todo # <<>> /\ rows[r] \in [Paths -> Row] /\ Stamped(r, rows[r])
      /\ o.touched \subseteq Paths /\ (~o.spoiled => Scanned(r, o, rows[r]))
      /\ TypeOK /\ Running(r)
      /\ wsState[r] = "ready" /\ r \notin spoiled =>
           \A q \in Paths \ stale[r] : rows[r][q].content = disk[r][q]
  BY <1>1, OfRoot DEF Seeing, Running
<1>3. /\ next \in Refreshes /\ next.todo = Tail(o.todo) /\ next.existing = o.existing /\ next.gen = o.gen
      /\ next.current = o.current /\ next.touched = o.touched \cup {p} /\ next.spoiled = o.spoiled
  <2>1. p \in Paths /\ Tail(o.todo) \in Seq(Paths)
    BY <1>2, HeadTailProperties DEF Refreshes
  <2> QED
    BY <1>2, <2>1 DEF Refreshes
<1> HIDE DEF next
<1>4. ~next.spoiled => Scanned(r, next, rows[r])
  BY <1>2, <1>3, OneLess
<1> QED
  BY <1>1, <1>2, <1>3, <1>4, ContinueKeeps

\* The listing fails.
LEMMA ListFailsKeeps ==
  ASSUME IInv, NEW r \in Roots, ListFails(r)
  PROVE  IInv'
<1>1. /\ UNCHANGED <<world, rows, generation, wiped, process, stale, spoiled>> /\ Ends(r)
      /\ wsState' = [wsState EXCEPT ![r] = IF stopped THEN "stale" ELSE "failed"]
  BY DEF ListFails
<1>2. TypeOK /\ Waited /\ OldWorkEndsBeforeWipe /\ \A q \in Roots : Right(q)
  BY DEF IInv
<1>3. wsState \in [Roots -> States] /\ edits \in Nat
  BY <1>2, Types, BoundsAssumption
<1>4. /\ wsState' \in [Roots -> States] /\ wsState'[r] # "ready"
      /\ \A q \in Roots \ {r} : wsState'[q] = wsState[q]
  BY <1>1, <1>3 DEF States
<1>5. /\ op' \in [Roots -> Refreshes] /\ clearing' \subseteq Clears
      /\ op'[r] = NoOp /\ \A q \in Roots : q # r => op'[q] = op[q]
  BY <1>1, <1>2, EndTypes
<1>6. TypeOK'
  BY <1>1, <1>2, <1>4, <1>5, Types, TypesKept
<1>7. disk' = disk /\ edits' = edits
  BY <1>1 DEF world
<1>8. ASSUME NEW q \in Roots, q # r
      PROVE  Right(q)'
  BY <1>1, <1>2, <1>3, <1>4, <1>5, <1>7, <1>8, SameRoot
<1>9. Right(r)'
  <2>1. Stamped(r, rows[r])'
    BY <1>1, <1>2, <1>7 DEF Right, Stamped
  <2>2. Seeing(r)'
    BY <1>5, Nothing DEF Seeing
  <2>3. op'[r].pc = "idle"
    BY <1>5, Nothing
  <2> QED
    BY <1>4, <2>1, <2>2, <2>3 DEF Right, Faithful
<1> QED
  BY <1>1, <1>2, <1>6, <1>8, <1>9, EndsInOrder DEF IInv

\* A refresh begins.
LEMMA RefreshKeeps ==
  ASSUME IInv, NEW r \in Roots, Refresh(r)
  PROVE  IInv'
<1>1. /\ UNCHANGED <<world, rows, generation, clearing, wiped, process, stale, spoiled>> /\ ~Running(r)
      /\ \/ wsState' = [wsState EXCEPT ![r] = "stale"] /\ op' = op
         \/ /\ wsState' = [wsState EXCEPT ![r] = IF @ = "ready" THEN @ ELSE "building"]
            /\ op' = [op EXCEPT ![r] = [NoOp EXCEPT !.pc = "list", !.gen = generation]]
  BY DEF Refresh
<1>2. TypeOK /\ Waited /\ OldWorkEndsBeforeWipe /\ \A q \in Roots : Right(q)
  BY DEF IInv
<1>3. /\ wsState \in [Roots -> States] /\ edits \in Nat /\ op \in [Roots -> Refreshes]
      /\ generation \in 0..MaxClears /\ clearing \subseteq Clears /\ wiped \in 0..generation
  BY <1>2, Types, BoundsAssumption
<1>4. /\ wsState' \in [Roots -> States] /\ wsState'[r] \in {wsState[r], "stale", "building"}
      /\ \A q \in Roots \ {r} : wsState'[q] = wsState[q]
  BY <1>1, <1>3 DEF States
<1> DEFINE new == [NoOp EXCEPT !.pc = "list", !.gen = generation]
<1>5. new \in Refreshes /\ new.pc = "list" /\ new.gen = generation /\ new.current = {}
  <2>1. {"list"} \subseteq {"idle", "list", "stat", "read"}
    OBVIOUS
  <2>2. NoOp \in Refreshes /\ NoOp.current = {}
    BY Nothing DEF NoOp
  <2> HIDE DEF NoOp
  <2> QED
    BY <1>3, <2>1, <2>2 DEF Refreshes
<1> HIDE DEF new
<1>6. /\ op' \in [Roots -> Refreshes] /\ \A q \in Roots \ {r} : op'[q] = op[q]
      /\ op'[r] = op[r] \/ op'[r] = new
  BY <1>1, <1>3, <1>5 DEF new
<1>7. TypeOK'
  <2>1. clearing' \subseteq Clears
    BY <1>1, <1>3 DEF Clears
  <2> QED
    BY <1>1, <1>2, <1>4, <1>6, <2>1, Types, TypesKept
<1>8. disk' = disk /\ edits' = edits
  BY <1>1 DEF world
<1>9. ASSUME NEW q \in Roots, q # r
      PROVE  Right(q)'
  BY <1>1, <1>2, <1>3, <1>4, <1>6, <1>8, <1>9, SameRoot
<1>10. Right(r)'
  <2>1. Stamped(r, rows[r])'
    BY <1>1, <1>2, <1>8 DEF Right, Stamped
  <2>2. op'[r].pc \notin {"stat", "read"} /\ (op'[r].pc = "list" => op'[r].current = {})
    BY <1>1, <1>5, <1>6 DEF Running
  <2>3. r \notin spoiled' => Faithful(r)'
    BY <1>1, <1>2, <1>4, <1>8 DEF Right, Faithful
  <2> QED
    BY <2>1, <2>2, <2>3 DEF Right, Seeing
<1>11. Waited'
  <2>1. ASSUME NEW c \in clearing', NEW q \in Roots, Running(q)', op'[q].gen < c.gen
        PROVE  q \in c.waits
    <3>1. c \in clearing /\ c.gen \in Nat /\ c.gen <= generation
      BY <1>1, <1>3 DEF Clears
    <3>2. Running(q) /\ op'[q] = op[q]
      BY <1>1, <1>3, <1>5, <1>6, <2>1, <3>1 DEF Running
    <3> QED
      BY <1>2, <2>1, <3>1, <3>2 DEF Waited
  <2> QED
    BY <2>1 DEF Waited
<1>12. OldWorkEndsBeforeWipe'
  <2>1. ASSUME NEW q \in Roots, Running(q)'
        PROVE  op'[q].gen >= wiped
    <3>1. CASE op'[q] = op[q]
      BY <1>2, <2>1, <3>1 DEF OldWorkEndsBeforeWipe, Running
    <3>2. CASE op'[q] # op[q]
      <4>1. op'[q].gen = generation
        BY <1>5, <1>6, <3>2
      <4> QED
        BY <1>3, <4>1
    <3> QED
      BY <3>1, <3>2
  <2> QED
    BY <1>1, <2>1 DEF OldWorkEndsBeforeWipe
<1> QED
  BY <1>7, <1>9, <1>10, <1>11, <1>12 DEF IInv

-----------------------------------------------------------------------------
(* The other steps                                                         *)

\* clear() is called.
LEMMA ClearKeeps ==
  ASSUME IInv, Clear
  PROVE  IInv'
<1>1. /\ UNCHANGED <<world, rows, wsState, op, wiped, process, stale, spoiled>>
      /\ generation < MaxClears /\ generation' = generation + 1
      /\ clearing' = clearing \cup {[gen |-> generation + 1, waits |-> {r \in Roots : Running(r)}]}
  BY DEF Clear
<1>2. TypeOK /\ Waited /\ OldWorkEndsBeforeWipe /\ \A q \in Roots : Right(q)
  BY DEF IInv
<1>3. generation \in 0..MaxClears /\ clearing \subseteq Clears /\ wiped \in 0..generation /\ edits \in Nat
  BY <1>2, Types, BoundsAssumption
<1>4. /\ disk' = disk /\ edits' = edits /\ stopped' = stopped /\ closed' = closed /\ restarts' = restarts
      /\ MaxClears \in Nat
  BY <1>1, BoundsAssumption DEF world, process
<1>5. generation' \in 0..MaxClears /\ clearing' \subseteq Clears' /\ wiped' \in 0..generation'
  <2>1. Clears \subseteq Clears'
    BY <1>1, <1>3, <1>4 DEF Clears
  <2>2. [gen |-> generation + 1, waits |-> {r \in Roots : Running(r)}] \in Clears'
    BY <1>1, <1>3, <1>4 DEF Clears
  <2> QED
    BY <1>1, <1>3, <1>4, <2>1, <2>2
<1>6. TypeOK'
  BY <1>1, <1>2, <1>4, <1>5 DEF TypeOK, Clears
<1>7. \A q \in Roots : Right(q)'
  BY <1>1, <1>2, <1>3, <1>4, SameRoot
<1>8. Waited'
  BY <1>1, <1>2 DEF Waited, Running
<1>9. OldWorkEndsBeforeWipe'
  BY <1>1, <1>2 DEF OldWorkEndsBeforeWipe, Running
<1> QED
  BY <1>6, <1>7, <1>8, <1>9 DEF IInv

\* What follows of rows that are not there.
LEMMA NoRows ==
  ASSUME TypeOK, NEW r \in Roots, Stamped(r, rows[r]), disk' = disk, edits' = edits,
         rows'[r] = [p \in Paths |-> NoRow]
  PROVE  Stamped(r, rows[r])'
<1> SUFFICES ASSUME NEW p \in Paths
             PROVE  /\ disk'[r][p] <= edits' /\ rows'[r][p].content <= edits'
                    /\ rows'[r][p].mtime <= rows'[r][p].content
                    /\ rows'[r][p].mtime = 0 => rows'[r][p].content = 0
                    /\ disk'[r][p] # 0 => rows'[r][p].content <= disk'[r][p]
  BY DEF Stamped
<1>1. disk[r][p] \in Nat /\ edits \in Nat /\ disk[r][p] <= edits
  BY Types, BoundsAssumption DEF Stamps, Stamped
<1>2. rows'[r][p].mtime = 0 /\ rows'[r][p].content = 0
  BY Nothing
<1> QED
  BY <1>1, <1>2

\* The tables are emptied.
LEMMA WipeKeeps ==
  ASSUME IInv, Wipe
  PROVE  IInv'
<1>1. PICK c \in clearing :
        /\ c.waits = {} /\ clearing' = clearing \ {c} /\ wiped' = c.gen
        /\ rows' = [r \in Roots |-> [p \in Paths |-> NoRow]] /\ wsState' = [r \in Roots |-> "cold"]
        /\ op' = [r \in Roots |-> [op[r] EXCEPT !.spoiled = Running(r)]]
        /\ UNCHANGED <<world, generation, process, stale, spoiled>>
  BY DEF Wipe
<1>2. TypeOK /\ Waited /\ OldWorkEndsBeforeWipe /\ \A q \in Roots : Right(q)
  BY DEF IInv
<1>3. /\ generation \in 0..MaxClears /\ clearing \subseteq Clears /\ op \in [Roots -> Refreshes]
      /\ c.gen \in 1..generation
  BY <1>2, Types DEF Clears
<1>4. /\ disk' = disk /\ edits' = edits /\ stopped' = stopped /\ closed' = closed /\ restarts' = restarts
      /\ generation' = generation /\ stale' = stale /\ spoiled' = spoiled
  BY <1>1 DEF world, process
<1>5. ASSUME NEW r \in Roots
      PROVE  /\ op'[r] \in Refreshes /\ op'[r].pc = op[r].pc /\ op'[r].gen = op[r].gen
             /\ op'[r].todo = op[r].todo /\ op'[r].mtime = op[r].mtime /\ op'[r].current = op[r].current
             /\ op'[r].pc # "idle" => op'[r].spoiled
  <2>1. op[r] \in Refreshes /\ op'[r] = [op[r] EXCEPT !.spoiled = Running(r)]
    BY <1>1, <1>3
  <2>2. Running(r) \in BOOLEAN /\ (Running(r) <=> op[r].pc # "idle")
    BY DEF Running
  <2>3. op'[r].spoiled = Running(r) /\ op'[r].pc = op[r].pc
    BY <2>1 DEF Refreshes
  <2>4. op'[r].pc # "idle" => op'[r].spoiled
    BY <2>2, <2>3
  <2>5. op'[r] \in Refreshes
    BY <2>1, <2>2 DEF Refreshes
  <2> QED
    BY <2>1, <2>3, <2>4, <2>5 DEF Refreshes
<1>6. TypeOK'
  <2>1. op' \in [Roots -> Refreshes]
    BY <1>1, <1>5
  <2>2. rows' \in [Roots -> [Paths -> Row]] /\ wsState' \in [Roots -> States]
    BY <1>1, Nothing DEF States
  <2>3. clearing' \subseteq Clears /\ wiped' \in 0..generation
    BY <1>1, <1>3
  <2> QED
    BY <1>2, <1>4, <2>1, <2>2, <2>3 DEF TypeOK, Stamps, Row, Refreshes, Clears
<1>7. ASSUME NEW r \in Roots
      PROVE  Right(r)'
  <2>1. rows'[r] = [p \in Paths |-> NoRow] /\ wsState'[r] = "cold"
    BY <1>1
  <2>2. Stamped(r, rows[r])'
    BY <1>2, <1>4, <2>1, NoRows DEF Right
  <2>3. Seeing(r)'
    BY <1>2, <1>4, <1>5 DEF Right, Seeing
  <2>4. op'[r].pc \in {"stat", "read"} => op'[r].spoiled
    BY <1>5
  <2> QED
    BY <2>1, <2>2, <2>3, <2>4 DEF Right, Faithful
<1>8. Waited'
  BY <1>1, <1>2, <1>5 DEF Waited, Running
<1>9. OldWorkEndsBeforeWipe'
  <2>1. ASSUME NEW q \in Roots, Running(q)'
        PROVE  op'[q].gen >= c.gen
    <3>1. ~(op[q].gen < c.gen)
      BY <1>1, <1>2, <1>5, <2>1 DEF Waited, Running
    <3>2. op[q].gen \in Nat /\ c.gen \in Nat /\ op'[q].gen = op[q].gen
      BY <1>3, <1>5, BoundsAssumption DEF Refreshes
    <3> QED
      BY <3>1, <3>2
  <2> QED
    BY <1>1, <2>1 DEF OldWorkEndsBeforeWipe
<1> QED
  BY <1>6, <1>7, <1>8, <1>9 DEF IInv

\* The user edits a file.
LEMMA EditKeeps ==
  ASSUME IInv, NEW r \in Roots, NEW p \in Paths, Edit(r, p)
  PROVE  IInv'
<1>1. PICK to \in {0, edits + 1} \ {disk[r][p]} : disk' = [disk EXCEPT ![r][p] = to]
  BY DEF Edit
<1>2. /\ edits <= MaxEdits /\ edits' = edits + 1
      /\ stale' = [stale EXCEPT ![r] = @ \cup {p}]
      /\ op' = [op EXCEPT ![r].touched = IF Running(r) THEN @ \cup {p} ELSE @]
      /\ UNCHANGED <<rows, wsState, generation, clearing, wiped, process, spoiled>>
  BY DEF Edit
<1>3. TypeOK /\ Waited /\ OldWorkEndsBeforeWipe /\ \A q \in Roots : Right(q)
  BY DEF IInv
<1>4. /\ edits \in 1..(MaxEdits + 1) /\ disk \in [Roots -> [Paths -> Stamps]] /\ op \in [Roots -> Refreshes]
      /\ stale \in [Roots -> SUBSET Paths] /\ rows \in [Roots -> [Paths -> Row]] /\ MaxEdits \in Nat
  BY <1>3, Types, BoundsAssumption
<1>5. /\ edits' \in 1..(MaxEdits + 1) /\ to \in Stamps /\ to \in {0, edits'}
      /\ edits \in Nat /\ edits' \in Nat /\ edits' = edits + 1
  BY <1>1, <1>2, <1>4 DEF Stamps
<1>6. /\ disk' \in [Roots -> [Paths -> Stamps]] /\ disk'[r][p] = to
      /\ \A q \in Paths \ {p} : disk'[r][q] = disk[r][q]
      /\ \A q \in Roots \ {r} : disk'[q] = disk[q]
  BY <1>1, <1>4, <1>5
<1>7. /\ op' \in [Roots -> Refreshes] /\ \A q \in Roots \ {r} : op'[q] = op[q]
      /\ op'[r].pc = op[r].pc /\ op'[r].gen = op[r].gen /\ op'[r].todo = op[r].todo
      /\ op'[r].mtime = op[r].mtime /\ op'[r].existing = op[r].existing /\ op'[r].current = op[r].current
      /\ op'[r].spoiled = op[r].spoiled
      /\ Running(r) => op'[r].touched = op[r].touched \cup {p}
  <2> DEFINE set == IF Running(r) THEN op[r].touched \cup {p} ELSE op[r].touched
  <2>1. op[r] \in Refreshes /\ set \in SUBSET Paths
    BY <1>4 DEF Refreshes
  <2>2. op' = [op EXCEPT ![r] = [op[r] EXCEPT !.touched = set]]
    BY <1>2, <1>4
  <2> HIDE DEF set
  <2>3. [op[r] EXCEPT !.touched = set] \in Refreshes
    BY <2>1 DEF Refreshes
  <2>4. op'[r] = [op[r] EXCEPT !.touched = set] /\ op' \in [Roots -> Refreshes]
        /\ \A q \in Roots \ {r} : op'[q] = op[q]
    BY <1>4, <2>2, <2>3
  <2>5. op'[r].touched = set
    BY <2>1, <2>4 DEF Refreshes
  <2> QED
    BY <2>1, <2>4, <2>5 DEF Refreshes, set
<1>8. stale' \in [Roots -> SUBSET Paths] /\ stale'[r] = stale[r] \cup {p}
      /\ \A q \in Roots \ {r} : stale'[q] = stale[q]
  BY <1>2, <1>4
<1>9. TypeOK'
  <2>1. stopped' = stopped /\ closed' = closed /\ restarts' = restarts
    BY <1>2 DEF process
  <2> QED
    BY <1>2, <1>3, <1>5, <1>6, <1>7, <1>8, <2>1 DEF TypeOK, Stamps, Row, Refreshes, Clears
<1>10. ASSUME NEW q \in Roots, q # r
       PROVE  Right(q)'
  <2>1. disk'[q] = disk[q] /\ op'[q] = op[q] /\ stale'[q] = stale[q] /\ rows'[q] = rows[q]
        /\ wsState'[q] = wsState[q] /\ (q \in spoiled' <=> q \in spoiled)
    BY <1>2, <1>6, <1>7, <1>8, <1>10
  <2>2. Right(q) /\ edits <= edits'
    BY <1>3, <1>5
  <2> QED
    BY <1>3, <1>5, <2>1, <2>2, SameRoot
<1>11. Right(r)'
  <2>1. Stamped(r, rows[r]) /\ Seeing(r)
    BY <1>3 DEF Right
  <2>2. Stamped(r, rows[r])'
    <3> SUFFICES ASSUME NEW q \in Paths
                 PROVE  /\ disk'[r][q] <= edits' /\ rows'[r][q].content <= edits'
                        /\ rows'[r][q].mtime <= rows'[r][q].content
                        /\ rows'[r][q].mtime = 0 => rows'[r][q].content = 0
                        /\ disk'[r][q] # 0 => rows'[r][q].content <= disk'[r][q]
      BY DEF Stamped
    <3>1. rows'[r][q] = rows[r][q] /\ rows[r][q].content \in Nat /\ disk[r][q] \in Nat
      BY <1>2, <1>4, BoundsAssumption DEF Row, Stamps
    <3>2. /\ disk[r][q] <= edits /\ rows[r][q].content <= edits
          /\ rows[r][q].mtime <= rows[r][q].content
          /\ rows[r][q].mtime = 0 => rows[r][q].content = 0
          /\ disk[r][q] # 0 => rows[r][q].content <= disk[r][q]
      BY <2>1 DEF Stamped
    <3>3. CASE q = p
      <4>1. disk'[r][q] \in {0, edits'}
        BY <1>5, <1>6, <3>3
      <4> QED
        BY <1>5, <3>1, <3>2, <4>1
    <3>4. CASE q # p
      <4>1. disk'[r][q] = disk[r][q]
        BY <1>6, <3>4
      <4> QED
        BY <1>5, <3>1, <3>2, <4>1
    <3> QED
      BY <3>3, <3>4
  <2>3. Seeing(r)'
    <3>1. /\ op'[r].pc = "list" => op'[r].current = {}
          /\ op'[r].pc \in {"stat", "read"} => op'[r].todo # <<>>
      BY <1>7, <2>1 DEF Seeing
    <3>2. ASSUME op'[r].pc = "read"
          PROVE  /\ op'[r].mtime \in 1..edits'
                 /\ disk'[r][Head(op'[r].todo)] # 0 => op'[r].mtime <= disk'[r][Head(op'[r].todo)]
      <4> DEFINE h == Head(op[r].todo)
      <4>1. op[r].mtime \in 1..edits /\ (disk[r][h] # 0 => op[r].mtime <= disk[r][h])
        BY <1>7, <2>1, <3>2 DEF Seeing
      <4>2. op[r] \in Refreshes /\ op[r].todo # <<>>
        BY <1>4, <1>7, <2>1, <3>2 DEF Seeing
      <4>3. h \in Paths /\ op'[r].todo = op[r].todo
        BY <1>7, <4>2, HeadTailProperties DEF Refreshes
      <4> HIDE DEF h
      <4>4. disk'[r][h] # 0 => op[r].mtime <= disk'[r][h]
        <5>1. CASE h = p
          BY <1>5, <1>6, <4>1, <5>1
        <5>2. CASE h # p
          BY <1>6, <4>1, <4>3, <5>2
        <5> QED
          BY <5>1, <5>2
      <4>5. op'[r].mtime \in 1..edits'
        BY <1>5, <1>7, <4>1
      <4>6. op'[r].mtime = op[r].mtime
        BY <1>7
      <4> QED
        BY <4>3, <4>4, <4>5, <4>6 DEF h
    <3> QED
      BY <3>1, <3>2 DEF Seeing
  <2>4. r \notin spoiled' => Faithful(r)'
    BY <1>2, <1>3, <1>6, <1>8 DEF Right, Faithful
  <2>5. ASSUME op'[r].pc \in {"stat", "read"}, ~op'[r].spoiled
        PROVE  Scanned(r, op[r], rows[r])'
    <3>1. Scanned(r, op[r], rows[r])
      BY <1>3, <1>7, <2>5 DEF Right
    <3>2. op'[r].touched = op[r].touched \cup {p}
      BY <1>7, <2>5 DEF Running
    <3>3. Ahead(op'[r]) = Ahead(op[r])
      BY <1>7 DEF Ahead
    <3> SUFFICES ASSUME NEW q \in Paths \ op'[r].touched
                 PROVE  /\ disk'[r][q] # 0 =>
                             q \in Ahead(op'[r]) \/ (q \in op'[r].current /\ rows'[r][q].content = disk'[r][q])
                        /\ disk'[r][q] = 0 => q \notin op'[r].current
                        /\ q \in Ahead(op'[r]) \/ disk'[r][q] = 0 =>
                             rows'[r][q].mtime = op'[r].existing[q] \/ rows'[r][q].content = disk'[r][q]
      BY DEF Scanned, Ahead
    <3>4. disk'[r][q] = disk[r][q] /\ rows'[r][q] = rows[r][q] /\ q \in Paths \ op[r].touched
      BY <1>2, <1>6, <3>2
    <3> QED
      BY <1>7, <3>1, <3>3, <3>4 DEF Scanned
  <2> QED
    BY <2>2, <2>3, <2>4, <2>5 DEF Right
<1>12. \A q \in Roots : Running(q)' => Running(q) /\ op'[q].gen = op[q].gen
  BY <1>7 DEF Running
<1>13. Waited' /\ OldWorkEndsBeforeWipe'
  BY <1>2, <1>3, <1>12, StaysInOrder
<1> QED
  BY <1>9, <1>10, <1>11, <1>13 DEF IInv

\* The process stops its background work, closes, or nothing happens.
LEMMA StandsStill ==
  ASSUME IInv, UNCHANGED <<world, rows, wsState, op, generation, clearing, wiped, stale, spoiled>>,
         stopped' \in BOOLEAN, closed' \in BOOLEAN, restarts' = restarts
  PROVE  IInv'
<1>1. TypeOK /\ Waited /\ OldWorkEndsBeforeWipe /\ \A q \in Roots : Right(q)
  BY DEF IInv
<1>2. disk' = disk /\ edits' = edits /\ edits \in Nat
  BY <1>1, Types, BoundsAssumption DEF world
<1>3. TypeOK'
  BY <1>1, <1>2 DEF TypeOK
<1>4. \A q \in Roots : Right(q)'
  BY <1>1, <1>2, SameRoot
<1>5. Waited' /\ OldWorkEndsBeforeWipe'
  BY <1>1, StaysInOrder DEF Running
<1> QED
  BY <1>3, <1>4, <1>5 DEF IInv

\* The database is opened by a new process.
LEMMA RestartKeeps ==
  ASSUME IInv, Restart
  PROVE  IInv'
<1>1. /\ UNCHANGED <<world, rows, stale, spoiled>> /\ restarts < MaxRestarts /\ restarts' = restarts + 1
      /\ stopped' = FALSE /\ closed' = FALSE
      /\ op' = [r \in Roots |-> NoOp] /\ clearing' = {} /\ generation' = 0 /\ wiped' = 0
      /\ wsState' = [r \in Roots |-> IF wsState[r] = "building" THEN "stale" ELSE wsState[r]]
  BY DEF Restart
<1>2. TypeOK /\ \A q \in Roots : Right(q)
  BY DEF IInv
<1>3. disk' = disk /\ edits' = edits /\ restarts \in 0..MaxRestarts /\ wsState \in [Roots -> States]
  BY <1>1, <1>2, Types DEF world
<1>4. TypeOK'
  <2>1. op' \in [Roots -> Refreshes] /\ wsState' \in [Roots -> States]
    BY <1>1, <1>3, Nothing DEF States
  <2>2. 0 \in 0..MaxClears /\ restarts' \in 0..MaxRestarts /\ 0 \in 0..0
    BY <1>1, <1>3, BoundsAssumption
  <2> QED
    BY <1>1, <1>2, <1>3, <2>1, <2>2 DEF TypeOK, Stamps, Row, Refreshes, Clears
<1>5. ASSUME NEW r \in Roots
      PROVE  Right(r)'
  <2>1. op'[r].pc = "idle" /\ (wsState'[r] = "ready" => wsState[r] = "ready")
    BY <1>1, Nothing
  <2>2. Stamped(r, rows[r])'
    BY <1>1, <1>2, <1>3 DEF Right, Stamped
  <2>3. r \notin spoiled' => Faithful(r)'
    BY <1>1, <1>2, <1>3, <2>1 DEF Right, Faithful
  <2> QED
    BY <2>1, <2>2, <2>3 DEF Right, Seeing
<1>6. Waited' /\ OldWorkEndsBeforeWipe'
  BY <1>1, Nothing DEF Waited, OldWorkEndsBeforeWipe, Running
<1> QED
  BY <1>4, <1>5, <1>6 DEF IInv

-----------------------------------------------------------------------------
\* A database just made, of workspaces never looked at.
LEMMA Opened ==
  ASSUME Init
  PROVE  IInv
<1>1. TypeOK
  <2>1. 0 \in Stamps /\ 1 \in Stamps /\ 1 \in 1..(MaxEdits + 1) /\ 0 \in 0..MaxClears /\ 0 \in 0..0
        /\ 0 \in 0..MaxRestarts
    BY BoundsAssumption DEF Stamps
  <2>2. disk \in [Roots -> [Paths -> Stamps]] /\ edits \in 1..(MaxEdits + 1)
    BY <2>1 DEF Init
  <2>3. rows \in [Roots -> [Paths -> Row]] /\ op \in [Roots -> Refreshes] /\ wsState \in [Roots -> States]
    BY Nothing DEF Init, States
  <2> QED
    BY <2>1, <2>2, <2>3, Types DEF Init
<1>2. ASSUME NEW r \in Roots
      PROVE  Right(r)
  <2>1. op[r].pc = "idle" /\ wsState[r] = "cold" /\ edits = 1 /\ rows[r] = [p \in Paths |-> NoRow]
    BY Nothing DEF Init
  <2>2. Stamped(r, rows[r])
    <3> SUFFICES ASSUME NEW p \in Paths
                 PROVE  /\ disk[r][p] <= edits /\ rows[r][p].content <= edits
                        /\ rows[r][p].mtime <= rows[r][p].content
                        /\ rows[r][p].mtime = 0 => rows[r][p].content = 0
                        /\ disk[r][p] # 0 => rows[r][p].content <= disk[r][p]
      BY DEF Stamped
    <3>1. disk[r][p] \in {0, 1}
      BY DEF Init
    <3>2. rows[r][p].mtime = 0 /\ rows[r][p].content = 0
      BY <2>1, Nothing
    <3> QED
      BY <2>1, <3>1, <3>2
  <2> QED
    BY <2>1, <2>2 DEF Right, Seeing, Faithful
<1>3. Waited /\ OldWorkEndsBeforeWipe
  BY Nothing DEF Init, Waited, OldWorkEndsBeforeWipe, Running
<1> QED
  BY <1>1, <1>2, <1>3 DEF IInv

\* Every step keeps the invariant.
LEMMA Steps ==
  ASSUME IInv, [Next]_vars
  PROVE  IInv'
<1>1. stopped \in BOOLEAN /\ closed \in BOOLEAN
  BY DEF IInv, TypeOK
<1>2. ASSUME NEW r \in Roots, Refresh(r)
      PROVE  IInv'
  BY <1>2, RefreshKeeps
<1>3. ASSUME NEW r \in Roots, InputOutput(r)
      PROVE  IInv'
  BY <1>3, ListedKeeps, ListFailsKeeps, StatKeeps, ReadKeeps, UnreadableKeeps DEF InputOutput
<1>4. ASSUME NEW r \in Roots, NEW p \in Paths, Edit(r, p)
      PROVE  IInv'
  BY <1>4, EditKeeps
<1>5. CASE Clear
  BY <1>5, ClearKeeps
<1>6. CASE Wipe
  BY <1>6, WipeKeeps
<1>7. CASE Stop
  BY <1>1, <1>7, StandsStill DEF Stop
<1>8. CASE Close
  BY <1>1, <1>8, StandsStill DEF Close
<1>9. CASE Restart
  BY <1>9, RestartKeeps
<1>10. CASE UNCHANGED vars
  BY <1>1, <1>10, StandsStill DEF vars, process
<1> QED
  BY <1>2, <1>3, <1>4, <1>5, <1>6, <1>7, <1>8, <1>9, <1>10 DEF Next

\* IndexIsRight, from the invariant: a row with the file's mtime has its content,
\* because what was read after the stat is not older, and nothing is newer than the
\* file but a deletion.
LEMMA RightOfAll ==
  ASSUME IInv
  PROVE  IndexIsRight
<1>1. TypeOK /\ ReadyIsFaithful /\ OldWorkEndsBeforeWipe
  BY DEF IInv, Right, ReadyIsFaithful
<1>2. ASSUME NEW r \in Roots, NEW p \in Paths, rows[r][p].mtime = disk[r][p]
      PROVE  rows[r][p].content = disk[r][p]
  <2>1. Stamped(r, rows[r]) /\ rows[r] \in [Paths -> Row] /\ disk[r][p] \in Nat
    BY OfRoot
  <2>2. rows[r][p].content \in Nat
    BY <2>1, BoundsAssumption DEF Row, Stamps
  <2> QED
    BY <1>2, <2>1, <2>2 DEF Stamped
<1> QED
  BY <1>1, <1>2 DEF IndexIsRight, NoEditIsMasked

\* In every state the index is right: one shown as ready says of every file that was
\* readable and has not changed since its refresh began what is on the disk, no row
\* hides an edit, and no work from before a clear() outlives its wipe.
THEOREM IndexCorrect == Spec => []IndexIsRight
<1>1. Init => IInv
  BY Opened
<1>2. IInv /\ [Next]_vars => IInv'
  BY Steps
<1>3. IInv => IndexIsRight
  BY RightOfAll
<1> QED
  BY <1>1, <1>2, <1>3, PTL DEF Spec
=============================================================================
