--------------------------- MODULE EditProposals ---------------------------
(***************************************************************************)
(* Edits that are proposed, reviewed and applied: edit.preview, the card's *)
(* actions and edit.apply (packages/tools-core/src/edit-core.ts, edit.ts,  *)
(* edit-present.ts; what is kept of a proposal: desktop-host.ts).          *)
(*                                                                         *)
(* A file has places; a place holds "old", "new" or what somebody else put *)
(* there.  The replacement of a place expects "old" there exactly once, so *)
(* its index and its hunk are the place.  A text stands for its hash.      *)
(* Other programs write the files at any moment.                           *)
(***************************************************************************)
EXTENDS Naturals, Sequences, FiniteSets, Functions

CONSTANTS Files, Spots,
          MaxProposals, MaxForeign     \* bounds

VARIABLES
  disk,       \* each file: its text
  proposals,  \* what the session keeps of every proposal
  apply,      \* the apply under way: its proposal and what it has still to write
  foreign,    \* writes of other programs
  raced,      \* files they wrote behind the back of the apply under way
  begun       \* the disk as the apply under way found it

vars == <<disk, proposals, apply, foreign, raced, begun>>

Values == {"old", "new", "other"}
FileTexts == [Spots -> Values]
NoApply == [of |-> 0, write |-> <<>>]
Idle == apply = NoApply
Index == DOMAIN proposals

TypeOK ==
  /\ disk \in [Files -> FileTexts] /\ begun \in [Files -> FileTexts]
  /\ Len(proposals) <= MaxProposals
  /\ \A k \in Index : LET p == proposals[k] IN
       /\ p.spots \subseteq Files \X Spots /\ p.spots # {}
       /\ DOMAIN p.before = DOMAIN p.after /\ DOMAIN p.before = {s[1] : s \in p.spots}
  /\ apply.of \in 0..MaxProposals /\ DOMAIN apply.write \subseteq Files
  /\ raced \subseteq Files

Init ==
  /\ disk = [f \in Files |-> [s \in Spots |-> "old"]] /\ begun = disk
  /\ proposals = <<>> /\ apply = NoApply /\ foreign = 0 /\ raced = {}

-----------------------------------------------------------------------------
Touched(spots) == {s[1] : s \in spots}
Expected(spots) == \A s \in spots : disk[s[1]][s[2]] = "old"

\* applyReplacements: every replacement of a file, on the text it has now.
ApplyReplacements(f, spots) == [s \in Spots |-> IF <<f, s>> \in spots THEN "new" ELSE disk[f][s]]

\* createEditProposal: each file with the hashes of its text before and after.
Proposal(spots) ==
  [spots |-> spots,
   before |-> [f \in Touched(spots) |-> disk[f]],
   after |-> [f \in Touched(spots) |-> ApplyReplacements(f, spots)],
   applied |-> FALSE, reviewed |-> FALSE]

Unchanged == UNCHANGED <<disk, foreign, raced, begun>>

\* edit.preview: nothing is saved when a replacement does not meet what it expects.
Preview(spots) ==
  /\ Idle /\ Len(proposals) < MaxProposals
  /\ Expected(spots)
  /\ proposals' = Append(proposals, Proposal(spots))
  /\ UNCHANGED apply /\ Unchanged

Drifted(k) == \E f \in DOMAIN proposals[k].before : disk[f] # proposals[k].before[f]

\* The card of a preview: claimForReview, then narrow, whose proposal holds only the
\* selected hunks and is saved; refused after the mark when its files have drifted.
Review(k, selected) ==
  /\ Idle
  /\ ~proposals[k].applied /\ ~proposals[k].reviewed
  /\ selected \subseteq proposals[k].spots
  /\ LET marked == [proposals EXCEPT ![k].reviewed = TRUE]
         kept   == \A f \in Touched(selected) : disk[f] = proposals[k].before[f]
     IN  IF selected = {} \/ ~kept THEN proposals' = marked
         ELSE /\ Len(proposals) < MaxProposals
              /\ proposals' = Append(marked, Proposal(selected))
  /\ UNCHANGED apply /\ Unchanged

-----------------------------------------------------------------------------
(* edit.apply, which runs alone in its session; a refused one changes      *)
(* nothing                                                                 *)

\* Mutant: the files that have not drifted are written.
Prepared_Some(k) == \E f \in DOMAIN proposals[k].before : disk[f] = proposals[k].before[f]

\* prepareApply: no file is written when one has drifted.
Prepared(k) == ~Drifted(k)

OnDisk(k) == \A f \in DOMAIN proposals[k].after : disk[f] = proposals[k].after[f]

\* A proposal that is on disk already is marked; one that is marked is let be.
Apply(k) ==
  /\ Idle /\ ~proposals[k].applied
  /\ IF OnDisk(k)
     THEN proposals' = [proposals EXCEPT ![k].applied = TRUE] /\ UNCHANGED <<apply, raced, begun>>
     ELSE /\ Prepared(k)
          /\ apply' = [of |-> k, write |-> [f \in DOMAIN proposals[k].before |->
                                              ApplyReplacements(f, proposals[k].spots)]]
          /\ raced' = {} /\ begun' = disk
          /\ UNCHANGED proposals
  /\ UNCHANGED <<disk, foreign>>

\* One file is replaced at once; the signal is looked at between two files.
WriteTextAtomic(f) ==
  /\ f \in DOMAIN apply.write
  /\ disk' = [disk EXCEPT ![f] = apply.write[f]]
  /\ apply' = [apply EXCEPT !.write = Restrict(@, DOMAIN @ \ {f})]
  /\ UNCHANGED <<proposals, foreign, raced, begun>>

\* A stop between two files, a write that fails or the end of the process.
Stops == ~Idle /\ apply' = NoApply /\ UNCHANGED proposals /\ Unchanged

Applied ==
  /\ ~Idle /\ DOMAIN apply.write = {}
  /\ proposals' = [proposals EXCEPT ![apply.of].applied = TRUE]
  /\ apply' = NoApply
  /\ Unchanged

-----------------------------------------------------------------------------
ForeignWrite(f, s, v) ==
  /\ foreign < MaxForeign /\ foreign' = foreign + 1
  /\ v # disk[f][s] /\ disk' = [disk EXCEPT ![f][s] = v]
  /\ raced' = IF Idle THEN raced ELSE raced \union {f}
  /\ UNCHANGED <<proposals, apply, begun>>

Next ==
  \/ \E spots \in SUBSET (Files \X Spots) \ {{}} : Preview(spots)
  \/ \E k \in Index : Apply(k) \/ \E selected \in SUBSET (Files \X Spots) : Review(k, selected)
  \/ \E f \in Files : WriteTextAtomic(f) \/ \E s \in Spots, v \in Values : ForeignWrite(f, s, v)
  \/ Stops \/ Applied

Spec == Init /\ [][Next]_vars

-----------------------------------------------------------------------------
\* A proposal changes exactly its own places: whenever an apply writes a file nobody
\* else has written since it looked, the places of the proposal become new, every
\* other keeps what it had, in every file that was as the proposal's preview saw it;
\* a preview, a review, a refused apply and the marks write no file
\* (edit.ts:200-222, edit-present.ts:156-185).  What another program puts into a file
\* between the look and the write is lost, and an apply that ends half way leaves
\* files of both kinds.
OnlyWhatWasProposed ==
  [][\A f \in Files : disk'[f] # disk[f] /\ foreign' = foreign =>
       /\ ~Idle
       /\ LET p == proposals[apply.of] IN
          /\ f \in DOMAIN p.before
          /\ f \notin raced => disk[f] = p.before[f]
          /\ f \notin raced =>
               \A s \in Spots : disk'[f][s] = IF <<f, s>> \in p.spots THEN "new" ELSE disk[f][s]
          /\ \A g \in DOMAIN p.before : begun[g] = p.before[g]]_vars
=============================================================================
