----------------------------- MODULE BlobStore -----------------------------
(***************************************************************************)
(* Content addressed files (packages/storage/src/file-blob-store.ts):      *)
(* writers that may put the same content at once, power failures, and      *)
(* somebody outside who damages a file.                                    *)
(*                                                                         *)
(* A content stands for its digest.  Renaming replaces a file at once; a   *)
(* file that was not synced may be damaged by a power failure, and a       *)
(* rename whose directory was not synced may be undone.  The entry of a    *)
(* new prefix directory counts as synced with the directory.               *)
(***************************************************************************)
EXTENDS Naturals, FiniteSets

CONSTANTS Writers, Contents,
          MaxPuts, MaxCrashes, MaxTampers     \* bounds

VARIABLES
  file,      \* each content: the file at its path
  synced,    \* contents whose file has reached the disk
  listed,    \* each content: the file its directory entry has on the disk
  writer,    \* each writer: where its put stands and what it puts
  temps,     \* temporary files nobody will remove any more
  refs,      \* contents a put has returned a reference to
  unsure,    \* those of them found while the first writer had not synced the directory
  used       \* what the bounds have been spent on

vars == <<file, synced, listed, writer, temps, refs, unsure, used>>

FileStates == {"none", "whole", "damaged"}
Idle == [pc |-> "idle", content |-> CHOOSE c \in Contents : TRUE, synced |-> FALSE]

TypeOK ==
  /\ file \in [Contents -> FileStates]
  /\ synced \subseteq Contents /\ listed \in [Contents -> FileStates]
  /\ refs \subseteq Contents /\ unsure \subseteq refs
  /\ writer \in [Writers -> [pc : {"idle", "writing", "written", "replacing", "renamed", "reusing"},
                             content : Contents, synced : BOOLEAN]]
  /\ temps \in Nat

Init ==
  /\ file = [c \in Contents |-> "none"]
  /\ listed = file /\ synced = {} /\ refs = {} /\ unsure = {} /\ temps = 0
  /\ writer = [w \in Writers |-> Idle]
  /\ used = [puts |-> 0, crashes |-> 0, tampers |-> 0]

At(w, pc) == writer[w].pc = pc
Goto(w, pc) == writer' = [writer EXCEPT ![w].pc = pc]

-----------------------------------------------------------------------------
Put(w, c) ==
  /\ At(w, "idle") /\ used.puts < MaxPuts
  /\ used' = [used EXCEPT !.puts = @ + 1]
  /\ writer' = [writer EXCEPT ![w] = [pc |-> "writing", content |-> c, synced |-> FALSE]]
  /\ UNCHANGED <<file, synced, listed, temps, refs, unsure>>

\* The source or the disk fails: the temporary file goes, the error is thrown.
PutFails(w) ==
  /\ writer[w].pc \in {"writing", "written", "replacing"}
  /\ writer' = [writer EXCEPT ![w] = Idle]
  /\ UNCHANGED <<file, synced, listed, temps, refs, unsure, used>>

\* Mutant: the temporary file is closed without a sync.
Write_Unsynced(w) ==
  /\ At(w, "writing")
  /\ Goto(w, "written")
  /\ UNCHANGED <<file, synced, listed, temps, refs, unsure, used>>

\* writeAll, fh.sync, fh.close.
Write(w) ==
  /\ At(w, "writing")
  /\ writer' = [writer EXCEPT ![w].pc = "written", ![w].synced = TRUE]
  /\ UNCHANGED <<file, synced, listed, temps, refs, unsure, used>>

\* validBlob reads the whole file again.
ValidBlob(c) == file[c] = "whole"

Check(w) ==
  /\ At(w, "written")
  /\ Goto(w, IF ValidBlob(writer[w].content) THEN "reusing" ELSE "replacing")
  /\ UNCHANGED <<file, synced, listed, temps, refs, unsure, used>>

Rename(w) ==
  /\ At(w, "replacing")
  /\ file' = [file EXCEPT ![writer[w].content] = "whole"]
  /\ synced' = IF writer[w].synced THEN synced \union {writer[w].content}
               ELSE synced \ {writer[w].content}
  /\ Goto(w, "renamed")
  /\ UNCHANGED <<listed, temps, refs, unsure, used>>

Returned(w) ==
  /\ refs' = refs \union {writer[w].content}
  /\ writer' = [writer EXCEPT ![w] = Idle]
  /\ UNCHANGED <<file, synced, temps, used>>

FsyncDir(w) ==
  /\ At(w, "renamed")
  /\ listed' = [listed EXCEPT ![writer[w].content] = file[writer[w].content]]
  /\ unsure' = unsure \ {writer[w].content}
  /\ Returned(w)

\* The same content is there already: the temporary file is unlinked.
Reuse(w) ==
  /\ At(w, "reusing")
  /\ unsure' = unsure \union ({writer[w].content} \ {c \in Contents : listed[c] = "whole"})
  /\ Returned(w)
  /\ UNCHANGED listed

-----------------------------------------------------------------------------
\* A power failure: what was not synced is undone or damaged.
Crash ==
  /\ used.crashes < MaxCrashes
  /\ used' = [used EXCEPT !.crashes = @ + 1]
  /\ \E undone \in SUBSET Contents :
     \E broken \in SUBSET {c \in Contents : c \notin synced /\ file[c] = "whole"} :
       file' = [c \in Contents |-> IF c \in undone THEN listed[c]
                                   ELSE IF c \in broken THEN "damaged" ELSE file[c]]
  /\ synced' = {c \in Contents : file'[c] # "none"}
  /\ listed' = file'
  /\ temps' = temps + Cardinality({w \in Writers : writer[w].pc \in {"writing", "written", "replacing", "reusing"}})
  /\ writer' = [w \in Writers |-> Idle]
  /\ UNCHANGED <<refs, unsure>>

\* From outside, and not while a put of it stands between its check and its end.
Tamper(c) ==
  /\ used.tampers < MaxTampers /\ file[c] = "whole"
  /\ \A w \in Writers : writer[w].content = c => writer[w].pc \notin {"reusing", "renamed"}
  /\ used' = [used EXCEPT !.tampers = @ + 1]
  /\ file' = [file EXCEPT ![c] = "damaged"]
  /\ listed' = [listed EXCEPT ![c] = IF @ = "none" THEN @ ELSE "damaged"]
  /\ refs' = refs \ {c}
  /\ unsure' = unsure \ {c}
  /\ UNCHANGED <<synced, writer, temps>>

Next ==
  \/ \E w \in Writers : \/ \E c \in Contents : Put(w, c)
                        \/ PutFails(w) \/ Write(w) \/ Check(w) \/ Rename(w) \/ FsyncDir(w) \/ Reuse(w)
  \/ Crash \/ \E c \in Contents : Tamper(c)

Spec == Init /\ [][Next]_vars

-----------------------------------------------------------------------------
\* A reference that was returned names a whole file, whatever other writers of
\* the same content do, after a power failure too, and again once a content
\* somebody has damaged is put a second time (ADR-0013, invariant seven).  One
\* reference is less sure: a put that finds the file of a writer which has not
\* yet synced the directory returns before that writer does.
RefsResolve == \A c \in refs \ unsure : file[c] = "whole"
=============================================================================
