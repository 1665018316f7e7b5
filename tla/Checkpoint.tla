----------------------------- MODULE Checkpoint -----------------------------
(***************************************************************************)
(* The files a tool call may change, kept before it runs and put back when *)
(* the user asks for it (packages/tool-runtime/src/checkpoint.ts and       *)
(* checkpoint-restore.ts, over the blob store).                            *)
(*                                                                         *)
(* A file's value is its content; "dir" is a directory.  Taking a          *)
(* checkpoint is one step (nothing else runs on the session meanwhile);    *)
(* restoring is not: it may be stopped, fail or die between any two files. *)
(***************************************************************************)
EXTENDS Naturals, FiniteSets

CONSTANTS
  Paths,
  Parent,        \* Parent[p]: the directory p is in, "root" at the top
  Contents,
  MaxContents,   \* MAX_CONTENT_BYTES, in files
  MaxWrites,     \* bound
  MaxRestores    \* bound

VARIABLES
  tree,      \* Paths -> "none", "dir" or a content
  manifest,  \* what the checkpoint keeps: target -> the values at and under it
  damaged,   \* contents whose blob can no longer be read
  restore,   \* the restore under way: its stage, the targets left, the files placed
  before,    \* the tree the restore found
  signal,    \* the restore was asked to stop
  used

vars == <<tree, manifest, damaged, restore, before, signal, used>>

\* In every set of paths that has p's directory and the directories of its own members.
Above(p) ==
  LET HasDirectory(S, q) == Parent[q] \in S \union {"root"}
  IN  {a \in Paths : \A S \in SUBSET Paths :
                        HasDirectory(S, p) /\ (\A q \in S : HasDirectory(S, q)) => a \in S}
Below(p) == {q \in Paths : p \in Above(q)}
Under(p) == {p} \union Below(p)

Values == Contents \union {"none", "dir"}
Trees == {t \in [Paths -> Values] : \A p \in Paths : t[p] # "none" /\ Parent[p] # "root" => t[Parent[p]] = "dir"}

NoRestore == [stage |-> "none", left |-> {}, at |-> "none", placed |-> {}]

TypeOK ==
  /\ tree \in Trees /\ before \in Trees
  /\ DOMAIN manifest \subseteq Paths /\ \A p \in DOMAIN manifest : manifest[p] \in [Under(p) -> Values]
  /\ damaged \subseteq Contents /\ signal \in BOOLEAN
  /\ restore.stage \in {"none", "checking", "restoring", "placing", "done", "refused", "stopped"}

Init ==
  /\ tree \in Trees /\ before = tree
  /\ manifest = <<>> /\ damaged = {} /\ restore = NoRestore /\ signal = FALSE
  /\ used = [writes |-> 0, restores |-> 0]

-----------------------------------------------------------------------------
\* Mutant: every claim is a target of its own.
CollapseTargets_Not(claims) == claims

\* A target below another one goes with it.
CollapseTargets(claims) == {p \in claims : Above(p) \intersect claims = {}}

FilesUnder(p) == {q \in Under(p) : tree[q] \in Contents}

\* before(): nothing without a path claim, an error above the budget.
Before(claims) ==
  LET targets == CollapseTargets(claims)
  IN  /\ manifest = <<>> /\ claims # {}
      /\ Cardinality(UNION {FilesUnder(p) : p \in targets}) <= MaxContents
      /\ manifest' = [p \in targets |-> [q \in Under(p) |-> tree[q]]]
      /\ UNCHANGED <<tree, damaged, restore, before, signal, used>>

\* The call, or anybody later, writes or removes a file.
Writes(p, value) ==
  /\ manifest # <<>> /\ restore.stage \in {"none", "done", "refused", "stopped"}
  /\ used.writes < MaxWrites /\ used' = [used EXCEPT !.writes = @ + 1]
  /\ tree' = [q \in Paths |-> IF q = p THEN value ELSE IF p \in Above(q) THEN "none" ELSE tree[q]]
  /\ tree' # tree /\ tree' \in Trees
  /\ UNCHANGED <<manifest, damaged, restore, before, signal>>

BlobLost(c) ==
  /\ manifest # <<>> /\ damaged = {}
  /\ restore.stage \in {"none", "done", "refused", "stopped"}
  /\ damaged' = {c}
  /\ UNCHANGED <<tree, manifest, restore, before, signal, used>>

-----------------------------------------------------------------------------
Begin ==
  /\ manifest # <<>> /\ used.restores < MaxRestores
  /\ restore.stage \in {"none", "done", "refused", "stopped"}
  /\ used' = [used EXCEPT !.restores = @ + 1]
  /\ restore' = [NoRestore EXCEPT !.stage = "checking", !.left = DOMAIN manifest]
  /\ before' = tree /\ signal' = FALSE
  /\ UNCHANGED <<tree, manifest, damaged>>

Kept == UNION {{manifest[p][q] : q \in Under(p)} : p \in DOMAIN manifest} \intersect Contents
Overlap == \E p, q \in DOMAIN manifest : p \in Above(q)

\* validateManifest and validateContents read every blob before anything is touched.
Checked == ~Overlap /\ ~signal /\ Kept \intersect damaged = {}

Validate ==
  /\ restore.stage = "checking"
  /\ restore' = [restore EXCEPT !.stage = IF Checked THEN "restoring" ELSE "refused"]
  /\ UNCHANGED <<tree, manifest, damaged, before, signal, used>>

\* rm({recursive, force}) of a target: a directory begins with nothing there.
Cleared(p) == [q \in Paths |-> IF q \in Under(p) THEN "none" ELSE tree[q]]

\* What keeps a directory from being made again above it makes the restore fail.
Blocked(p) == \E q \in Above(p) : tree[q] \in Contents

Target(p) ==
  /\ restore.stage = "restoring" /\ p \in restore.left /\ ~signal /\ ~Blocked(p)
  /\ tree' = IF manifest[p][p] \in {"none", "dir"} THEN Cleared(p) ELSE tree
  /\ restore' = [restore EXCEPT !.stage = "placing", !.at = p]
  /\ UNCHANGED <<manifest, damaged, before, signal, used>>

ToPlace == {q \in Under(restore.at) : manifest[restore.at][q] # "none"} \ restore.placed

\* mkdir of the directories, writeAtomic of a file: the directories above it, the
\* file under another name, the old one removed, the new one renamed.
Place(q) ==
  /\ restore.stage = "placing" /\ ~signal /\ q \in ToPlace
  /\ manifest[restore.at][q] \notin damaged
  /\ tree' = [[r \in Paths |-> IF r \in Above(q) THEN "dir"
                               ELSE IF r \in Below(q) /\ manifest[restore.at][q] # "dir" THEN "none"
                               ELSE tree[r]]
              EXCEPT ![q] = manifest[restore.at][q]]
  /\ restore' = [restore EXCEPT !.placed = @ \union {q}]
  /\ UNCHANGED <<manifest, damaged, before, signal, used>>

TargetDone ==
  /\ restore.stage = "placing" /\ ToPlace = {}
  /\ restore' = [restore EXCEPT !.left = @ \ {restore.at}, !.placed = {}, !.at = "none",
                                !.stage = IF restore.left = {restore.at} THEN "done" ELSE "restoring"]
  /\ UNCHANGED <<tree, manifest, damaged, before, signal, used>>

Cancel ==
  /\ restore.stage \in {"checking", "restoring", "placing"} /\ ~signal
  /\ signal' = TRUE
  /\ UNCHANGED <<tree, manifest, damaged, restore, before, used>>

\* The signal, an error or the end of the process leaves it half done; between
\* the removal of a file and the renaming of its successor there is none.
Stops ==
  /\ restore.stage \in {"restoring", "placing"}
  /\ \/ UNCHANGED tree
     \/ /\ restore.stage = "placing" /\ ~signal
        /\ \E q \in ToPlace : manifest[restore.at][q] \in Contents /\ tree' = Cleared(q)
  /\ restore' = [restore EXCEPT !.stage = "stopped"]
  /\ UNCHANGED <<manifest, damaged, before, signal, used>>

Next ==
  \/ \E claims \in SUBSET Paths : Before(claims)
  \/ \E p \in Paths, v \in Values : Writes(p, v)
  \/ \E c \in Contents : BlobLost(c)
  \/ Begin \/ Validate \/ Cancel \/ TargetDone \/ Stops
  \/ \E p \in Paths : Target(p) \/ Place(p)

Spec == Init /\ [][Next]_vars

-----------------------------------------------------------------------------
\* A restore that ends well has put back every target as it was, with what was
\* created under it since gone, and has changed nothing else but to make a
\* directory above a target again; also when an earlier one stopped half way.
\* One that is refused is refused for a content that is lost or because of a stop,
\* and neither then nor later does a restore that lacks a content touch a file
\* (checkpoint-restore.ts:19-27).
RestoreIsRight ==
  [][/\ restore'.stage = "done" /\ restore.stage # "done" =>
          \A q \in Paths :
            IF \E p \in DOMAIN manifest : q \in Under(p)
            THEN \A p \in DOMAIN manifest : q \in Under(p) => tree[q] = manifest[p][q]
            ELSE tree[q] = before[q] \/ tree[q] = "dir"
     /\ restore'.stage = "refused" /\ restore.stage # "refused" =>
          tree' = before /\ (Kept \intersect damaged # {} \/ signal)
     /\ restore.stage \in {"restoring", "placing"} /\ Kept \intersect damaged # {} =>
          tree' = tree]_vars
=============================================================================
