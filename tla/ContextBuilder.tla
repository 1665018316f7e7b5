--------------------------- MODULE ContextBuilder ---------------------------
(***************************************************************************)
(* What the model is shown of a long session                               *)
(* (packages/runtime/src/context-builder.ts).  Before each request the     *)
(* ended turns are cut into slices; while the request is over the          *)
(* threshold the oldest slices that no summary covers are summarised by    *)
(* the model, the summary is stored as a blob and then recorded as an      *)
(* event, and the request is built anew.  A stop, an error of the model    *)
(* and a crash can end the work between any two of these steps.            *)
(* A turn stands for its messages, its size for their tokens.              *)
(***************************************************************************)
EXTENDS Naturals, Sequences, FiniteSets, SequencesExt

CONSTANTS
    Sizes,             \* tokens a turn may take
    Capacities,        \* maxContext of the models a user may switch between
    RecentRawTurns,    \* RECENT_RAW_TURNS: ended turns never summarised
    MaxCompactions,    \* MAX_COMPACTIONS_PER_BUILD
    SummaryTokens,     \* tokens of a summary the model writes
    MaxTurns, MaxCrashes

VARIABLES
    turns,        \* sizes of the turns, oldest first; the last may be open
    open,         \* whether the last turn has not ended
    compactions,  \* [from, to, tokens]: recorded summaries of turns from..to
    orphans,      \* blobs of summaries that no event names
    step,         \* where the build is
    build,        \* [capacity, attempt, range, sent] of the build
    crashes

vars == <<turns, open, compactions, orphans, step, build, crashes>>

Ended == IF open THEN Len(turns) - 1 ELSE Len(turns)
Covers(c, i) == c.from <= i /\ i <= c.to
Covered(i) == \E c \in compactions : Covers(c, i)
Uncovered == {i \in 1 .. Ended : ~ Covered(i)}

\* The newest turns are summarised with the older ones.
Compactable_All == Uncovered

\* All but the RecentRawTurns newest of the slices no summary covers.
Compactable == {i \in Uncovered : Cardinality({j \in Uncovered : j > i}) >= RecentRawTurns}

\* The parts of a request: raw messages and every recorded summary.
Raw == {i \in 1 .. Len(turns) : ~ Covered(i)}
Size(range) ==
    LET upTo[n \in 0 .. Len(turns)] ==
          IF n = 0 THEN 0 ELSE upTo[n - 1] + (IF n \in range THEN turns[n] ELSE 0)
    IN  upTo[Len(turns)]
RequestTokens == Size(Raw) + MapThenSumSet(LAMBDA c : c.tokens, compactions)

\* A fifth of the window is kept for the answer, and the threshold is three
\* quarters of it less that share (contextBudget, mainMaxOutputTokens).
MaxOutput(capacity) == IF capacity \div 5 = 0 THEN 1 ELSE capacity \div 5
HardInput(capacity) == capacity - MaxOutput(capacity) - capacity \div 20
Threshold(capacity) ==
    LET t == (capacity * 3) \div 4 - MaxOutput(capacity) - capacity \div 20
    IN  IF t < 1 THEN 1 ELSE t
SummaryHardInput(capacity) ==
    capacity - (IF capacity \div 10 = 0 THEN 1 ELSE capacity \div 10)

NoBuild == [capacity |-> 0, attempt |-> 0, range |-> {}, sent |-> "none"]

Init ==
    /\ turns = << >> /\ open = FALSE
    /\ compactions = {} /\ orphans = 0
    /\ step = "idle" /\ build = NoBuild /\ crashes = 0

TurnStarts ==
    /\ step = "idle" /\ ~ open /\ Len(turns) < MaxTurns
    /\ \E n \in Sizes : turns' = Append(turns, n)
    /\ open' = TRUE
    /\ UNCHANGED <<compactions, orphans, step, build, crashes>>

\* preStep of the open turn asks for a request, with the model of the moment.
BuildStarts ==
    /\ step = "idle" /\ open
    /\ \E c \in Capacities : build' = [NoBuild EXCEPT !.capacity = c]
    /\ step' = "project"
    /\ UNCHANGED <<turns, open, compactions, orphans, crashes>>

Ends(sent) ==
    /\ step' = "answered"
    /\ build' = [build EXCEPT !.sent = sent]
    /\ UNCHANGED <<turns, open, compactions, orphans, crashes>>

\* The longest prefix of the compactable slices the summary request can hold.
Selected ==
    LET fits(n) == Size({i \in Compactable : i <= n}) <= SummaryHardInput(build.capacity)
    IN  {i \in Compactable : fits(i)}

\* One round of build(): enough room or nothing left to summarise ends it.
Project ==
    /\ step = "project"
    /\ LET fits == RequestTokens <= Threshold(build.capacity)
           within == RequestTokens <= HardInput(build.capacity)
       IN  \/ build.attempt = MaxCompactions /\ Ends("error")
           \/ /\ build.attempt < MaxCompactions
              /\ fits \/ Compactable = {} \/ Selected = {}
              /\ Ends(IF within THEN "request" ELSE "error")
           \/ /\ build.attempt < MaxCompactions
              /\ ~ fits /\ Selected # {}
              /\ build' = [build EXCEPT !.range = Selected]
              /\ step' = "summarise"
              /\ UNCHANGED <<turns, open, compactions, orphans, crashes>>

\* The model fails, is stopped, asks for a tool, or writes nothing shorter.
SummaryFails == step = "summarise" /\ Ends("error")

SummaryWritten ==
    /\ step = "summarise" /\ SummaryTokens < Size(build.range)
    /\ orphans' = orphans + 1
    /\ step' = "record"
    /\ UNCHANGED <<turns, open, compactions, build, crashes>>

Recorded ==
    /\ step = "record"
    /\ compactions' = compactions \cup {[from |-> Min(build.range), to |-> Max(build.range),
                                         tokens |-> SummaryTokens]}
    /\ orphans' = orphans - 1
    /\ build' = [build EXCEPT !.attempt = @ + 1, !.range = {}]
    /\ step' = "project"
    /\ UNCHANGED <<turns, open, crashes>>

\* The turn asks again (another round of the model) or ends.
Again ==
    /\ step = "answered" /\ build.sent = "request" /\ Len(turns) < MaxTurns
    /\ step' = "idle" /\ build' = NoBuild
    /\ UNCHANGED <<turns, open, compactions, orphans, crashes>>

TurnEnds ==
    /\ step = "answered"
    /\ open' = FALSE /\ step' = "idle" /\ build' = NoBuild
    /\ UNCHANGED <<turns, compactions, orphans, crashes>>

\* The process dies; recovery ends the open turn before the next one.
Crash ==
    /\ crashes < MaxCrashes /\ open
    /\ crashes' = crashes + 1
    /\ open' = FALSE /\ step' = "idle" /\ build' = NoBuild
    /\ UNCHANGED <<turns, compactions, orphans>>

Next ==
    \/ TurnStarts \/ BuildStarts \/ Project \/ SummaryFails \/ SummaryWritten
    \/ Recorded \/ Again \/ TurnEnds \/ Crash

Build == Project \/ SummaryFails \/ SummaryWritten \/ Recorded
Fairness == WF_vars(Build)
Spec == Init /\ [][Next]_vars /\ Fairness

-----------------------------------------------------------------------------
TypeOK ==
    /\ turns \in BoundedSeq(Sizes, MaxTurns) /\ open \in BOOLEAN
    /\ step \in {"idle", "project", "summarise", "record", "answered"}
    /\ build.sent \in {"none", "request", "error"}
    /\ build.attempt \in 0 .. MaxCompactions /\ orphans \in 0 .. 1 + crashes

\* No turn is summarised twice, and neither the open turn nor the newest
\* ended ones are ever summarised: what the model sees is each turn once.
EachTurnOnce ==
    /\ \A i \in 1 .. Len(turns) : Cardinality({c \in compactions : Covers(c, i)}) <= 1
    /\ \A i \in 1 .. Len(turns) :
           Covered(i) => i + RecentRawTurns <= Ended

\* Every build ends, whatever it has to summarise.
BuildEnds == (step # "idle") ~> (step \in {"answered", "idle"})
=============================================================================
