------------------------------ MODULE Profile ------------------------------
(***************************************************************************)
(* The composition profiles of packages/compose: the rows a build starts   *)
(* with, the user patch laid over them, the check of the trusted baseline  *)
(* and the assembly into a plugin container; and the dispatch of container *)
(* events to the listeners plugins hang on them                            *)
(* (packages/kernel/src/container/events.ts).  Pure functions.             *)
(***************************************************************************)
EXTENDS Naturals, Sequences, FiniteSets, SequencesExt

BUILTIN_PROFILE_NAMES == {"desktop", "headless", "cli", "test"}

Row(id, baseline, inject, provide) ==
    [id |-> id, baseline |-> baseline, plugin |-> id, inject |-> inject,
     provide |-> provide, config |-> "none"]

\* The trusted rows; only a "test" build swaps two of their plugins.
BaselineRows(deterministic) ==
    LET base(id, inject, provide) == Row(id, TRUE, inject, provide)
        seed(id, service) ==
            [base(id, {}, {service}) EXCEPT
                !.plugin = IF deterministic THEN "deterministic" ELSE "local"]
    IN  << seed("clock", "clock"), seed("ids", "ids"),
           base("turn-driver", {}, {"turnExtensions"}),
           base("policy", {}, {"policy"}),
           base("gateway", {}, {"gateway"}),
           base("checkpoint", {"turnExtensions"}, {"checkpointer", "checkpointRestorer"}),
           base("secrets", {}, {"secrets"}),
           base("redact", {}, {"redact"}),
           base("tools", {}, {"tools"}),
           base("runtime", {"clock", "ids", "policy", "gateway", "checkpointer",
                            "secrets", "redact", "tools"}, {"runtime"}) >>

BusinessRows(surface) ==
    LET row(id, inject, provide) == Row(id, FALSE, inject, provide)
    IN  << row("runtime.invariants", {}, {"invariants"}),
           row("runtime.executor", {}, {"executor"}),
           row("runtime.multimodal", {"turnExtensions"}, {}),
           row("runtime.context", {"turnExtensions"}, {}),
           row("runtime.result-truncation", {"turnExtensions"}, {}),
           row("runtime.stopping", {"turnExtensions"}, {}),
           row("runtime.code", {}, {"codeRuntime"}),
           row("tools.builtin",
               {"runtime", "tools", "gateway", "checkpointer", "executor"}, {}),
           [row("surface", {"runtime", "tools"}, {"surface"}) EXCEPT
               !.plugin = IF surface = "desktop" THEN "desktop" ELSE "compose"] >>

BuiltinProfile(name) ==
    [name |-> name, rows |-> BaselineRows(name = "test") \o BusinessRows(name)]
BaselineOnly(name) == [name |-> name, rows |-> BaselineRows(name = "test")]
Without(profile, id) ==
    [profile EXCEPT !.rows = SelectSeq(@, LAMBDA row : row.id # id)]

-----------------------------------------------------------------------------
Failed == [name |-> "error", rows |-> << >>]
IndexOf(rows, id) == SelectInSeq(rows, LAMBDA row : row.id = id)
Unique(rows) == \A i, j \in DOMAIN rows : rows[i].id = rows[j].id => i = j

\* A patch may set the config of a row that is not baseline...
Update(profile, update) ==
    LET i == IndexOf(profile.rows, update.id)
    IN  IF profile = Failed \/ i = 0 THEN Failed
        ELSE IF profile.rows[i].baseline THEN Failed
        ELSE [profile EXCEPT !.rows[i].config = update.config]

\* No check of the anchor: a row slips in between the baseline's.
Insert_Anywhere(profile, insert) ==
    LET anchor == IndexOf(profile.rows, insert.anchor)
    IN  IF \/ profile = Failed \/ insert.row.baseline
           \/ IndexOf(profile.rows, insert.row.id) # 0 \/ anchor = 0
        THEN Failed
        ELSE [profile EXCEPT !.rows =
                InsertAt(@, IF insert.where = "before" THEN anchor ELSE anchor + 1,
                         insert.row)]

\* ... and put a new row before or after a row that is not baseline.
Insert(profile, insert) ==
    LET anchor == IndexOf(profile.rows, insert.anchor)
    IN  IF \/ profile = Failed \/ insert.row.baseline
           \/ IndexOf(profile.rows, insert.row.id) # 0 \/ anchor = 0
        THEN Failed
        ELSE IF profile.rows[anchor].baseline THEN Failed
        ELSE [profile EXCEPT !.rows =
                InsertAt(@, IF insert.where = "before" THEN anchor ELSE anchor + 1,
                         insert.row)]

ApplyProfilePatch(profile, patch) ==
    IF ~ Unique(profile.rows) THEN Failed
    ELSE FoldLeft(Insert, FoldLeft(Update, profile, patch.update), patch.insert)

\* The rows a build may assemble begin with its trusted baseline, unchanged.
AssertBaseline(profile) ==
    LET expected == BaselineRows(profile.name = "test")
        same(a, b) == /\ a.id = b.id /\ a.plugin = b.plugin
                      /\ a.inject = b.inject /\ a.provide = b.provide
    IN  /\ profile.name \in BUILTIN_PROFILE_NAMES
        /\ Cardinality({i \in DOMAIN profile.rows : profile.rows[i].baseline}) = Len(expected)
        /\ Len(profile.rows) >= Len(expected)
        /\ \A i \in DOMAIN expected : same(expected[i], profile.rows[i])

\* The order in which the container activates the rows; << >> when it cannot.
Activation(rows) ==
    LET step(acc, n) ==
            LET there == UNION {row.provide : row \in ToSet(acc)}
                i == SelectInSeq(rows, LAMBDA row : /\ row \notin ToSet(acc)
                                                    /\ row.inject \subseteq there)
            IN  IF i = 0 THEN acc ELSE Append(acc, rows[i])
        order == FoldLeft(step, << >>, [n \in DOMAIN rows |-> n])
        clash == \E i, j \in DOMAIN rows :
                     i < j /\ rows[i].provide \cap rows[j].provide # {}
    IN  IF clash \/ Len(order) < Len(rows) THEN << >> ELSE order

\* Assembly asks the catalogue for every row and compares its declaration.
AssembleProfile(profile, catalog) ==
    IF /\ AssertBaseline(profile)
       /\ \A i \in DOMAIN profile.rows :
              LET row == profile.rows[i]
              IN  /\ row.plugin \in DOMAIN catalog
                  /\ catalog[row.plugin].inject = row.inject
                  /\ catalog[row.plugin].provide = row.provide
    THEN Activation(profile.rows) ELSE << >>

-----------------------------------------------------------------------------
(***************************************************************************)
(* Event dispatch.  A listener is [scope, answers, narrows]; a signal is   *)
(* the set of sources that can abort it.                                   *)
(***************************************************************************)
Visible(listeners, scope, root) ==
    SelectSeq(listeners, LAMBDA l : l.scope \in {scope, root})

IsBailed(value) == value \notin {"undefined", "null", "false"}

\* serial: the first answer that is one stops the round.
Serial(listeners, scope, root) ==
    LET seen == Visible(listeners, scope, root)
        i == SelectInSeq(seen, LAMBDA l : IsBailed(l.answers))
    IN  IF i = 0 THEN "undefined" ELSE seen[i].answers

\* parallel: every observer runs; the failures come together at the end.
Parallel(listeners, scope, root) ==
    LET seen == Visible(listeners, scope, root)
    IN  Cardinality({i \in DOMAIN seen : seen[i].answers = "throws"})

MergeAbort(left, right) == left \cup right

\* waterfall: what each listener, and at the end the core, is aborted by.
\* next(narrower) adds to the signal and never takes from it.
Waterfall(listeners, scope, root, signal) ==
    FoldLeft(LAMBDA acc, l : Append(acc, MergeAbort(Last(acc), l.narrows)),
             <<signal>>, Visible(listeners, scope, root))
=============================================================================
