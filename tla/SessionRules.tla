---------------------------- MODULE SessionRules ----------------------------
(***************************************************************************)
(* The rules of a session while users and projects write theirs: the       *)
(* user's configuration file, the one in the directory the session works   *)
(* in, and the paths that requests name, spelled segment by segment        *)
(* (packages/platform/src/config.ts, apps/desktop/src/main/                *)
(* session-policy.ts, packages/kernel/src/policy).                         *)
(***************************************************************************)
EXTENDS PolicyEngine

CONSTANTS
  Env,           \* the directories the built-in rules are about
  SourceTrees,   \* source trees a session may work in
  Asked,         \* the requests
  Written,       \* the rules users and projects may write
  Segments,      \* of the paths
  MaxRules, MaxSegments

VARIABLES
  user, project,   \* the rules in the two files
  trees,           \* the source trees of the session's directory: none or one
  computed,        \* the session has its layers
  path             \* what a request has spelled so far

ruleVars == <<user, project, trees, computed, path>>

-----------------------------------------------------------------------------
\* A rule allows or denies (PolicyRule), and there are finitely many trees.
RulesAssumption ==
  /\ \A rule \in Written : rule.effect \in {"allow", "deny"}
  /\ IsFiniteSet(SourceTrees) /\ IsFiniteSet(Env.extraSourceRoots)
  /\ Env = [home |-> Env.home, sourceRoot |-> Env.sourceRoot, extraSourceRoots |-> Env.extraSourceRoots,
            installRoot |-> Env.installRoot, dataDir |-> Env.dataDir, configDir |-> Env.configDir]
ASSUME RulesAssumption

-----------------------------------------------------------------------------
RulesInit == user = <<>> /\ project = <<>> /\ trees = {} /\ computed = FALSE /\ path = <<>>

\* Rules are read in the order they are written; the user's make every session
\* compute its layers again.
WriteUser ==
  /\ path = <<>> /\ Len(user) + Len(project) < MaxRules
  /\ \E rule \in Written : user' = Append(user, rule)
  /\ computed' = FALSE /\ trees' = {}
  /\ UNCHANGED <<project, path>>

\* The project's count from the next time on.
WriteProject ==
  /\ ~computed /\ Len(user) + Len(project) < MaxRules
  /\ \E rule \in Written : project' = Append(project, rule)
  /\ UNCHANGED <<user, trees, computed, path>>

\* compute: what the project says, and whether the session works in a source tree.
Compute ==
  /\ ~computed /\ computed' = TRUE
  /\ trees' \in SUBSET SourceTrees
  /\ UNCHANGED <<user, project, path>>

\* A path does not depend on the rules: it is spelled where there are none.
SpellPath ==
  /\ computed /\ user = <<>> /\ project = <<>> /\ Len(path) < MaxSegments
  /\ \E segment \in Segments : path' = Append(path, segment)
  /\ UNCHANGED <<user, project, trees, computed>>

RulesNext == WriteUser \/ WriteProject \/ Compute \/ SpellPath
RulesSpec == RulesInit /\ [][RulesNext]_ruleVars

-----------------------------------------------------------------------------
Reads(request) == NormalizeTarget(request.capability, request.target)
Says(rules, request) == {rule \in rules : Matches(rule, request, Reads(request))}
Denials(rules) == {rule \in ToSet(rules) : rule.effect = "deny"}
\* What nobody may open: the red lines, the user's own, and what the project denies.
Closed ==
  RedLineRules([Env EXCEPT !.extraSourceRoots = trees])
    \cup {rule \in Denials(user) : rule.immutable} \cup Denials(project)

\* No rule of a user or a project opens a red line, what the project denies is
\* denied, and the project's rules allow nothing that would be denied without them;
\* a target that cannot be read is denied (engine.ts, layers.ts, defaults.ts).
VerdictsHold ==
  computed =>
    LET with == SessionLayers(Env, user, project, trees)
        without == SessionLayers(Env, user, <<>>, trees)
    IN  \A request \in Asked :
          /\ ~Reads(request).ok \/ Says(Closed, request) # {} => Evaluate(request, with).effect = "deny"
          /\ Evaluate(request, with).effect = "allow" => Evaluate(request, without).effect = "allow"

\* A place has one spelling: no step to nowhere and none into a directory and back
\* is left of a path, and neither makes a difference (target.ts).
Plain == Segments \ {"", ".", ".."}
Reduced(segments) == NormalizePath([form |-> "root", drive |-> "", segs |-> segments])
Skipping(i, j) == SubSeq(path, 1, i - 1) \o SubSeq(path, j + 1, Len(path))
SpellingsAgree ==
  /\ ToSet(Reduced(path).parts) \subseteq Plain
  /\ \A i \in DOMAIN path : path[i] \in {"", "."} => Reduced(path) = Reduced(Skipping(i, i))
  /\ \A i \in DOMAIN path : path[i] \in Plain /\ i < Len(path) /\ path[i + 1] = ".." =>
       Reduced(path) = Reduced(Skipping(i, i + 1))

\* Rules only tighten, and no spelling of a place escapes them (engine.ts, layers.ts,
\* target.ts).
RulesHold == VerdictsHold /\ SpellingsAgree
=============================================================================
