---------------------------- MODULE PolicyEngine ----------------------------
(***************************************************************************)
(* The permission policy: rules in layers, the built-in ones with the red  *)
(* lines that nothing overrides, and the verdict on a request              *)
(* (packages/kernel/src/policy/engine.ts, defaults.ts, self-code.ts,       *)
(* layers.ts; turn-guard.ts of the runtime asks it for every claim).       *)
(*                                                                         *)
(* Of the tables of paths and programs each keeps the rows that differ in  *)
(* kind: a directory, one file, a wildcard name, a path anywhere.          *)
(***************************************************************************)
EXTENDS PolicyTargets, TLC

Capabilities == {"fs.read", "fs.write", "fs.delete", "shell.exec", "net.fetch", "browser.control",
                 "git.push", "package.install", "system.settings", "secrets.read", "gui.input",
                 "plugin.install", "self.modify"}

KindOf(capability) ==
  CASE capability \in {"fs.read", "fs.write", "fs.delete", "self.modify"} -> "path"
    [] capability \in {"net.fetch", "browser.control"} -> "host"
    [] capability = "shell.exec" -> "command"
    [] OTHER -> "opaque"

Pattern(drive, parts) == [any |-> FALSE, drive |-> drive, parts |-> parts, port |-> "none", below |-> FALSE]
AnyTarget == [any |-> TRUE, drive |-> "", parts |-> <<>>, port |-> "none", below |-> FALSE]
Host(below, parts) == [any |-> FALSE, drive |-> "", parts |-> parts, port |-> "none", below |-> below]

Rule(id, effect, capability, target, immutable) ==
  [id |-> id, effect |-> effect, capability |-> capability, target |-> target, private |-> FALSE,
   untrusted |-> FALSE, immutable |-> immutable]
RedLine(id, capability, target) == Rule(id, "deny", capability, target, TRUE)
Denial(id, capability, target) == Rule(id, "deny", capability, target, FALSE)
WhenUntrusted(rule) == [rule EXCEPT !.untrusted = TRUE]

\* A request is a capability, the target as the tool spelled it and whether
\* the session has seen untrusted content.  Commands come as the words of their
\* canonical text, with ok = FALSE when they cannot be parsed.
NormalizeTarget(capability, raw) ==
  CASE KindOf(capability) = "path" -> NormalizePath(raw)
    [] KindOf(capability) = "host" -> NormalizeHost(raw)
    [] OTHER -> raw

-----------------------------------------------------------------------------
(***************************************************************************)
(* The verdict.                                                            *)
(***************************************************************************)
TargetMatches(pattern, target, kind) ==
  CASE kind = "host" -> HostMatches(pattern, target)
    [] kind = "path" -> PathMatches(NormalizePattern(pattern), target)
    [] OTHER -> PathMatches(pattern, target)

Matches(rule, request, target) ==
  LET kind == KindOf(request.capability) IN
  /\ rule.capability \in {"*", request.capability}
  /\ rule.target.any \/ TargetMatches(rule.target, target, kind)
  /\ rule.private => kind = "host" /\ IsPrivate(target.parts)
  /\ rule.untrusted => request.untrusted

Matched(rules, request, target) == {i \in DOMAIN rules : Matches(rules[i], request, target)}
Verdict(effect, rule) == [effect |-> effect, rule |-> rule]

\* Mutant: the first layer with a match decides.
Evaluate_FirstLayer(request, layers) ==
  LET target == NormalizeTarget(request.capability, request.target)
      hits == [l \in DOMAIN layers |-> Matched(layers[l], request, target)]
      speaking == {l \in DOMAIN layers : hits[l] # {}}
  IN  IF ~target.ok THEN Verdict("deny", <<"invalid-target">>)
      ELSE IF speaking = {} THEN Verdict("allow", <<"no-rule-matched">>)
      ELSE LET l == Min(speaking)
               said == {i \in hits[l] : layers[l][i].effect = "deny"}
           IN  IF said # {} THEN Verdict("deny", layers[l][Max(said)].id)
               ELSE Verdict("allow", layers[l][Max(hits[l])].id)

\* An unreadable target is denied.  A red line that matches in any layer
\* denies.  Otherwise the last layer that says something decides: its denials
\* over its allowances, the rule written last over the one before it.
Evaluate(request, layers) ==
  LET target == NormalizeTarget(request.capability, request.target)
      hits == [l \in DOMAIN layers |-> Matched(layers[l], request, target)]
      denied == [l \in DOMAIN layers |-> {i \in hits[l] : layers[l][i].effect = "deny"}]
      red == [l \in DOMAIN layers |-> {i \in denied[l] : layers[l][i].immutable}]
      lines == {l \in DOMAIN layers : red[l] # {}}
      speaking == {l \in DOMAIN layers : hits[l] # {}}
  IN  IF ~target.ok THEN Verdict("deny", <<"invalid-target">>)
      ELSE IF lines # {} THEN Verdict("deny", layers[Max(lines)][Max(red[Max(lines)])].id)
      ELSE IF speaking = {} THEN Verdict("allow", <<"no-rule-matched">>)
      ELSE LET l == Max(speaking)
           IN  IF denied[l] # {} THEN Verdict("deny", layers[l][Max(denied[l])].id)
               ELSE Verdict("allow", layers[l][Max(hits[l])].id)

\* A call with several claims is denied by the first claim that is.
EvaluateClaims(claims, layers) ==
  LET refused == {i \in DOMAIN claims : Evaluate(claims[i], layers).effect = "deny"}
  IN  IF refused = {} THEN Verdict("allow", <<"all-claims-allowed">>)
      ELSE Evaluate(claims[Min(refused)], layers)

-----------------------------------------------------------------------------
(***************************************************************************)
(* The built-in rules.  env names the directories: home, the source tree,  *)
(* further trees, the data and the configuration directory.                *)
(***************************************************************************)
SegmentSets(path) == [i \in DOMAIN path |-> {path[i]}]
Under(path) == Pattern("", SegmentSets(path) \o <<Deep>>)
At(path) == Pattern("", SegmentSets(path))

\* One row of each kind of SELF_MODIFY_PROTECTED: a directory, a file, a
\* wildcard name, a file at the root of the tree.
SelfModifyProtected ==
  {<<{"kernel"}, {"policy"}, Deep>>, <<{"kernel"}, {"registry.ts"}>>,
   <<{"runtime"}, {"turn.ts", "turn-tools.ts"}>>, <<{"package.json"}>>}
GuardedCapabilities == {"self.modify", "fs.write", "fs.delete"}

InTree(root, row) == Pattern("", SegmentSets(root) \o row)
TreeRules(root, tag) ==
  {RedLine(<<"red.self-modify", tag, row, c>>, c, InTree(root, row)) :
     row \in SelfModifyProtected, c \in GuardedCapabilities}
SourceRules(env) == UNION {TreeRules(root, root) : root \in {env.sourceRoot} \cup env.extraSourceRoots}
InstallRules(env) ==
  {RedLine(<<"red.self-install", c>>, c, Under(env.installRoot)) : c \in GuardedCapabilities}
SelfModifyRedLines(env) == SourceRules(env) \cup InstallRules(env)

PrivateRuntimeDataRedLines(env) ==
  {RedLine(<<"red.private", root, c>>, c, Under(root)) :
     root \in {env.dataDir, env.configDir}, c \in {"fs.read", "fs.write", "fs.delete"}}

\* The audit database and the files SQLite keeps beside it.
AuditLogRedLines(env) ==
  {RedLine(<<"red.audit-log", c>>, c, InTree(env.dataDir, <<{"audit.db", "audit.db-wal"}>>)) :
     c \in {"fs.write", "fs.delete"}}

RedLineRules(env) ==
  {RedLine(<<"red.fs-delete-filesystem-root">>, "fs.delete", At(<<>>)),
   RedLine(<<"red.fs-delete-drive-root">>, "fs.delete", Pattern(AnyDrive, <<>>)),
   RedLine(<<"red.fs-delete-home-root">>, "fs.delete", At(env.home))}
  \cup {WhenUntrusted(RedLine(<<"red.untrusted", c>>, c, AnyTarget)) :
          c \in {"secrets.read", "gui.input", "plugin.install"}}
  \cup SelfModifyRedLines(env) \cup PrivateRuntimeDataRedLines(env) \cup AuditLogRedLines(env)

UntrustedContextRules ==
  {WhenUntrusted(Denial(<<"untrusted", c>>, c, AnyTarget)) :
     c \in {"git.push", "package.install", "system.settings"}}

\* What may not be read unless the user says so: below home and anywhere.
SensitiveReadRules(env) ==
  {Denial(<<"def.no-read", p>>, "fs.read", p) :
     p \in {Under(env.home \o <<".ssh">>), At(env.home \o <<".netrc">>),
            Pattern("", <<Deep, {".env", ".env.local"}>>), Pattern("", <<Deep, {"id_rsa"}>>)}}

\* What takes effect again and again after one write.
PersistencePaths(env) ==
  {At(env.home \o <<".bashrc">>), Under(env.home \o <<".config", "autostart">>),
   Pattern("", <<Deep, {".git"}, {"hooks"}, Deep>>)}
PersistencePathRules(env) ==
  {Denial(<<"def.no-write", p, c>>, c, p) : p \in PersistencePaths(env), c \in {"fs.write", "fs.delete"}}

SsrfDenyRules ==
  {[Denial(<<"def.no-fetch-private-network", c>>, c, AnyTarget) EXCEPT !.private = TRUE] :
     c \in {"net.fetch", "browser.control"}}

\* Programs whose effect their command line does not tell: alone, with arguments.
CommandDenyRules ==
  {Denial(<<"def.no-exec", p>>, "shell.exec", p) :
     p \in {Pattern("", <<{bin}>>) : bin \in {"sudo", "python"}}
       \cup {Pattern("", <<{bin}, Deep>>) : bin \in {"sudo", "python"}}}

\* A red line may only rest on targets that have one spelling, and ranges of
\* addresses only on hosts: otherwise the rules are refused as a whole.
RuleAllowed(rule) ==
  \/ rule.capability = "*"
  \/ /\ rule.private => KindOf(rule.capability) = "host"
     /\ rule.immutable /\ ~rule.target.any => KindOf(rule.capability) \in {"path", "host"}

\* The order inside a layer does not matter to these rules, none of which allows.
BuiltinRules(env) ==
  FoldSet(LAMBDA rule, rules : Append(rules, rule), <<>>,
          RedLineRules(env) \cup UntrustedContextRules \cup SensitiveReadRules(env)
          \cup PersistencePathRules(env) \cup SsrfDenyRules \cup CommandDenyRules)

\* The project's rules may forbid; what they would allow is dropped.
TightenOnly(rules) ==
  FoldLeft(LAMBDA kept, rule : IF rule.effect = "allow" THEN kept ELSE Append(kept, rule), <<>>, rules)

\* The built-in layer is always there, the others when they hold a rule.
Layer(rules) == IF rules = <<>> THEN <<>> ELSE <<rules>>
ComposeRules(env, user, project) == <<BuiltinRules(env)>> \o Layer(user) \o Layer(project)

\* The layers of a session: those of the application when its directory adds
\* nothing; otherwise a source tree it lies in is protected too.
SessionLayers(env, user, projectFile, workspaceTrees) ==
  ComposeRules([env EXCEPT !.extraSourceRoots = workspaceTrees \ {env.sourceRoot}],
               user, TightenOnly(projectFile))
Accepted(layers) == \A l \in DOMAIN layers : \A i \in DOMAIN layers[l] : RuleAllowed(layers[l][i])
=============================================================================
