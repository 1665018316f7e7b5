----------------------------- MODULE MCDesktop -----------------------------
(* The machines around a session, for TLC, and the operators without a     *)
(* state of their own: commands, profiles and results, which are applied   *)
(* to inputs that grow.                                                    *)
EXTENDS Desktop, SessionRules, TLC, SequencesExt, FiniteSetsExt

VARIABLE given     \* what the pure operators are applied to

allVars == <<machineVars, ruleVars, given>>

-----------------------------------------------------------------------------
\* Every wiring of three plugins over two services, up to the names of the
\* services, in which the last one provides at most one.
Row(name, inject, provide) == [name |-> name, inject |-> inject, provide |-> provide]
Alone == <<Row("p1", {}, {}), Row("p2", {}, {}), Row("p3", {}, {})>>
Wired == {<<Row("p1", a, b), Row("p2", c, d), Row("p3", e, f)>> :
            a \in {{}, {"s1"}, {"s1", "s2"}}, b, c, d, e \in SUBSET {"s1", "s2"}, f \in {{}, {"s2"}}}

\* A directory with two files.
Dirs == "d" :> "root" @@ "d/a" :> "d" @@ "d/b" :> "d"

-----------------------------------------------------------------------------
\* The directories of an application, and a source tree a session may work in.
Directories == [home |-> <<"home", "u">>, sourceRoot |-> <<"src">>, extraSourceRoots |-> {},
                installRoot |-> <<"opt">>, dataDir |-> <<"data">>, configDir |-> <<"cfg">>]
Workspace == {<<"w", "tree">>}
PathOf(segs) == [form |-> "root", drive |-> "", segs |-> segs]
SiteOf(labels) == [scheme |-> "http", labels |-> labels, port |-> "80"]
Ask(capability, target) == [capability |-> capability, target |-> target, untrusted |-> FALSE]

\* Requests for every kind of rule: red lines, defaults, and what no rule speaks of.
RequestsMade ==
  {Ask(c, PathOf(segs)) : c \in {"fs.read", "fs.write"},
     segs \in {<<"src", "kernel", "policy", "x">>, <<"src", "docs", "..", "kernel", "policy", "x">>,
               <<"data", "audit.db">>, <<"w", ".env">>, <<"w", "tree", "kernel", "registry.ts">>, <<"w", "x">>}}
  \cup {Ask("net.fetch", SiteOf(<<"127", "0", "0", "1">>)), Ask("net.fetch", SiteOf(<<"h">>)),
        Ask("net.fetch", SiteOf(<<"127", "010">>))}

\* Rules people write: for one thing, for everything below a place, for everything, and a red
\* line of one's own.
Ordinary ==
  {Rule(<<"own", e, c, t>>, e, c, t, FALSE) :
     e \in {"allow", "deny"}, c \in {"*", "fs.read", "net.fetch"},
     t \in {AnyTarget, Under(<<"w">>), Host(TRUE, <<"h">>)}}
Sensible(rule) == /\ rule.target.parts = <<"h">> => rule.capability = "net.fetch"
                  /\ rule.target.parts # <<"h">> /\ ~rule.target.any => rule.capability = "fs.read"
PeopleWrite == {rule \in Ordinary : Sensible(rule)}
                 \cup {Rule(<<"own.red">>, "deny", "fs.read", Under(<<"w">>), TRUE)}

-----------------------------------------------------------------------------
Command == INSTANCE CommandClaims
Compose == INSTANCE Profile
Results == INSTANCE ToolResults

-----------------------------------------------------------------------------
(* The inputs of the pure operators grow by one element a step.            *)

\* A command is written one word after the other.
Words == {"rm", "mv", "curl", "env", "sudo", "-rf", "--", "f", "http://h", ">", "|"}
WriteWord == Len(given) < 4 /\ \E w \in Words : given' = Append(given, Command!Word(w))

\* A user's patch of a profile: settings and rows.
Anchors == {"clock", "runtime", "runtime.context", "surface"}
NoPatch == [update |-> <<>>, insert |-> <<>>]
WritePatch ==
  /\ Len(given.patch.update) + Len(given.patch.insert) < 2
  /\ \/ \E id \in Anchors \cup {"nobody"} :
          given' = [given EXCEPT !.patch.update = Append(@, [id |-> id, config |-> "own"])]
     \/ \E anchor \in Anchors, where \in {"before", "after"}, id \in {"extra", "surface"}, b \in BOOLEAN :
          given' = [given EXCEPT !.patch.insert =
                      Append(@, [anchor |-> anchor, where |-> where, row |-> Compose!Row(id, b, {"tools"}, {})])]

\* The text of a result, unit by unit.
WriteUnit == Len(given) < 4 /\ \E u \in {"a", "n", "w", "H", "L"} : given' = Append(given, u)

\* A stored result is read chunk by chunk.
Unread == [text |-> <<>>, got |-> [pending |-> <<>>, total |-> 0, selected |-> <<>>]]
ReadChunk ==
  \E chunk \in UNION {[1..n -> {"a", "n", "r"}] : n \in 1..3} :
    /\ Len(given.text) + Len(chunk) <= 6
    /\ given' = [text |-> given.text \o chunk, got |-> Results!Consume(given.got, chunk, 2, 2, 2)]

-----------------------------------------------------------------------------
Machines == {"host", "window", "plugins", "state", "blobs", "files", "gateway", "edits", "config"}
Parts == Machines \cup {"rules", "command", "patch", "cut", "expand"}

\* Of the many states a part may begin in, one stands for it when it is not chosen.
PartsInit ==
  /\ part \in Parts
  /\ part # "plugins" => wiring = Alone
  /\ part # "files" => tree = [p \in Paths |-> "none"]
  /\ part # "gateway" => /\ dns = [h \in Hosts |-> "none"] /\ denied = {}
                         /\ link = [n \in Names \cup RealPlaces |-> IF n = "p2" THEN "p2" ELSE "p1"]
                         /\ kind = "host" /\ fields = <<"absent">>
  /\ part # "config" => config = Config!Broken
  /\ MachinesInit /\ RulesInit
  /\ CASE part = "patch" -> given \in [name : Compose!BUILTIN_PROFILE_NAMES, patch : {NoPatch}]
       [] part = "expand" -> given = Unread
       [] OTHER -> given = <<>>

PartsNext ==
  \/ MachinesNext /\ UNCHANGED <<ruleVars, given>>
  \/ Moves("rules") /\ RulesNext /\ UNCHANGED given
  \/ Moves("command") /\ WriteWord /\ UNCHANGED ruleVars
  \/ Moves("patch") /\ WritePatch /\ UNCHANGED ruleVars
  \/ Moves("cut") /\ WriteUnit /\ UNCHANGED ruleVars
  \/ Moves("expand") /\ ReadChunk /\ UNCHANGED ruleVars

PartsSpec == PartsInit /\ [][PartsNext]_allVars

-----------------------------------------------------------------------------
Derived(argv) == ToSet(Tail(Command!AnalyzeArgv(argv).claims))
Readable(argv) == Command!AnalyzeArgv(argv).ok
ShellOf(argv) == <<Command!Word("sh"), Command!Word("-c"), Command!Source(argv)>>
Asks(argv, more, claim) == Readable(ShellOf(argv \o more)) => claim \in Derived(ShellOf(argv \o more))

\* What a command asks for, it asks for behind env and in a shell too, where what is
\* redirected and what stands behind a bar is asked for besides.
NothingIsHidden ==
  given # <<>> =>
    LET wrapped == <<Command!Word("env")>> \o given
        plain == \A i \in DOMAIN given : given[i].text \notin Command!Marks
    IN  /\ ~Command!PrefixNoise(given[1]) =>
             /\ Readable(wrapped) => Readable(given) /\ Derived(given) \subseteq Derived(wrapped)
        /\ plain =>
             /\ Readable(ShellOf(given)) => Readable(given) /\ Derived(given) = Derived(ShellOf(given))
             /\ Asks(given, <<Command!Word(">"), Command!Word("g")>>,
                     Command!PathClaim("fs.write", Command!Word("g")))
             /\ Asks(given, <<Command!Word("|"), Command!Word("rm"), Command!Word("g")>>,
                     Command!PathClaim("fs.delete", Command!Word("g")))

-----------------------------------------------------------------------------
BaselineStays ==
  LET patched == Compose!ApplyProfilePatch(Compose!BuiltinProfile(given.name), given.patch)
  IN  patched # Compose!Failed =>
        /\ Compose!AssertBaseline(patched)
        /\ \A i \in DOMAIN patched.rows : patched.rows[i].baseline => patched.rows[i].config = "none"
        /\ Len(Compose!Activation(patched.rows)) = Len(patched.rows)

Limits == [strategy : {"head", "tail", "middle", "none"}, maxBytes : 1..7, maxLines : {1, 2, 99}, maxBlocks : {1}]

\* No way of wrapping a command hides what it is about; a user's patch leaves the
\* trusted rows of a profile as they are; a result that is cut keeps its limits and its
\* signs whole; and a stored result reads the same however its bytes come
\* (command-claims.ts, patch.ts, truncate.ts, result-expand.ts).
OperatorsAreRight ==
  /\ part = "command" => NothingIsHidden
  /\ part = "patch" => BaselineStays
  /\ part = "cut" /\ ~Results!Halved(given) => \A limits \in Limits : Results!CutIsRight(given, 2, limits)
  /\ part = "expand" => /\ given.got = Results!Consume(Unread.got, given.text, 2, 2, 2)
                        /\ Results!RangeIsRight(<<given.text>>, 2, 2, 2)
=============================================================================
