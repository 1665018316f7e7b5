---------------------------- MODULE CommandClaims ----------------------------
(***************************************************************************)
(* What a command line asks for: a list of words is taken apart into the   *)
(* claims (a capability and what it is used on) that the policy judges     *)
(* (packages/kernel/src/policy/command-claims.ts and command-target.ts).   *)
(*                                                                         *)
(* A word is its text, and, when a shell would read it as a program, the   *)
(* tokens of that program.  The tables of programs keep one program of     *)
(* each kind.                                                              *)
(***************************************************************************)
EXTENDS Naturals, Sequences, SequencesExt, FiniteSets

Word(text) == [text |-> text, source |-> <<>>]
Source(tokens) == [text |-> "source", source |-> tokens]
ArgTexts(argv) == [i \in DOMAIN argv |-> argv[i].text]

Claim(capability, kind, target) == [capability |-> capability, kind |-> kind, target |-> target]
PathClaim(capability, word) == Claim(capability, "path", <<word.text>>)
LiteralClaim(capability, words) == Claim(capability, "literal", words)

Refused == [ok |-> FALSE, claims |-> <<>>]
Found(claims) == [ok |-> TRUE, claims |-> claims]

\* One program of each row of PROFILES: how its operands are read, and how many
\* of them come before the paths.
Profile(bin) ==
  CASE bin = "rm" -> [kind |-> "delete", skip |-> 0]
    [] bin = "cp" -> [kind |-> "copy", skip |-> 0]
    [] bin = "mv" -> [kind |-> "move", skip |-> 0]
    [] bin = "tee" -> [kind |-> "write", skip |-> 0]
    [] bin = "chmod" -> [kind |-> "write", skip |-> 1]
    [] bin = "cat" -> [kind |-> "read", skip |-> 0]
    [] bin = "grep" -> [kind |-> "read", skip |-> 1]
    [] bin = "curl" -> [kind |-> "net", skip |-> 0]
    [] bin = "npm" -> [kind |-> "package", skip |-> 0]
    [] bin = "git" -> [kind |-> "git", skip |-> 0]
    [] bin \in {"env", "timeout"} -> [kind |-> "prefix", skip |-> 0]
    [] bin = "sh" -> [kind |-> "shell", skip |-> 0]
    [] bin \in {"sudo", "python"} -> [kind |-> "deny", skip |-> 0]
    [] OTHER -> [kind |-> "unknown", skip |-> 0]

Flag(word) == word.text \in {"-", "--", "-c", "-rf"}
PrefixNoise(word) == word.text \in {"-c", "-rf", "--", "-", "A=1", "5s"}
Url(word) == word.text \in {"http://h", "https://h"}

\* The words that are not flags; after "--" every word is one.
OperandsOf(args, skip) ==
  LET ends == {i \in DOMAIN args : args[i].text = "--"}
      literal == IF ends = {} THEN Len(args) + 1 ELSE CHOOSE i \in ends : \A j \in ends : i <= j
      Kept(i) == i > literal \/ (i < literal /\ (~Flag(args[i]) \/ args[i].text = "-"))
      chosen == SelectSeq([i \in DOMAIN args |-> i], Kept)
  IN  [k \in 1..(IF Len(chosen) > skip THEN Len(chosen) - skip ELSE 0) |-> args[chosen[k + skip]]]

PathClaims(profile, args) ==
  LET ops == OperandsOf(args, profile.skip)
      All(capability, words) == [i \in DOMAIN words |-> PathClaim(capability, words[i])]
      Moved(words) == FlattenSeq([i \in DOMAIN words |->
                        <<PathClaim("fs.read", words[i]), PathClaim("fs.delete", words[i])>>])
  IN  IF ops = <<>> THEN <<>>
      ELSE CASE profile.kind = "read" -> All("fs.read", ops)
             [] profile.kind = "write" -> All("fs.write", ops)
             [] profile.kind = "delete" -> All("fs.delete", ops)
             [] profile.kind = "copy" ->
                  All("fs.read", Front(ops)) \o <<PathClaim("fs.write", Last(ops))>>
             [] profile.kind = "move" -> Moved(Front(ops)) \o <<PathClaim("fs.write", Last(ops))>>
             [] OTHER -> <<>>

-----------------------------------------------------------------------------
(***************************************************************************)
(* Reading a shell program.  A token is a word, or one of the marks below. *)
(* Everything whose meaning depends on the moment it runs (variables,      *)
(* globs, subshells, background jobs, here-documents, open quotes) is      *)
(* refused.                                                                *)
(***************************************************************************)
Separators == {";", "|", "||", "&&"}
Unreadable == {"&", "<<", ">&", "$x", "*", "(", "{", "~u", "'"}
Redirect == [t \in {">", ">>", "<"} |-> IF t = "<" THEN "fs.read" ELSE "fs.write"]
Marks == Separators \cup Unreadable \cup DOMAIN Redirect

Segment(argv, redirects) == [argv |-> argv, redirects |-> redirects]
Start == [ok |-> TRUE, segments |-> <<>>, argv |-> <<>>, redirects |-> <<>>, pending |-> "none"]

Flush(state) ==
  IF state.argv = <<>> THEN [state EXCEPT !.ok = FALSE]
  ELSE [state EXCEPT !.segments = Append(@, Segment(state.argv, state.redirects)),
                     !.argv = <<>>, !.redirects = <<>>]

Token(state, token) ==
  IF ~state.ok \/ token.text \in Unreadable THEN [state EXCEPT !.ok = FALSE]
  ELSE IF token.text \in Separators THEN Flush(state)
  ELSE IF token.text \in DOMAIN Redirect THEN [state EXCEPT !.pending = Redirect[token.text]]
  ELSE IF state.pending # "none"
    THEN [state EXCEPT !.redirects = Append(@, PathClaim(state.pending, token)), !.pending = "none"]
  ELSE [state EXCEPT !.argv = Append(@, token)]

ParseShellSource(tokens) ==
  LET read == FoldLeft(Token, Start, tokens) IN
  IF \/ ~read.ok \/ read.pending # "none" \/ (read.argv = <<>> /\ read.segments = <<>>)
    THEN [read EXCEPT !.ok = FALSE]
    ELSE IF read.argv = <<>> THEN read ELSE Flush(read)

-----------------------------------------------------------------------------
(***************************************************************************)
(* The claims of one segment.  Prefixes and shells are looked through.     *)
(***************************************************************************)
MaxDepth == 8

RECURSIVE ClaimsOf(_, _)

Joined(parts) ==
  IF \E i \in DOMAIN parts : ~parts[i].ok THEN Refused
  ELSE Found(FlattenSeq([i \in DOMAIN parts |-> parts[i].claims]))

Inner(segment, args, depth) ==
  LET starts == {i \in DOMAIN args : ~PrefixNoise(args[i])} IN
  IF starts = {} THEN Found(<<>>)
  ELSE LET at == CHOOSE i \in starts : \A j \in starts : i <= j
       IN  ClaimsOf(Segment(SubSeq(args, at, Len(args)), <<>>), depth + 1)

\* sh -c program, or sh file.
Shell(args, depth) ==
  LET flags == {i \in DOMAIN args : args[i].text = "-c"}
      at == IF flags = {} THEN Len(args) ELSE CHOOSE i \in flags : \A j \in flags : i <= j
      files == OperandsOf(args, 0)
  IN  IF at >= Len(args)
        THEN Found(IF files = <<>> THEN <<>> ELSE <<PathClaim("fs.read", files[1])>>)
        ELSE LET parsed == ParseShellSource(args[at + 1].source)
             IN  IF ~parsed.ok THEN Refused
                 ELSE Joined([i \in DOMAIN parsed.segments |-> ClaimsOf(parsed.segments[i], depth + 1)])

Git(args) ==
  LET subs == OperandsOf(args, 0) IN
  IF subs = <<>> THEN <<>>
  ELSE CASE subs[1].text = "push" -> <<LiteralClaim("git.push", <<>>)>>
         [] subs[1].text = "commit" -> <<LiteralClaim("git.write", <<>>)>>
         [] OTHER -> <<>>

Package(base, args) ==
  IF \E i \in DOMAIN OperandsOf(args, 0) : OperandsOf(args, 0)[i].text = "install"
    THEN <<LiteralClaim("package.install", <<base>>)>> ELSE <<>>

\* A download names its address in full, and writes to what else it is given.
Net(args) ==
  LET ops == OperandsOf(args, 0)
      urls == SelectSeq(ops, Url)
      rest == SelectSeq(ops, LAMBDA w : ~Url(w))
  IN  IF urls = <<>> THEN Refused
      ELSE Found([i \in DOMAIN urls |-> LiteralClaim("net.fetch", <<urls[i].text>>)]
                 \o [i \in DOMAIN rest |-> PathClaim("fs.write", rest[i])])

ClaimsOf(segment, depth) ==
  LET base == IF segment.argv = <<>> THEN "" ELSE segment.argv[1].text
      args == IF segment.argv = <<>> THEN <<>> ELSE Tail(segment.argv)
      profile == Profile(base)
      own == CASE profile.kind = "deny" -> Found(<<LiteralClaim("shell.exec", ArgTexts(segment.argv))>>)
               [] profile.kind = "prefix" -> Inner(segment, args, depth)
               [] profile.kind = "shell" -> Shell(args, depth)
               [] profile.kind = "git" -> Found(Git(args))
               [] profile.kind = "package" -> Found(Package(base, args))
               [] profile.kind = "net" -> Net(args)
               [] profile.kind = "unknown" -> Found(<<>>)
               [] OTHER -> Found(PathClaims(profile, args))
  IN  IF depth > MaxDepth THEN Refused ELSE Joined(<<Found(segment.redirects), own>>)

\* analyzeArgv: the command itself is the first claim.
AnalyzeArgv(argv) ==
  LET derived == ClaimsOf(Segment(argv, <<>>), 0) IN
  IF argv = <<>> \/ ~derived.ok THEN Refused
  ELSE Found(<<LiteralClaim("shell.exec", ArgTexts(argv))>> \o derived.claims)

\* canonicalizeSegment: the words, then what is redirected.
CanonicalizeSegment(segment) ==
  ArgTexts(segment.argv)
  \o FlattenSeq([i \in DOMAIN segment.redirects |->
                   <<IF segment.redirects[i].capability = "fs.write" THEN ">" ELSE "<">>
                   \o segment.redirects[i].target])

\* A command given as one text: its canonical form, whatever separated its
\* segments is spelled "|".
NormalizeCommandTarget(tokens) ==
  LET parsed == ParseShellSource(tokens) IN
  IF tokens = <<>> THEN [ok |-> TRUE, parts |-> <<>>]
  ELSE [ok |-> parsed.ok,
        parts |-> IF ~parsed.ok THEN <<>>
                  ELSE Tail(FlattenSeq([i \in DOMAIN parsed.segments |->
                              <<"|">> \o CanonicalizeSegment(parsed.segments[i])]))]
=============================================================================
