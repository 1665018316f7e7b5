---------------------------- MODULE OperatorProofs ----------------------------
(***************************************************************************)
(* Proofs about the operators of PolicyEngine, PolicyTargets,              *)
(* SessionRules, Profile, ToolResults and ProviderWire, for arguments of   *)
(* any size: no layer of rules opens a red line, a layer that only         *)
(* forbids, as the project's rules do, never allows what the layers before *)
(* it deny, and a path names one place however it is spelled; no patch     *)
(* takes the baseline out of a profile; the chunks a stored result is read *)
(* in do not change the lines a caller gets; the names of the tools come   *)
(* back from the provider, and the pieces its answer arrives in do not     *)
(* change the frames.                                                      *)
(***************************************************************************)
EXTENDS SessionRules, Profile, ToolResults, ProviderWire,
        SequenceTheorems, FiniteSetTheorems, WellFoundedInduction, TLAPS

Target(request) == NormalizeTarget(request.capability, request.target)
Denies(rule, request) == rule.effect = "deny" /\ Matches(rule, request, Target(request))

\* A red line that matches denies, in whatever layer it stands and whatever the
\* layers above it allow (evaluate of engine.ts, the immutable pass).
THEOREM RedLinesHold ==
  ASSUME NEW request, NEW layers, NEW l \in DOMAIN layers, NEW i \in DOMAIN layers[l],
         Denies(layers[l][i], request), layers[l][i].immutable
  PROVE  Evaluate(request, layers).effect = "deny"
<1> DEFINE hits == [k \in DOMAIN layers |-> Matched(layers[k], request, Target(request))]
           denied == [k \in DOMAIN layers |-> {j \in hits[k] : layers[k][j].effect = "deny"}]
           red == [k \in DOMAIN layers |-> {j \in denied[k] : layers[k][j].immutable}]
           lines == {k \in DOMAIN layers : red[k] # {}}
<1>1. i \in hits[l]
  BY DEF Matched, Denies
<1>2. i \in red[l]
  BY <1>1 DEF Denies
<1>3. lines # {}
  BY <1>2
<1>4. \/ Evaluate(request, layers) = Verdict("deny", <<"invalid-target">>)
      \/ \E id : Evaluate(request, layers) = Verdict("deny", id)
  <2>1. CASE ~Target(request).ok
    BY <2>1 DEF Evaluate, Target
  <2>2. CASE Target(request).ok
    <3>1. Evaluate(request, layers)
            = Verdict("deny", layers[Max(lines)][Max(red[Max(lines)])].id)
      BY <1>3, <2>2 DEF Evaluate, Target
    <3> QED
      BY <3>1
  <2> QED
    BY <2>1, <2>2
<1> QED
  BY <1>4 DEF Verdict

\* The greatest number of a set is there when a number of it is greatest.
LEMMA MaxIs ==
  ASSUME NEW S, S \subseteq Nat, NEW n \in S, \A k \in S : k <= n
  PROVE  Max(S) = n
<1>1. \E x \in S : \A y \in S : x >= y
  BY DEF Max
<1>2. Max(S) \in S /\ \A y \in S : Max(S) >= y
  BY <1>1 DEF Max
<1>3. Max(S) \in Nat /\ n \in Nat /\ Max(S) >= n /\ Max(S) <= n
  BY <1>2
<1> QED
  BY <1>3

\* A set of numbers with a bound has its greatest number as Max.
LEMMA MaxExists ==
  ASSUME NEW n \in Nat, NEW S, S \subseteq 1..n, S # {}
  PROVE  Max(S) \in 1..n /\ Max(S) \in S /\ \A y \in S : Max(S) >= y
<1> DEFINE Below == {n - x : x \in S}
           Less == OpToRel(<, Nat)
<1>1. Below \subseteq Nat /\ Below # {}
  <2>1. \A x \in S : x \in 1..n /\ n - x \in Nat
    OBVIOUS
  <2> QED
    BY <2>1
<1>2. PICK m \in Below : \A k \in Below : <<k, m>> \notin Less
  <2> HIDE DEF Below
  <2>1. IsWellFoundedOn(Less, Nat)
    BY NatLessThanWellFounded
  <2> HIDE DEF Less
  <2> QED
    BY <1>1, <2>1, WFMin
<1>3. \A k \in Below : k >= m
  <2> SUFFICES ASSUME NEW k \in Below PROVE k >= m
    OBVIOUS
  <2>1. k \in Nat /\ m \in Nat
    BY <1>1
  <2>2. ~(k < m)
    BY <1>2, <2>1 DEF OpToRel
  <2> QED
    BY <2>1, <2>2
<1>4. PICK x \in S : m = n - x
  BY <1>2
<1>5. \A y \in S : x >= y
  <2> SUFFICES ASSUME NEW y \in S PROVE x >= y
    OBVIOUS
  <2>1. n - y >= n - x
    BY <1>3, <1>4
  <2> QED
    BY <2>1
<1>6. Max(S) \in S /\ \A y \in S : Max(S) >= y
  BY <1>5 DEF Max
<1> QED
  BY <1>6

\* What a layer says about a request, and the layers that say something.
Hits(rules, request) == Matched(rules, request, Target(request))
Denied(rules, request) == {i \in Hits(rules, request) : rules[i].effect = "deny"}
Red(rules, request) == {i \in Denied(rules, request) : rules[i].immutable}
Speaking(layers, request) == {l \in DOMAIN layers : Hits(layers[l], request) # {}}

\* When a request is allowed.
LEMMA AllowedIs ==
  ASSUME NEW request, NEW layers, NEW n \in Nat, DOMAIN layers = 1..n
  PROVE  Evaluate(request, layers).effect = "allow" <=>
           /\ Target(request).ok
           /\ \A l \in DOMAIN layers : Red(layers[l], request) = {}
           /\ \/ Speaking(layers, request) = {}
              \/ /\ Speaking(layers, request) # {}
                 /\ Denied(layers[Max(Speaking(layers, request))], request) = {}
<1> DEFINE hits == [l \in DOMAIN layers |-> Matched(layers[l], request, Target(request))]
           denied == [l \in DOMAIN layers |-> {i \in hits[l] : layers[l][i].effect = "deny"}]
           red == [l \in DOMAIN layers |-> {i \in denied[l] : layers[l][i].immutable}]
           lines == {l \in DOMAIN layers : red[l] # {}}
           speaking == {l \in DOMAIN layers : hits[l] # {}}
           top == Max(speaking)
<1>1. \A l \in DOMAIN layers : /\ hits[l] = Hits(layers[l], request)
                               /\ denied[l] = Denied(layers[l], request)
                               /\ red[l] = Red(layers[l], request)
  BY DEF Hits, Denied, Red
<1>2. lines = {} <=> \A l \in DOMAIN layers : Red(layers[l], request) = {}
  BY <1>1
<1>3. speaking = Speaking(layers, request)
  BY <1>1 DEF Speaking
<1>4. Evaluate(request, layers).effect =
        IF ~Target(request).ok THEN "deny"
        ELSE IF lines # {} THEN "deny"
        ELSE IF speaking = {} THEN "allow"
        ELSE IF denied[top] # {} THEN "deny" ELSE "allow"
  BY DEF Evaluate, Verdict, Target
<1> HIDE DEF lines
<1>5. CASE speaking = {}
  BY <1>2, <1>3, <1>4, <1>5
<1>6. CASE speaking # {}
  <2>1. top \in DOMAIN layers
    BY <1>6, MaxExists
  <2>2. denied[top] = Denied(layers[top], request)
    BY <1>1, <2>1
  <2> HIDE DEF hits, denied, speaking
  <2> QED
    BY <1>2, <1>3, <1>4, <1>6, <2>2
<1> QED
  BY <1>5, <1>6

\* What is allowed with a layer of denials on top is allowed without it
\* (tightenOnly and sessionPolicyLayers of layers.ts).
THEOREM DenialsOnlyTighten ==
  ASSUME NEW request, NEW R, NEW layers \in Seq(Seq(R)), NEW rules \in Seq(R),
         \A i \in DOMAIN rules : rules[i].effect = "deny",
         Evaluate(request, Append(layers, rules)).effect = "allow"
  PROVE  Evaluate(request, layers).effect = "allow"
<1> DEFINE more == Append(layers, rules)
           n == Len(layers)
<1>1. /\ n \in Nat /\ DOMAIN layers = 1..n /\ DOMAIN more = 1..(n + 1)
      /\ more[n + 1] = rules /\ \A k \in 1..n : more[k] = layers[k]
  OBVIOUS
<1>2. /\ Target(request).ok
      /\ \A l \in 1..(n + 1) : Red(more[l], request) = {}
      /\ \/ Speaking(more, request) = {}
         \/ /\ Speaking(more, request) # {}
            /\ Denied(more[Max(Speaking(more, request))], request) = {}
  <2>1. Evaluate(request, more).effect = "allow"
    OBVIOUS
  <2>2. n + 1 \in Nat
    BY <1>1
  <2> HIDE DEF more, n
  <2> QED
    BY <1>1, <2>1, <2>2, AllowedIs
<1> HIDE DEF more, n
<1>3. Hits(rules, request) = {}
  <2> SUFFICES ASSUME Hits(rules, request) # {} PROVE FALSE
    OBVIOUS
  <2>1. n + 1 \in Speaking(more, request) /\ Speaking(more, request) \subseteq 1..(n + 1)
    BY <1>1 DEF Speaking
  <2>2. Max(Speaking(more, request)) = n + 1
    BY <1>1, <2>1, MaxIs
  <2>3. Denied(rules, request) # {}
    BY DEF Denied, Hits, Matched
  <2> QED
    BY <1>1, <1>2, <2>1, <2>2, <2>3
<1>4. Speaking(more, request) = Speaking(layers, request)
  <2>1. 1..(n + 1) = (1..n) \cup {n + 1}
    BY <1>1
  <2> QED
    BY <1>1, <1>3, <2>1 DEF Speaking
<1>5. \A l \in DOMAIN layers : Red(layers[l], request) = {}
  BY <1>1, <1>2
<1>6. ASSUME Speaking(layers, request) # {}
      PROVE  Denied(layers[Max(Speaking(layers, request))], request) = {}
  <2>1. Speaking(layers, request) \subseteq 1..n
    BY <1>1 DEF Speaking
  <2>2. \A k \in Speaking(layers, request) : more[k] = layers[k]
    BY <1>1, <2>1
  <2>3. Max(Speaking(layers, request)) \in 1..n
    BY <1>1, <1>6, <2>1, MaxExists
  <2> QED
    BY <1>1, <1>2, <1>4, <1>6, <2>3
<1> QED
  BY <1>2, <1>5, <1>6, AllowedIs

-----------------------------------------------------------------------------
(* Folds.  What a fold computes is the end of a run, so what holds of a    *)
(* run step by step holds of the fold.                                     *)

\* Induction, over the set of the numbers for which it holds.
LEMMA Induction ==
  ASSUME NEW S, S \subseteq Nat, 0 \in S, \A n \in S : n + 1 \in S
  PROVE  S = Nat
<1> DEFINE T == Nat \ S
           Less == OpToRel(<, Nat)
<1>1. SUFFICES ASSUME T # {} PROVE FALSE
  OBVIOUS
<1>2. PICK x \in T : \A y \in T : <<y, x>> \notin Less
  <2>1. IsWellFoundedOn(Less, Nat)
    BY NatLessThanWellFounded
  <2> HIDE DEF Less
  <2>2. T \subseteq Nat
    OBVIOUS
  <2> HIDE DEF T
  <2> QED
    BY <1>1, <2>1, <2>2, WFMin
<1>3. x - 1 \in Nat /\ x - 1 \in S
  <2>1. x \in Nat /\ x # 0
    OBVIOUS
  <2>2. x - 1 \in Nat /\ x - 1 < x
    BY <2>1
  <2>3. <<x - 1, x>> \in Less
    BY <2>1, <2>2 DEF OpToRel
  <2> QED
    BY <1>2, <2>2, <2>3
<1>4. x \in Nat /\ x \notin S /\ (x - 1) + 1 = x
  OBVIOUS
<1> HIDE DEF T
<1> QED
  BY <1>3, <1>4

\* A line feed begins a line, every other unit goes to the last one.
Broken(lines, u) ==
  IF u = "n" THEN Append(lines, <<>>) ELSE Append(Front(lines), Append(Last(lines), u))

\* A name that is not in the table yet gets a form of its own.
Offered(taken, name) ==
  IF name \in DOMAIN taken THEN taken
  ELSE [n \in DOMAIN taken \cup {name} |-> IF n = name THEN WireName(taken, name) ELSE taken[n]]

\* One frame more is taken off what has come.
Took(got) ==
  LET boundary == FindFrameBoundary(got.buffer)
  IN  IF boundary[1] = 0 THEN got
      ELSE [frames |-> got.frames \o ParseFrame(SubSeq(got.buffer, 1, boundary[1] - 1)),
            buffer |-> SubSeq(got.buffer, boundary[1] + boundary[2], Len(got.buffer))]

\* The folds: of a path over its segments, of a project's rules, and of the
\* built-in rules, which are a set.
Folded(which, x, e) ==
  IF which = "spelling" THEN Step(x, e)
  ELSE IF which = "update" THEN Update(x, e)
  ELSE IF which = "insert" THEN Insert(x, e)
  ELSE IF which = "split" THEN Broken(x, e)
  ELSE IF which = "accept" THEN Accept(x, e.line, e.offset, e.limit, e.max)
  ELSE IF which = "consume" THEN Consume(x, e.line, e.offset, e.limit, e.max)
  ELSE IF which = "codec" THEN Offered(x, e)
  ELSE IF which = "took" THEN Took(x)
  ELSE IF which = "heard" THEN TakeFrames(x.frames, x.buffer \o e)
  ELSE IF which = "tighten" /\ e.effect = "allow" THEN x ELSE Append(x, e)

\* Which of the places, or of the rules themselves, is folded last.
Chosen(which, t) == IF which = "collect" THEN CHOOSE x \in t : TRUE ELSE Max(t)
Element(which, s, x) == IF which = "collect" THEN x ELSE s[x]

\* What MapThenFoldSet computes, set by set.
FoldedSet(which, h, base, s, t) ==
  IF t = {} THEN base
  ELSE Folded(which, h[t \ {Chosen(which, t)}], Element(which, s, Chosen(which, t)))
FoldsOn(which, h, base, s, D) == h = [t \in D |-> FoldedSet(which, h, base, s, t)]

\* A function that folds every part of a finite set exists.
LEMMA FoldExists ==
  ASSUME NEW which, NEW base, NEW s, NEW S, IsFiniteSet(S),
         \A t \in SUBSET S : t # {} => Chosen(which, t) \in t
  PROVE  \E h : FoldsOn(which, h, base, s, SUBSET S)
<1> DEFINE D(n) == {t \in SUBSET S : Cardinality(t) <= n}
           P == {n \in Nat : \E h : FoldsOn(which, h, base, s, D(n))}
           Rest(t) == t \ {Chosen(which, t)}
<1>1. \A t \in SUBSET S : IsFiniteSet(t) /\ Cardinality(t) \in Nat /\ (Cardinality(t) = 0 <=> t = {})
  BY FS_Subset, FS_CardinalityType, FS_EmptySet
<1>2. \A t \in SUBSET S : t # {} => Rest(t) \in SUBSET S /\ Cardinality(Rest(t)) = Cardinality(t) - 1
  BY <1>1, FS_RemoveElement
<1>3. 0 \in P
  <2>1. D(0) = {{}}
    BY <1>1
  <2> DEFINE h == [t \in {{}} |-> base]
  <2>2. h = [t \in D(0) |-> FoldedSet(which, h, base, s, t)]
    BY <2>1 DEF FoldedSet
  <2> QED
    BY <2>2 DEF FoldsOn
<1>4. ASSUME NEW n \in P PROVE n + 1 \in P
  <2>0. n \in Nat
    OBVIOUS
  <2>1. PICK h : FoldsOn(which, h, base, s, D(n))
    OBVIOUS
  <2>2. \A t \in D(n) : h[t] = FoldedSet(which, h, base, s, t)
    BY <2>1 DEF FoldsOn
  <2> DEFINE g == [t \in D(n + 1) |->
                     IF t \in D(n) THEN h[t]
                     ELSE Folded(which, h[Rest(t)], Element(which, s, Chosen(which, t)))]
  <2>3. ASSUME NEW t \in D(n + 1) PROVE g[t] = FoldedSet(which, g, base, s, t)
    <3>1. \A u \in D(n) : u \in D(n + 1) /\ g[u] = h[u]
      BY <1>1, <2>0
    <3>2. t # {} => Rest(t) \in D(n)
      BY <1>1, <1>2, <2>0
    <3>3. CASE t \in D(n)
      <4>1. g[t] = FoldedSet(which, h, base, s, t)
        BY <2>2, <3>1, <3>3
      <4>2. t # {} => g[Rest(t)] = h[Rest(t)]
        BY <3>1, <3>2
      <4> HIDE DEF g
      <4> QED
        BY <4>1, <4>2 DEF FoldedSet
    <3>4. CASE t \notin D(n)
      <4>1. t # {}
        BY <1>1, <2>0, <3>4
      <4>2. g[t] = Folded(which, h[Rest(t)], Element(which, s, Chosen(which, t)))
        BY <3>4
      <4>3. g[Rest(t)] = h[Rest(t)]
        BY <3>1, <3>2, <4>1
      <4> HIDE DEF g
      <4> QED
        BY <4>1, <4>2, <4>3 DEF FoldedSet
    <3> QED
      BY <3>3, <3>4
  <2>4. g = [t \in D(n + 1) |-> g[t]]
    OBVIOUS
  <2> HIDE DEF g
  <2>5. g = [t \in D(n + 1) |-> FoldedSet(which, g, base, s, t)]
    BY <2>3, <2>4, Zenon
  <2>6. FoldsOn(which, g, base, s, D(n + 1))
    BY <2>5 DEF FoldsOn
  <2>7. n + 1 \in Nat /\ \E k : FoldsOn(which, k, base, s, D(n + 1))
    <3> HIDE DEF D
    <3> QED
      BY <2>0, <2>6
  <2> HIDE DEF D
  <2> QED
    BY <2>7
<1>5. Cardinality(S) \in P
  <2> HIDE DEF P
  <2>1. P = Nat
    <3>1. P \subseteq Nat
      BY DEF P
    <3> QED
      BY <1>3, <1>4, <3>1, Induction
  <2> QED
    BY <1>1, <2>1
<1>6. D(Cardinality(S)) = SUBSET S
  <2>1. \A t \in SUBSET S : Cardinality(t) <= Cardinality(S)
    BY FS_Subset
  <2> QED
    BY <2>1
<1> HIDE DEF D
<1>7. PICK h : FoldsOn(which, h, base, s, D(Cardinality(S)))
  BY <1>5
<1> QED
  BY <1>6, <1>7

\* A run of a fold over a sequence, element by element.
IsRun(which, f, base, s) ==
  f[0] = base /\ \A k \in 1..Len(s) : f[k] = Folded(which, f[k - 1], s[k])

\* A sequence is folded from its first element to its last.
LEMMA FoldRuns ==
  ASSUME NEW which, which # "collect", NEW base, NEW s, Len(s) \in Nat, NEW h,
         FoldsOn(which, h, base, s, SUBSET (1..Len(s)))
  PROVE  \E f : IsRun(which, f, base, s) /\ h[1..Len(s)] = f[Len(s)]
<1> DEFINE N == Len(s)
           f == [k \in 0..N |-> h[1..k]]
<1>0. N \in Nat
  OBVIOUS
<1>1. \A t \in SUBSET (1..N) : h[t] = FoldedSet(which, h, base, s, t)
  BY DEF FoldsOn
<1>2. f[0] = base
  <2>1. 1..0 = {} /\ {} \in SUBSET (1..N) /\ 0 \in 0..N
    BY <1>0
  <2>2. h[{}] = base
    BY <1>1, <2>1 DEF FoldedSet
  <2> QED
    BY <2>1, <2>2
<1>3. ASSUME NEW k \in 1..N PROVE f[k] = Folded(which, f[k - 1], s[k])
  <2>1. k \in Nat /\ k <= N /\ 1..k \in SUBSET (1..N) /\ k \in 1..k
    BY <1>0
  <2>2. Max(1..k) = k
    <3>1. 1..k \subseteq Nat /\ \A j \in 1..k : j <= k
      BY <2>1
    <3> QED
      BY <2>1, <3>1, MaxIs
  <2>3. (1..k) \ {k} = 1..k - 1
    BY <2>1
  <2>4. h[1..k] = FoldedSet(which, h, base, s, 1..k)
    BY <1>1, <2>1
  <2>5. FoldedSet(which, h, base, s, 1..k) = Folded(which, h[1..k - 1], s[k])
    BY <2>1, <2>2, <2>3 DEF FoldedSet, Chosen, Element
  <2>6. k - 1 \in 0..N /\ k \in 0..N
    BY <1>0
  <2> QED
    BY <2>4, <2>5, <2>6
<1>4. f[N] = h[1..N]
  BY <1>0
<1> HIDE DEF f
<1> QED
  BY <1>2, <1>3, <1>4 DEF IsRun

\* For a sequence there is a fold.
LEMMA SequenceFolds ==
  ASSUME NEW which, which # "collect", NEW base, NEW s, Len(s) \in Nat
  PROVE  \E h : FoldsOn(which, h, base, s, SUBSET (1..Len(s)))
<1>1. IsFiniteSet(1..Len(s))
  BY FS_Interval
<1>2. \A t \in SUBSET (1..Len(s)) : t # {} => Chosen(which, t) \in t
  BY MaxExists DEF Chosen
<1> QED
  BY <1>1, <1>2, FoldExists

\* The directories and names that are left of a path.
Walk(s) == FoldLeft(Step, <<>>, s)

\* They are a run over its segments.
LEMMA SpellingRuns ==
  ASSUME NEW s, Len(s) \in Nat, DOMAIN s = 1..Len(s)
  PROVE  \E f : IsRun("spelling", f, <<>>, s) /\ Walk(s) = f[Len(s)]
<1> DEFINE N == Len(s)
           Of(h, t) == IF t = {} THEN <<>> ELSE Step(h[t \ {Max(t)}], s[Max(t)])
           chosen == CHOOSE h : h = [t \in SUBSET (1..N) |-> Of(h, t)]
<1>1. \A h, t : Of(h, t) = FoldedSet("spelling", h, <<>>, s, t)
  BY DEF FoldedSet, Folded, Chosen, Element
<1>2. Walk(s) = chosen[1..N]
  BY DEF Walk, FoldLeft, MapThenFoldSet
<1> HIDE DEF Of
<1>3. \E h : h = [t \in SUBSET (1..N) |-> Of(h, t)]
  <2>1. PICK h : FoldsOn("spelling", h, <<>>, s, SUBSET (1..N))
    BY SequenceFolds
  <2> QED
    BY <1>1, <2>1 DEF FoldsOn
<1>4. chosen = [t \in SUBSET (1..N) |-> Of(chosen, t)]
  BY <1>3
<1> HIDE DEF chosen
<1>5. FoldsOn("spelling", chosen, <<>>, s, SUBSET (1..N))
  BY <1>1, <1>4 DEF FoldsOn
<1>6. PICK f : IsRun("spelling", f, <<>>, s) /\ f[N] = chosen[1..N]
  BY <1>5, FoldRuns
<1>7. Walk(s) = f[Len(s)]
  BY <1>2, <1>6
<1> QED
  BY <1>6, <1>7

\* What is kept of a project's rules is a run over them.
LEMMA TightenRuns ==
  ASSUME NEW s, Len(s) \in Nat, DOMAIN s = 1..Len(s)
  PROVE  \E f : IsRun("tighten", f, <<>>, s) /\ TightenOnly(s) = f[Len(s)]
<1> DEFINE N == Len(s)
           Of(h, t) == IF t = {} THEN <<>>
                       ELSE IF s[Max(t)].effect = "allow" THEN h[t \ {Max(t)}]
                       ELSE Append(h[t \ {Max(t)}], s[Max(t)])
           chosen == CHOOSE h : h = [t \in SUBSET (1..N) |-> Of(h, t)]
<1>1. \A h, t : Of(h, t) = FoldedSet("tighten", h, <<>>, s, t)
  BY DEF FoldedSet, Folded, Chosen, Element
<1>2. TightenOnly(s) = chosen[1..N]
  BY DEF TightenOnly, FoldLeft, MapThenFoldSet
<1> HIDE DEF Of
<1>3. \E h : h = [t \in SUBSET (1..N) |-> Of(h, t)]
  <2>1. PICK h : FoldsOn("tighten", h, <<>>, s, SUBSET (1..N))
    BY SequenceFolds
  <2> QED
    BY <1>1, <2>1 DEF FoldsOn
<1>4. chosen = [t \in SUBSET (1..N) |-> Of(chosen, t)]
  BY <1>3
<1> HIDE DEF chosen
<1>5. FoldsOn("tighten", chosen, <<>>, s, SUBSET (1..N))
  BY <1>1, <1>4 DEF FoldsOn
<1>6. PICK f : IsRun("tighten", f, <<>>, s) /\ f[N] = chosen[1..N]
  BY <1>5, FoldRuns
<1>7. TightenOnly(s) = f[Len(s)]
  BY <1>2, <1>6
<1> QED
  BY <1>6, <1>7

\* The built-in rules, as a set.
Builtin(env) ==
  RedLineRules(env) \cup UntrustedContextRules \cup SensitiveReadRules(env)
    \cup PersistencePathRules(env) \cup SsrfDenyRules \cup CommandDenyRules

\* Their layer is a fold of the set.
LEMMA BuiltinFolds ==
  ASSUME NEW env, IsFiniteSet(Builtin(env))
  PROVE  \E h : /\ FoldsOn("collect", h, <<>>, <<>>, SUBSET Builtin(env))
                /\ BuiltinRules(env) = h[Builtin(env)]
<1> DEFINE S == Builtin(env)
           Of(h, t) == IF t = {} THEN <<>>
                       ELSE Append(h[t \ {CHOOSE x \in t : TRUE}], CHOOSE x \in t : TRUE)
           chosen == CHOOSE h : h = [t \in SUBSET S |-> Of(h, t)]
<1>1. \A h, t : Of(h, t) = FoldedSet("collect", h, <<>>, <<>>, t)
  BY DEF FoldedSet, Folded, Chosen, Element
<1>2. BuiltinRules(env) = chosen[S]
  BY DEF BuiltinRules, FoldSet, MapThenFoldSet, Builtin
<1> HIDE DEF Of, S
<1>3. \E h : h = [t \in SUBSET S |-> Of(h, t)]
  <2>1. \A t \in SUBSET S : t # {} => Chosen("collect", t) \in t
    BY DEF Chosen
  <2>2. PICK h : FoldsOn("collect", h, <<>>, <<>>, SUBSET S)
    BY <2>1, FoldExists DEF S
  <2> QED
    BY <1>1, <2>2 DEF FoldsOn
<1>4. chosen = [t \in SUBSET S |-> Of(chosen, t)]
  BY <1>3
<1> HIDE DEF chosen
<1>5. FoldsOn("collect", chosen, <<>>, <<>>, SUBSET S)
  BY <1>1, <1>4 DEF FoldsOn
<1> QED
  BY <1>2, <1>5 DEF S

-----------------------------------------------------------------------------
(* Spellings.                                                              *)

\* A step leaves only names.
LEMMA StepIsPlain ==
  ASSUME NEW out \in Seq(Plain), NEW e \in Segments
  PROVE  Step(out, e) \in Seq(Plain)
<1>1. CASE e \in {"", "."}
  BY <1>1 DEF Step
<1>2. CASE e = ".."
  <2>1. out # <<>> => Front(out) \in Seq(Plain)
    <3> SUFFICES ASSUME out # <<>> PROVE SubSeq(out, 1, Len(out) - 1) \in Seq(Plain)
      BY DEF Front
    <3>1. \A k \in 1..Len(out) - 1 : out[k] \in Plain
      OBVIOUS
    <3>2. 1 \in Int /\ Len(out) - 1 \in Int
      OBVIOUS
    <3> QED
      BY <3>1, <3>2, SubSeqProperties
  <2> QED
    BY <1>2, <2>1 DEF Step
<1>3. CASE e \notin {"", ".", ".."}
  <2>1. Step(out, e) = Append(out, e)
    BY <1>3 DEF Step
  <2>2. e \in Plain
    BY <1>3 DEF Plain
  <2> QED
    BY <2>1, <2>2
<1> QED
  BY <1>1, <1>2, <1>3

\* Into a directory and back is no step.
LEMMA BackAgain ==
  ASSUME NEW out \in Seq(Plain), NEW e \in Plain
  PROVE  Step(Step(out, e), "..") = out
<1> DEFINE more == Append(out, e)
<1>1. Step(out, e) = more
  BY DEF Step, Plain
<1>2. more \in Seq(Plain) /\ Len(more) = Len(out) + 1 /\ more # <<>>
      /\ \A k \in 1..Len(out) : more[k] = out[k]
  BY AppendProperties
<1>3. Step(more, "..") = SubSeq(more, 1, Len(out))
  <2>1. Len(more) - 1 = Len(out)
    BY <1>2
  <2> HIDE DEF more
  <2> QED
    BY <1>2, <2>1 DEF Step, Front
<1>4. SubSeq(more, 1, Len(out)) = out
  <2> DEFINE back == SubSeq(more, 1, Len(out))
  <2>1. \A k \in 1..Len(out) : more[k] \in Plain
    BY <1>2
  <2>2. Len(out) \in Nat /\ 1 \in Int /\ Len(out) \in Int
    OBVIOUS
  <2> HIDE DEF more
  <2>3. /\ back \in Seq(Plain) /\ Len(back) = IF 1 <= Len(out) THEN Len(out) - 1 + 1 ELSE 0
        /\ \A k \in 1..Len(out) - 1 + 1 : back[k] = more[1 + k - 1]
    BY <2>1, <2>2, SubSeqProperties
  <2>4. Len(back) = Len(out) /\ \A k \in 1..Len(out) : back[k] = out[k]
    BY <1>2, <2>2, <2>3
  <2> HIDE DEF back
  <2> QED
    BY <2>3, <2>4
<1> QED
  BY <1>1, <1>3, <1>4

\* All that is left along the way are names.
LEMMA WalkIsPlain ==
  ASSUME NEW s \in Seq(Segments), NEW f, IsRun("spelling", f, <<>>, s)
  PROVE  \A k \in 0..Len(s) : f[k] \in Seq(Plain)
<1> DEFINE S == {k \in Nat : k <= Len(s) => f[k] \in Seq(Plain)}
<1>1. 0 \in S
  <2>1. f[0] = <<>> /\ <<>> \in Seq(Plain)
    BY DEF IsRun
  <2> QED
    BY <2>1
<1>2. ASSUME NEW k \in S PROVE k + 1 \in S
  <2> SUFFICES ASSUME k + 1 <= Len(s) PROVE f[k + 1] \in Seq(Plain)
    OBVIOUS
  <2>1. k \in Nat /\ Len(s) \in Nat
    OBVIOUS
  <2>2. f[k] \in Seq(Plain) /\ k + 1 \in 1..Len(s) /\ (k + 1) - 1 = k
    BY <2>1
  <2>3. f[k + 1] = Folded("spelling", f[k], s[k + 1])
    BY <2>2 DEF IsRun
  <2>4. s[k + 1] \in Segments
    BY <2>2
  <2>5. f[k + 1] = Step(f[k], s[k + 1])
    BY <2>3 DEF Folded
  <2> QED
    BY <2>2, <2>4, <2>5, StepIsPlain
<1> HIDE DEF S
<1>3. S = Nat
  <2>1. S \subseteq Nat
    BY DEF S
  <2> QED
    BY <1>1, <1>2, <2>1, Induction
<1>4. \A k \in 0..Len(s) : k \in Nat /\ k <= Len(s)
  OBVIOUS
<1> QED
  BY <1>3, <1>4 DEF S

\* A sequence, and the same without d elements of it from i on.
Skips(s, t, i, d) ==
  /\ Len(s) \in Nat /\ i \in 1..Len(s) /\ d \in Nat /\ d > 0 /\ i + d <= Len(s) + 1
  /\ Len(t) = Len(s) - d
  /\ \A k \in 1..Len(s) - d : t[k] = IF k < i THEN s[k] ELSE s[k + d]

\* Elements after which a run is where it was can be left out.
LEMMA SkipRuns ==
  ASSUME NEW which, NEW base, NEW s, NEW t, NEW i, NEW d, Skips(s, t, i, d),
         NEW f, IsRun(which, f, base, s), NEW g, IsRun(which, g, base, t),
         f[i + d - 1] = f[i - 1]
  PROVE  g[Len(t)] = f[Len(s)]
<1> DEFINE n == Len(s)
<1>a. /\ n \in Nat /\ i \in 1..n /\ d \in Nat /\ d > 0 /\ i + d <= n + 1 /\ Len(t) = n - d
      /\ \A k \in 1..n - d : t[k] = IF k < i THEN s[k] ELSE s[k + d]
  BY DEF Skips
<1>b. Len(s) = n
  OBVIOUS
<1> HIDE DEF n
<1> USE <1>a, <1>b
<1> DEFINE S == {k \in Nat : k <= n - d => g[k] = IF k < i THEN f[k] ELSE f[k + d]}
<1>0. /\ f[0] = base /\ \A k \in 1..n : f[k] = Folded(which, f[k - 1], s[k])
      /\ g[0] = base /\ \A k \in 1..n - d : g[k] = Folded(which, g[k - 1], t[k])
  BY DEF IsRun
<1>1. 0 \in S
  <2>1. 0 < i /\ 0 \in Nat /\ g[0] = f[0]
    BY <1>0
  <2> QED
    BY <2>1
<1>2. ASSUME NEW k \in S PROVE k + 1 \in S
  <2> SUFFICES ASSUME k + 1 <= n - d
               PROVE  g[k + 1] = IF k + 1 < i THEN f[k + 1] ELSE f[k + 1 + d]
    OBVIOUS
  <2>1. k \in Nat /\ k + 1 \in 1..n - d /\ (k + 1) - 1 = k
    OBVIOUS
  <2>2. g[k] = IF k < i THEN f[k] ELSE f[k + d]
    BY <2>1
  <2>3. g[k + 1] = Folded(which, g[k], t[k + 1])
    BY <1>0, <2>1
  <2>4. t[k + 1] = IF k + 1 < i THEN s[k + 1] ELSE s[k + 1 + d]
    BY <2>1
  <2> HIDE DEF S
  <2>5. CASE k + 1 < i
    <3>1. f[k + 1] = Folded(which, f[k], s[k + 1])
      <4>1. k + 1 \in 1..n
        BY <2>1
      <4> QED
        BY <1>0, <2>1, <4>1
    <3>2. k < i
      BY <2>1, <2>5
    <3> QED
      BY <2>2, <2>3, <2>4, <2>5, <3>1, <3>2
  <2>6. CASE ~(k + 1 < i)
    <3>1. g[k] = f[k + d]
      <4>1. CASE k < i
        <5>1. k = i - 1 /\ k + d = i + d - 1
          BY <2>1, <2>6, <4>1
        <5>2. g[k] = f[k]
          BY <2>2, <4>1
        <5>3. f[k] = f[i - 1] /\ f[k + d] = f[i + d - 1]
          BY <5>1
        <5> QED
          BY <5>2, <5>3
      <4>2. CASE ~(k < i)
        BY <2>2, <4>2
      <4> QED
        BY <4>1, <4>2
    <3>2. k + 1 + d \in 1..n /\ (k + 1 + d) - 1 = k + d
      BY <2>1
    <3>3. f[k + 1 + d] = Folded(which, f[k + d], s[k + 1 + d])
      BY <1>0, <3>2
    <3> QED
      BY <2>3, <2>4, <2>6, <3>1, <3>3
  <2> QED
    BY <2>5, <2>6
<1>3. n - d \in S
  <2>1. n - d \in Nat /\ S \subseteq Nat
    OBVIOUS
  <2> HIDE DEF S
  <2> QED
    BY <1>1, <1>2, <2>1, Induction
<1>4. g[n - d] = IF n - d < i THEN f[n - d] ELSE f[n - d + d]
  BY <1>3
<1>5. CASE n - d < i
  <2>1. n - d = i - 1 /\ i + d - 1 = n
    BY <1>5
  <2> QED
    BY <1>4, <1>5, <2>1
<1>6. CASE ~(n - d < i)
  <2>1. n - d + d = n
    OBVIOUS
  <2> QED
    BY <1>4, <1>6, <2>1
<1> QED
  BY <1>5, <1>6

\* The path with the segments from i to j left out.
LEMMA WithoutIs ==
  ASSUME path \in Seq(Segments), NEW i \in 1..Len(path), NEW j \in i..Len(path)
  PROVE  /\ Skipping(i, j) \in Seq(Segments)
         /\ Len(Skipping(i, j)) = Len(path) - (j - i + 1)
         /\ \A k \in 1..Len(path) - (j - i + 1) :
              Skipping(i, j)[k] = IF k < i THEN path[k] ELSE path[k + (j - i + 1)]
<1> DEFINE n == Len(path)
           before == SubSeq(path, 1, i - 1)
           after == SubSeq(path, j + 1, n)
<1>1. n \in Nat /\ i \in Nat /\ j \in Nat /\ 1 <= i /\ i <= j /\ j <= n
  OBVIOUS
<1>2. \A k \in 1..n : path[k] \in Segments
  OBVIOUS
<1> HIDE DEF n
<1>3. /\ before \in Seq(Segments) /\ Len(before) = i - 1
      /\ \A k \in 1..i - 1 : before[k] = path[k]
  <2>1. \A k \in 1..i - 1 : path[k] \in Segments
    BY <1>1, <1>2
  <2>2. 1 \in Int /\ i - 1 \in Int
    BY <1>1
  <2>3. /\ before \in Seq(Segments) /\ Len(before) = IF 1 <= i - 1 THEN i - 1 - 1 + 1 ELSE 0
        /\ \A k \in 1..i - 1 - 1 + 1 : before[k] = path[1 + k - 1]
    BY <2>1, <2>2, SubSeqProperties
  <2> HIDE DEF before
  <2> QED
    BY <1>1, <2>3
<1>4. /\ after \in Seq(Segments) /\ Len(after) = n - j
      /\ \A k \in 1..n - j : after[k] = path[k + j]
  <2>1. \A k \in j + 1..n : path[k] \in Segments
    BY <1>1, <1>2
  <2>2. j + 1 \in Int /\ n \in Int
    BY <1>1
  <2>3. /\ after \in Seq(Segments) /\ Len(after) = IF j + 1 <= n THEN n - (j + 1) + 1 ELSE 0
        /\ \A k \in 1..n - (j + 1) + 1 : after[k] = path[j + 1 + k - 1]
    BY <2>1, <2>2, SubSeqProperties
  <2> HIDE DEF after
  <2> QED
    BY <1>1, <2>3
<1>5. Skipping(i, j) = before \o after
  BY DEF Skipping, n
<1> HIDE DEF before, after
<1>6. /\ before \o after \in Seq(Segments) /\ Len(before \o after) = Len(before) + Len(after)
      /\ \A k \in 1..Len(before) + Len(after) :
           (before \o after)[k] = IF k <= Len(before) THEN before[k] ELSE after[k - Len(before)]
  BY <1>3, <1>4, ConcatProperties
<1>7. ASSUME NEW k \in 1..n - (j - i + 1)
      PROVE  (before \o after)[k] = IF k < i THEN path[k] ELSE path[k + (j - i + 1)]
  <2>1. k \in Nat /\ k \in 1..Len(before) + Len(after) /\ Len(before) = i - 1
    BY <1>1, <1>3, <1>4
  <2>2. CASE k < i
    <3>1. k <= i - 1 /\ k \in 1..i - 1
      BY <1>1, <2>1, <2>2
    <3> QED
      BY <1>3, <1>6, <2>1, <2>2, <3>1
  <2>3. CASE ~(k < i)
    <3>1. ~(k <= i - 1) /\ k - (i - 1) \in 1..n - j /\ k - (i - 1) + j = k + (j - i + 1)
      BY <1>1, <2>1, <2>3
    <3>2. (before \o after)[k] = after[k - (i - 1)]
      BY <1>6, <2>1, <3>1
    <3> QED
      BY <1>4, <2>3, <3>1, <3>2
  <2> QED
    BY <2>2, <2>3
<1>8. Len(before) + Len(after) = n - (j - i + 1)
  BY <1>1, <1>3, <1>4
<1> QED
  BY <1>5, <1>6, <1>7, <1>8 DEF n

\* What of a path can be left out where its run is where it was.
LEMMA SameSpelling ==
  ASSUME path \in Seq(Segments), NEW i \in 1..Len(path), NEW j \in i..Len(path),
         \A f : IsRun("spelling", f, <<>>, path) => f[j] = f[i - 1]
  PROVE  Reduced(path) = Reduced(Skipping(i, j))
<1> DEFINE s == path
           t == Skipping(i, j)
           n == Len(path)
           d == j - i + 1
<1>1. n \in Nat /\ d \in Nat /\ d > 0 /\ i + d <= n + 1 /\ i + d - 1 = j /\ i \in 1..n
  OBVIOUS
<1>2. /\ t \in Seq(Segments) /\ Len(t) = n - d
      /\ \A k \in 1..n - d : t[k] = IF k < i THEN s[k] ELSE s[k + d]
  BY WithoutIs
<1>3. Len(s) = n /\ DOMAIN s = 1..Len(s) /\ Len(t) \in Nat /\ DOMAIN t = 1..Len(t)
  BY <1>2
<1> HIDE DEF s, t, n, d
<1>4. PICK f : IsRun("spelling", f, <<>>, s) /\ Walk(s) = f[Len(s)]
  BY <1>1, <1>3, SpellingRuns
<1>5. PICK g : IsRun("spelling", g, <<>>, t) /\ Walk(t) = g[Len(t)]
  BY <1>3, SpellingRuns
<1>6. f[i + d - 1] = f[i - 1]
  BY <1>1, <1>4 DEF s
<1>7. Walk(t) = Walk(s)
  <2>1. g[Len(t)] = f[Len(s)]
    <3>1. Skips(s, t, i, d)
      BY <1>1, <1>2, <1>3 DEF Skips
    <3> QED
      BY <1>4, <1>5, <1>6, <3>1, SkipRuns
  <2> QED
    BY <1>4, <1>5, <2>1
<1>8. \A r : Reduced(r) = Good("", Walk(r), "none")
  BY DEF Reduced, NormalizePath, Walk
<1> QED
  BY <1>7, <1>8 DEF s, t

\* A path is always a sequence of segments.
LEMMA PathIsSpelled == RulesSpec => [](path \in Seq(Segments))
<1>1. RulesInit => path \in Seq(Segments)
  BY DEF RulesInit
<1>2. path \in Seq(Segments) /\ [RulesNext]_ruleVars => (path \in Seq(Segments))'
  BY DEF RulesNext, WriteUser, WriteProject, Compute, SpellPath, ruleVars
<1> QED
  BY <1>1, <1>2, PTL DEF RulesSpec

\* However a path is spelled, with steps to nowhere or into a directory and
\* back, it names one place (normalizePathTarget of target.ts).
THEOREM SpellingsCorrect == RulesSpec => []SpellingsAgree
<1>1. path \in Seq(Segments) => SpellingsAgree
  <2> SUFFICES ASSUME path \in Seq(Segments) PROVE SpellingsAgree
    OBVIOUS
  <2>0. Len(path) \in Nat /\ DOMAIN path = 1..Len(path)
    OBVIOUS
  <2>1. ToSet(Reduced(path).parts) \subseteq Plain
    <3>1. PICK f : IsRun("spelling", f, <<>>, path) /\ Walk(path) = f[Len(path)]
      BY <2>0, SpellingRuns
    <3>2. Walk(path) \in Seq(Plain)
      BY <2>0, <3>1, WalkIsPlain
    <3>3. Reduced(path).parts = Walk(path)
      BY DEF Reduced, NormalizePath, Walk, Good
    <3> QED
      BY <3>2, <3>3 DEF ToSet
  <2>2. ASSUME NEW i \in DOMAIN path, path[i] \in {"", "."}
        PROVE  Reduced(path) = Reduced(Skipping(i, i))
    <3>1. i \in 1..Len(path) /\ i \in i..Len(path) /\ i \in 1..Len(path)
      BY <2>0
    <3>2. \A f : IsRun("spelling", f, <<>>, path) => f[i] = f[i - 1]
      BY <2>2, <3>1 DEF IsRun, Folded, Step
    <3> QED
      BY <3>1, <3>2, SameSpelling
  <2>3. ASSUME NEW i \in DOMAIN path, path[i] \in Plain, i < Len(path), path[i + 1] = ".."
        PROVE  Reduced(path) = Reduced(Skipping(i, i + 1))
    <3>1. i \in 1..Len(path) /\ i + 1 \in i..Len(path) /\ i + 1 \in 1..Len(path) /\ (i + 1) - 1 = i
          /\ i - 1 \in 0..Len(path)
      BY <2>0, <2>3
    <3>2. ASSUME NEW f, IsRun("spelling", f, <<>>, path) PROVE f[i + 1] = f[i - 1]
      <4>1. f[i - 1] \in Seq(Plain)
        BY <3>1, <3>2, WalkIsPlain
      <4>2. f[i] = Step(f[i - 1], path[i]) /\ f[i + 1] = Step(f[i], "..")
        BY <2>3, <3>1, <3>2 DEF IsRun, Folded
      <4> QED
        BY <2>3, <4>1, <4>2, BackAgain
    <3> QED
      BY <3>1, <3>2, SameSpelling
  <2> QED
    BY <2>1, <2>2, <2>3 DEF SpellingsAgree
<1> QED
  BY <1>1, PathIsSpelled, PTL

-----------------------------------------------------------------------------
(* Verdicts.  There are finitely many built-in rules, so their layer holds *)
(* each of them.                                                           *)

LEMMA FewAreFinite ==
  ASSUME NEW a, NEW b, NEW c, NEW d
  PROVE  /\ IsFiniteSet({a}) /\ IsFiniteSet({a, b}) /\ IsFiniteSet({a, b, c})
         /\ IsFiniteSet({a, b, c, d})
<1>1. IsFiniteSet({a})
  BY FS_Singleton
<1>2. IsFiniteSet({a, b})
  <2>1. {a, b} = {a} \cup {b}
    OBVIOUS
  <2> QED
    BY <1>1, <2>1, FS_AddElement
<1>3. IsFiniteSet({a, b, c})
  <2>1. {a, b, c} = {a, b} \cup {c}
    OBVIOUS
  <2> QED
    BY <1>2, <2>1, FS_AddElement
<1>4. IsFiniteSet({a, b, c, d})
  <2>1. {a, b, c, d} = {a, b, c} \cup {d}
    OBVIOUS
  <2> QED
    BY <1>3, <2>1, FS_AddElement
<1> QED
  BY <1>1, <1>2, <1>3, <1>4

\* What a function makes of finitely many things is finite.
LEMMA ImageIsFinite ==
  ASSUME NEW S, IsFiniteSet(S), NEW f, NEW T, \A y \in T : \E x \in S : y = f[x]
  PROVE  IsFiniteSet(T)
<1> DEFINE U == {f[x] : x \in S}
           g == [x \in S |-> f[x]]
<1>1. g \in Surjection(S, U)
  BY DEF Surjection
<1>2. IsFiniteSet(U)
  BY <1>1, FS_Surjection
<1>3. T \in SUBSET U
  OBVIOUS
<1> QED
  BY <1>2, <1>3, FS_Subset

LEMMA GuardedIsFinite == IsFiniteSet(GuardedCapabilities)
BY FewAreFinite DEF GuardedCapabilities

LEMMA PersistenceIs ==
  ASSUME NEW env, NEW y \in PersistencePathRules(env)
  PROVE  \E p \in PersistencePaths(env), c \in {"fs.write", "fs.delete"} :
           y = Denial(<<"def.no-write", p, c>>, c, p)
BY DEF PersistencePathRules

LEMMA SelfModifyIsFinite ==
  ASSUME NEW env, IsFiniteSet(env.extraSourceRoots)
  PROVE  IsFiniteSet(SelfModifyRedLines(env))
<1>1. ASSUME NEW root PROVE IsFiniteSet(TreeRules(root, root))
  <2> DEFINE S == SelfModifyProtected \X GuardedCapabilities
             f == [x \in S |-> RedLine(<<"red.self-modify", root, x[1], x[2]>>, x[2],
                                    InTree(root, x[1]))]
  <2>1. IsFiniteSet(SelfModifyProtected)
    BY FewAreFinite DEF SelfModifyProtected
  <2>2. IsFiniteSet(S)
    BY <2>1, GuardedIsFinite, FS_Product
  <2>3. \A y \in TreeRules(root, root) : \E x \in S : y = f[x]
    <3> SUFFICES ASSUME NEW y \in TreeRules(root, root) PROVE \E x \in S : y = f[x]
      OBVIOUS
    <3>1. PICK row \in SelfModifyProtected, c \in GuardedCapabilities :
            y = RedLine(<<"red.self-modify", root, row, c>>, c, InTree(root, row))
      BY DEF TreeRules
    <3>2. <<row, c>> \in S /\ <<row, c>>[1] = row /\ <<row, c>>[2] = c
      OBVIOUS
    <3> QED
      BY <3>1, <3>2
  <2> HIDE DEF S, f
  <2> QED
    BY <2>2, <2>3, ImageIsFinite
<1>2. IsFiniteSet(SourceRules(env))
  <2> DEFINE Roots == {env.sourceRoot} \cup env.extraSourceRoots
             f == [root \in Roots |-> TreeRules(root, root)]
             T == {TreeRules(root, root) : root \in Roots}
  <2>1. IsFiniteSet(Roots)
    <3>1. Roots = env.extraSourceRoots \cup {env.sourceRoot}
      OBVIOUS
    <3> QED
      BY <3>1, FS_AddElement
  <2>2. \A y \in T : \E x \in Roots : y = f[x]
    OBVIOUS
  <2>3. \A y \in T : IsFiniteSet(y)
    BY <1>1
  <2>4. IsFiniteSet(T)
    <3> HIDE DEF Roots, f, T
    <3> QED
      BY <2>1, <2>2, ImageIsFinite
  <2> QED
    BY <2>3, <2>4, FS_UNION DEF SourceRules
<1>3. IsFiniteSet(InstallRules(env))
  <2> DEFINE f == [c \in GuardedCapabilities |->
                     RedLine(<<"red.self-install", c>>, c, Under(env.installRoot))]
  <2>1. \A y \in InstallRules(env) : \E x \in GuardedCapabilities : y = f[x]
    BY DEF InstallRules
  <2> HIDE DEF f
  <2> QED
    BY <2>1, GuardedIsFinite, ImageIsFinite
<1> QED
  BY <1>2, <1>3, FS_Union DEF SelfModifyRedLines

LEMMA RedLinesAreFinite ==
  ASSUME NEW env, IsFiniteSet(env.extraSourceRoots)
  PROVE  IsFiniteSet(RedLineRules(env))
<1>1. IsFiniteSet({RedLine(<<"red.fs-delete-filesystem-root">>, "fs.delete", At(<<>>)),
                   RedLine(<<"red.fs-delete-drive-root">>, "fs.delete", Pattern(AnyDrive, <<>>)),
                   RedLine(<<"red.fs-delete-home-root">>, "fs.delete", At(env.home))})
  BY FewAreFinite
<1>2. IsFiniteSet({WhenUntrusted(RedLine(<<"red.untrusted", c>>, c, AnyTarget)) :
                     c \in {"secrets.read", "gui.input", "plugin.install"}})
  <2> DEFINE S == {"secrets.read", "gui.input", "plugin.install"}
             f == [c \in S |-> WhenUntrusted(RedLine(<<"red.untrusted", c>>, c, AnyTarget))]
             T == {WhenUntrusted(RedLine(<<"red.untrusted", c>>, c, AnyTarget)) : c \in S}
  <2>1. \A y \in T : \E x \in S : y = f[x]
    OBVIOUS
  <2>2. IsFiniteSet(S)
    BY FewAreFinite
  <2> HIDE DEF f
  <2> QED
    BY <2>1, <2>2, ImageIsFinite
<1>3. IsFiniteSet(PrivateRuntimeDataRedLines(env))
  <2> DEFINE S == {env.dataDir, env.configDir} \X {"fs.read", "fs.write", "fs.delete"}
             f == [x \in S |-> RedLine(<<"red.private", x[1], x[2]>>, x[2], Under(x[1]))]
  <2>1. IsFiniteSet(S)
    BY FewAreFinite, FS_Product
  <2>2. \A y \in PrivateRuntimeDataRedLines(env) : \E x \in S : y = f[x]
    <3> SUFFICES ASSUME NEW y \in PrivateRuntimeDataRedLines(env) PROVE \E x \in S : y = f[x]
      OBVIOUS
    <3>1. PICK root \in {env.dataDir, env.configDir}, c \in {"fs.read", "fs.write", "fs.delete"} :
            y = RedLine(<<"red.private", root, c>>, c, Under(root))
      BY DEF PrivateRuntimeDataRedLines
    <3>2. <<root, c>> \in S /\ <<root, c>>[1] = root /\ <<root, c>>[2] = c
      OBVIOUS
    <3> QED
      BY <3>1, <3>2
  <2> HIDE DEF S, f
  <2> QED
    BY <2>1, <2>2, ImageIsFinite
<1>4. IsFiniteSet(AuditLogRedLines(env))
  <2> DEFINE S == {"fs.write", "fs.delete"}
             f == [c \in S |-> RedLine(<<"red.audit-log", c>>, c,
                     InTree(env.dataDir, <<{"audit.db", "audit.db-wal"}>>))]
  <2>1. \A y \in AuditLogRedLines(env) : \E x \in S : y = f[x]
    BY DEF AuditLogRedLines
  <2>2. IsFiniteSet(S)
    BY FewAreFinite
  <2> HIDE DEF f
  <2> QED
    BY <2>1, <2>2, ImageIsFinite
<1> QED
  BY <1>1, <1>2, <1>3, <1>4, SelfModifyIsFinite, FS_Union DEF RedLineRules

LEMMA BuiltinIsFinite ==
  ASSUME NEW env, IsFiniteSet(env.extraSourceRoots)
  PROVE  IsFiniteSet(Builtin(env))
<1>1. IsFiniteSet(UntrustedContextRules)
  <2> DEFINE S == {"git.push", "package.install", "system.settings"}
             f == [c \in S |-> WhenUntrusted(Denial(<<"untrusted", c>>, c, AnyTarget))]
  <2>1. \A y \in UntrustedContextRules : \E x \in S : y = f[x]
    BY DEF UntrustedContextRules
  <2>2. IsFiniteSet(S)
    BY FewAreFinite
  <2> HIDE DEF f
  <2> QED
    BY <2>1, <2>2, ImageIsFinite
<1>2. IsFiniteSet(SensitiveReadRules(env))
  <2> DEFINE S == {Under(env.home \o <<".ssh">>), At(env.home \o <<".netrc">>),
                   Pattern("", <<Deep, {".env", ".env.local"}>>), Pattern("", <<Deep, {"id_rsa"}>>)}
             f == [p \in S |-> Denial(<<"def.no-read", p>>, "fs.read", p)]
  <2>1. \A y \in SensitiveReadRules(env) : \E x \in S : y = f[x]
    BY DEF SensitiveReadRules
  <2>2. IsFiniteSet(S)
    BY FewAreFinite
  <2> HIDE DEF f, S
  <2> QED
    BY <2>1, <2>2, ImageIsFinite
<1>3. IsFiniteSet(PersistencePathRules(env))
  <2> DEFINE P == PersistencePaths(env)
             S == P \X {"fs.write", "fs.delete"}
             f == [x \in S |-> Denial(<<"def.no-write", x[1], x[2]>>, x[2], x[1])]
  <2>1. IsFiniteSet(S)
    <3>1. IsFiniteSet(P) /\ IsFiniteSet({"fs.write", "fs.delete"})
      BY FewAreFinite DEF PersistencePaths
    <3> HIDE DEF P
    <3> QED
      BY <3>1, FS_Product
  <2>2. \A y \in PersistencePathRules(env) : \E x \in S : y = f[x]
    <3> SUFFICES ASSUME NEW y \in PersistencePathRules(env) PROVE \E x \in S : y = f[x]
      OBVIOUS
    <3>1. PICK p \in PersistencePaths(env), c \in {"fs.write", "fs.delete"} : y = Denial(<<"def.no-write", p, c>>, c, p)
      BY PersistenceIs
    <3>2. <<p, c>> \in S /\ <<p, c>>[1] = p /\ <<p, c>>[2] = c
      OBVIOUS
    <3> QED
      BY <3>1, <3>2
  <2> HIDE DEF S, f
  <2> QED
    BY <2>1, <2>2, ImageIsFinite
<1>4. IsFiniteSet(SsrfDenyRules)
  <2> DEFINE S == {"net.fetch", "browser.control"}
             f == [c \in S |-> [Denial(<<"def.no-fetch-private-network", c>>, c, AnyTarget)
                                  EXCEPT !.private = TRUE]]
  <2>1. \A y \in SsrfDenyRules : \E x \in S : y = f[x]
    BY DEF SsrfDenyRules
  <2>2. IsFiniteSet(S)
    BY FewAreFinite
  <2> HIDE DEF f
  <2> QED
    BY <2>1, <2>2, ImageIsFinite
<1>5. IsFiniteSet(CommandDenyRules)
  <2> DEFINE bins == {"sudo", "python"}
             S == {Pattern("", <<{bin}>>) : bin \in bins} \cup {Pattern("", <<{bin}, Deep>>) : bin \in bins}
             f == [p \in S |-> Denial(<<"def.no-exec", p>>, "shell.exec", p)]
  <2>1. \A y \in CommandDenyRules : \E x \in S : y = f[x]
    BY DEF CommandDenyRules
  <2>2. S = {Pattern("", <<{"sudo"}>>), Pattern("", <<{"python"}>>),
             Pattern("", <<{"sudo"}, Deep>>), Pattern("", <<{"python"}, Deep>>)}
    OBVIOUS
  <2>3. IsFiniteSet(S)
    <3> HIDE DEF S
    <3> QED
      BY <2>2, FewAreFinite
  <2> HIDE DEF f, S
  <2> QED
    BY <2>1, <2>3, ImageIsFinite
<1> QED
  BY <1>1, <1>2, <1>3, <1>4, <1>5, RedLinesAreFinite, FS_Union DEF Builtin

\* The built-in layer is a sequence that holds every built-in rule.
LEMMA BuiltinRulesAre ==
  ASSUME NEW env, IsFiniteSet(env.extraSourceRoots)
  PROVE  /\ BuiltinRules(env) \in Seq(Builtin(env))
         /\ \A rule \in Builtin(env) : \E i \in DOMAIN BuiltinRules(env) : BuiltinRules(env)[i] = rule
<1> DEFINE S == Builtin(env)
           Has(q, t) == q \in Seq(S) /\ \A rule \in t : \E i \in DOMAIN q : q[i] = rule
<1>0. IsFiniteSet(S)
  BY BuiltinIsFinite
<1>1. PICK h : /\ FoldsOn("collect", h, <<>>, <<>>, SUBSET S)
               /\ BuiltinRules(env) = h[S]
  BY <1>0, BuiltinFolds
<1> HIDE DEF S
<1>2. \A t \in SUBSET S : h[t] = FoldedSet("collect", h, <<>>, <<>>, t)
  BY <1>1 DEF FoldsOn
<1>3. \A t \in SUBSET S : IsFiniteSet(t) /\ Cardinality(t) \in Nat /\ (Cardinality(t) = 0 <=> t = {})
  BY <1>0, FS_Subset, FS_CardinalityType, FS_EmptySet
<1> DEFINE P == {n \in Nat : \A t \in SUBSET S : Cardinality(t) <= n => Has(h[t], t)}
<1>4. 0 \in P
  <2> SUFFICES ASSUME NEW t \in SUBSET S, Cardinality(t) <= 0 PROVE Has(h[t], t)
    OBVIOUS
  <2>1. t = {}
    BY <1>3
  <2>2. h[t] = <<>>
    BY <1>2, <2>1 DEF FoldedSet
  <2> QED
    BY <2>1, <2>2
<1>5. ASSUME NEW n \in P PROVE n + 1 \in P
  <2>a. ASSUME NEW t \in SUBSET S, t = {} PROVE Has(h[t], t)
    BY <1>3, <1>4, <2>a
  <2>b. n \in Nat /\ n + 1 \in Nat
    OBVIOUS
  <2> SUFFICES ASSUME NEW t \in SUBSET S, Cardinality(t) <= n + 1, t # {} PROVE Has(h[t], t)
    <3> HIDE DEF Has
    <3> QED
      BY <2>a, <2>b
  <2> DEFINE x == CHOOSE x \in t : TRUE
             rest == t \ {x}
  <2>1. x \in t
    OBVIOUS
  <2> HIDE DEF x
  <2>2. rest \in SUBSET S /\ Cardinality(rest) = Cardinality(t) - 1
    BY <1>3, <2>1, FS_RemoveElement
  <2>3. Cardinality(rest) <= n
    BY <1>3, <2>2
  <2>4. Has(h[rest], rest)
    BY <2>2, <2>3
  <2>5. h[t] = Append(h[rest], x)
    BY <1>2 DEF FoldedSet, Folded, Chosen, Element, x
  <2> DEFINE q == h[rest]
  <2>6. q \in Seq(S) /\ x \in S
    BY <2>1, <2>4
  <2>7. /\ Append(q, x) \in Seq(S) /\ Len(Append(q, x)) = Len(q) + 1
        /\ \A i \in 1..Len(q) : Append(q, x)[i] = q[i]
        /\ Append(q, x)[Len(q) + 1] = x
    BY <2>6, AppendProperties
  <2>8. ASSUME NEW rule \in t PROVE \E i \in DOMAIN Append(q, x) : Append(q, x)[i] = rule
    <3>1. CASE rule = x
      BY <2>6, <2>7, <3>1
    <3>2. CASE rule # x
      <4>1. PICK i \in DOMAIN q : q[i] = rule
        BY <2>4, <3>2
      <4>2. i \in 1..Len(q) /\ i \in 1..Len(q) + 1 /\ DOMAIN Append(q, x) = 1..Len(q) + 1
        BY <2>6, <2>7, <4>1
      <4> QED
        BY <2>7, <4>1, <4>2
    <3> QED
      BY <3>1, <3>2
  <2> QED
    BY <2>5, <2>7, <2>8
<1>6. Has(h[S], S)
  <2>1. P \subseteq Nat
    OBVIOUS
  <2> HIDE DEF P
  <2>2. Cardinality(S) \in P
    BY <1>3, <1>4, <1>5, <2>1, Induction
  <2> USE DEF P
  <2> QED
    BY <1>3, <2>2
<1> QED
  BY <1>1, <1>6 DEF S

\* Every red line denies, and is one.
LEMMA RedLinesDeny ==
  ASSUME NEW env, NEW rule \in RedLineRules(env)
  PROVE  rule.effect = "deny" /\ rule.immutable
<1>1. \A id, c, t : RedLine(id, c, t).effect = "deny" /\ RedLine(id, c, t).immutable
  BY DEF RedLine, Rule
<1>2. ASSUME NEW id, NEW c, NEW t
      PROVE  /\ WhenUntrusted(RedLine(id, c, t)).effect = "deny"
             /\ WhenUntrusted(RedLine(id, c, t)).immutable
  BY DEF WhenUntrusted, RedLine, Rule
<1>3. CASE rule \in SelfModifyRedLines(env)
  <2>1. CASE rule \in InstallRules(env)
    BY <1>1, <2>1 DEF InstallRules
  <2>2. CASE rule \in SourceRules(env)
    <3>1. PICK root : rule \in TreeRules(root, root)
      BY <2>2 DEF SourceRules
    <3>2. PICK row \in SelfModifyProtected, c \in GuardedCapabilities :
            rule = RedLine(<<"red.self-modify", root, row, c>>, c, InTree(root, row))
      BY <3>1 DEF TreeRules
    <3> QED
      BY <1>1, <3>2
  <2> QED
    BY <1>3, <2>1, <2>2 DEF SelfModifyRedLines
<1>4. CASE rule \in PrivateRuntimeDataRedLines(env)
  BY <1>1, <1>4 DEF PrivateRuntimeDataRedLines
<1>5. CASE rule \in AuditLogRedLines(env)
  BY <1>1, <1>5 DEF AuditLogRedLines
<1>6. CASE rule \in {RedLine(<<"red.fs-delete-filesystem-root">>, "fs.delete", At(<<>>)),
                     RedLine(<<"red.fs-delete-drive-root">>, "fs.delete", Pattern(AnyDrive, <<>>)),
                     RedLine(<<"red.fs-delete-home-root">>, "fs.delete", At(env.home))}
  BY <1>1, <1>6
<1>7. CASE rule \in {WhenUntrusted(RedLine(<<"red.untrusted", c>>, c, AnyTarget)) :
                       c \in {"secrets.read", "gui.input", "plugin.install"}}
  BY <1>2, <1>7
<1> QED
  BY <1>3, <1>4, <1>5, <1>6, <1>7, Zenon DEF RedLineRules

\* Of a project's rules the denials are kept, and nothing else.
LEMMA TightenedIs ==
  ASSUME NEW R, \A rule \in R : rule.effect \in {"allow", "deny"}, NEW s \in Seq(R)
  PROVE  /\ TightenOnly(s) \in Seq(R)
         /\ \A i \in DOMAIN TightenOnly(s) : TightenOnly(s)[i].effect = "deny"
         /\ \A i \in DOMAIN s : s[i].effect = "deny" =>
              \E j \in DOMAIN TightenOnly(s) : TightenOnly(s)[j] = s[i]
<1> DEFINE Kept(q, k) ==
             /\ q \in Seq({rule \in R : rule.effect = "deny"})
             /\ \A i \in 1..k : s[i].effect = "deny" => \E j \in DOMAIN q : q[j] = s[i]
<1>0. Len(s) \in Nat /\ DOMAIN s = 1..Len(s)
  OBVIOUS
<1>1. PICK f : IsRun("tighten", f, <<>>, s) /\ TightenOnly(s) = f[Len(s)]
  BY <1>0, TightenRuns
<1> DEFINE P == {k \in Nat : k <= Len(s) => Kept(f[k], k)}
<1>2. 0 \in P
  <2>1. f[0] = <<>> /\ <<>> \in Seq({rule \in R : rule.effect = "deny"}) /\ 1..0 = {}
    BY <1>1 DEF IsRun
  <2> QED
    BY <2>1
<1>3. ASSUME NEW k \in P PROVE k + 1 \in P
  <2> SUFFICES ASSUME k + 1 <= Len(s) PROVE Kept(f[k + 1], k + 1)
    OBVIOUS
  <2>1. k \in Nat /\ k + 1 \in 1..Len(s) /\ (k + 1) - 1 = k /\ Kept(f[k], k)
    BY <1>0
  <2> DEFINE q == f[k]
             e == s[k + 1]
             D == {rule \in R : rule.effect = "deny"}
  <2>2. f[k + 1] = IF e.effect = "allow" THEN q ELSE Append(q, e)
    BY <1>1, <2>1 DEF IsRun, Folded
  <2>3. e \in R /\ q \in Seq(D)
    BY <2>1
  <2>4. \A i \in 1..k + 1 : i \in 1..k \/ i = k + 1
    BY <2>1
  <2>5. CASE e.effect = "allow"
    BY <2>1, <2>2, <2>4, <2>5
  <2>6. CASE e.effect # "allow"
    <3>1. e \in D
      BY <2>3, <2>6
    <3>2. /\ Append(q, e) \in Seq(D) /\ Len(Append(q, e)) = Len(q) + 1
          /\ \A i \in 1..Len(q) : Append(q, e)[i] = q[i]
          /\ Append(q, e)[Len(q) + 1] = e
      BY <2>3, <3>1, AppendProperties
    <3>3. ASSUME NEW i \in 1..k + 1, s[i].effect = "deny"
          PROVE  \E j \in DOMAIN Append(q, e) : Append(q, e)[j] = s[i]
      <4>1. DOMAIN Append(q, e) = 1..Len(q) + 1 /\ DOMAIN q = 1..Len(q) /\ Len(q) \in Nat
        BY <2>3, <3>2
      <4>2. CASE i = k + 1
        <5>1. Len(q) + 1 \in DOMAIN Append(q, e) /\ s[i] = e
          BY <4>1, <4>2
        <5> QED
          BY <3>2, <5>1
      <4>3. CASE i \in 1..k
        <5>1. PICK j \in DOMAIN q : q[j] = s[i]
          BY <2>1, <3>3, <4>3
        <5>2. j \in 1..Len(q) /\ j \in 1..Len(q) + 1
          BY <4>1
        <5> QED
          BY <3>2, <4>1, <5>1, <5>2
      <4> QED
        BY <2>4, <4>2, <4>3
    <3> QED
      BY <2>2, <2>6, <3>2, <3>3
  <2> QED
    BY <2>5, <2>6
<1>4. Kept(f[Len(s)], Len(s))
  <2>1. P \subseteq Nat
    OBVIOUS
  <2> HIDE DEF P
  <2>2. Len(s) \in P
    BY <1>0, <1>2, <1>3, <2>1, Induction
  <2> USE DEF P
  <2> QED
    BY <1>0, <2>2
<1> QED
  BY <1>0, <1>1, <1>4

\* Nothing is kept of no rules.
LEMMA NoneIsKept == TightenOnly(<<>>) = <<>>
<1>1. PICK f : IsRun("tighten", f, <<>>, <<>>) /\ TightenOnly(<<>>) = f[0]
  BY TightenRuns
<1> QED
  BY <1>1 DEF IsRun

\* A verdict is one of two.
LEMMA VerdictIs ==
  ASSUME NEW request, NEW layers
  PROVE  Evaluate(request, layers).effect \in {"allow", "deny"}
BY DEF Evaluate, Verdict

\* What the last layer denies is denied.
LEMMA LastLayerDenies ==
  ASSUME NEW request, NEW R, NEW layers \in Seq(Seq(R)), NEW rules \in Seq(R),
         NEW i \in DOMAIN rules, Denies(rules[i], request)
  PROVE  Evaluate(request, Append(layers, rules)).effect = "deny"
<1> DEFINE more == Append(layers, rules)
           n == Len(layers) + 1
<1>1. /\ n \in Nat /\ DOMAIN more = 1..n /\ more[n] = rules /\ n \in 1..n
  OBVIOUS
<1> HIDE DEF more, n
<1>2. i \in Denied(rules, request)
  BY DEF Denies, Denied, Hits, Matched
<1>3. n \in Speaking(more, request)
  BY <1>1, <1>2 DEF Speaking, Denied
<1>4. Max(Speaking(more, request)) = n
  <2>1. Speaking(more, request) \subseteq Nat /\ \A k \in Speaking(more, request) : k <= n
    BY <1>1 DEF Speaking
  <2> QED
    BY <1>1, <1>3, <2>1, MaxIs
<1>5. Evaluate(request, more).effect # "allow"
  <2>1. Denied(more[Max(Speaking(more, request))], request) # {}
    BY <1>1, <1>2, <1>4
  <2> QED
    BY <1>1, <1>3, <2>1, AllowedIs
<1> QED
  BY <1>5, VerdictIs DEF more

\* The rules written so far, and the trees of the session's directory.
RulesInv == user \in Seq(Written) /\ project \in Seq(Written) /\ trees \subseteq SourceTrees

\* The directories of the session, the layers below the project's, and all rules in them.
Own == [Env EXCEPT !.extraSourceRoots = trees \ {Env.sourceRoot}]
Beneath == <<BuiltinRules(Own)>> \o Layer(user)
AnyRule == Builtin(Own) \cup Written

LEMMA OwnIs ==
  ASSUME RulesInv
  PROVE  /\ IsFiniteSet(Own.extraSourceRoots)
         /\ RedLineRules([Env EXCEPT !.extraSourceRoots = trees]) \subseteq Builtin(Own)
<1> DEFINE E == [Env EXCEPT !.extraSourceRoots = trees]
<1>1. /\ E.home = Own.home /\ E.sourceRoot = Own.sourceRoot /\ E.installRoot = Own.installRoot
      /\ E.dataDir = Own.dataDir /\ E.configDir = Own.configDir
      /\ E.extraSourceRoots = trees /\ Own.extraSourceRoots = trees \ {Env.sourceRoot}
      /\ Own.sourceRoot = Env.sourceRoot
  BY RulesAssumption DEF RulesAssumption, Own
<1>2. IsFiniteSet(trees)
  BY RulesAssumption, FS_Subset DEF RulesAssumption, RulesInv
<1>3. IsFiniteSet(Own.extraSourceRoots)
  <2>1. IsFiniteSet(trees \ {Env.sourceRoot})
    BY <1>2, FS_Difference
  <2> QED
    BY <1>1, <2>1
<1> HIDE DEF E
<1>4. {E.sourceRoot} \cup E.extraSourceRoots = {Own.sourceRoot} \cup Own.extraSourceRoots
  BY <1>1
<1>5. SelfModifyRedLines(E) = SelfModifyRedLines(Own)
  <2>1. SourceRules(E) = SourceRules(Own)
    BY <1>4 DEF SourceRules
  <2>2. InstallRules(E) = InstallRules(Own)
    BY <1>1 DEF InstallRules
  <2> QED
    BY <2>1, <2>2 DEF SelfModifyRedLines
<1>6. PrivateRuntimeDataRedLines(E) = PrivateRuntimeDataRedLines(Own)
  BY <1>1 DEF PrivateRuntimeDataRedLines
<1>7. AuditLogRedLines(E) = AuditLogRedLines(Own)
  BY <1>1 DEF AuditLogRedLines
<1>8. RedLineRules(E) = RedLineRules(Own)
  BY <1>1, <1>5, <1>6, <1>7 DEF RedLineRules
<1>9. RedLineRules(Own) \subseteq Builtin(Own)
  BY DEF Builtin
<1> QED
  BY <1>3, <1>8, <1>9 DEF E

LEMMA BeneathIs ==
  ASSUME RulesInv
  PROVE  /\ Beneath \in Seq(Seq(AnyRule))
         /\ 1 \in DOMAIN Beneath /\ Beneath[1] = BuiltinRules(Own)
         /\ user # <<>> => 2 \in DOMAIN Beneath /\ Beneath[2] = user
<1>1. BuiltinRules(Own) \in Seq(AnyRule)
  <2>1. BuiltinRules(Own) \in Seq(Builtin(Own))
    BY OwnIs, BuiltinRulesAre
  <2> QED
    BY <2>1 DEF AnyRule
<1>2. user \in Seq(AnyRule)
  BY DEF RulesInv, AnyRule
<1>3. CASE user = <<>>
  <2>1. Beneath = <<BuiltinRules(Own)>>
    BY <1>3 DEF Beneath, Layer
  <2> QED
    BY <1>1, <1>3, <2>1
<1>4. CASE user # <<>>
  <2>1. Beneath = <<BuiltinRules(Own)>> \o <<user>>
    BY <1>4 DEF Beneath, Layer
  <2>2. PICK x, y : x = BuiltinRules(Own) /\ y = user /\ x \in Seq(AnyRule) /\ y \in Seq(AnyRule)
    BY <1>1, <1>2
  <2>3. <<x>> \in Seq(Seq(AnyRule)) /\ <<y>> \in Seq(Seq(AnyRule)) /\ Len(<<x>>) = 1 /\ Len(<<y>>) = 1
    BY <2>2
  <2>4. /\ <<x>> \o <<y>> \in Seq(Seq(AnyRule)) /\ Len(<<x>> \o <<y>>) = 2
        /\ \A i \in 1..2 : (<<x>> \o <<y>>)[i] = IF i <= 1 THEN <<x>>[i] ELSE <<y>>[i - 1]
    BY <2>3, ConcatProperties
  <2> DEFINE both == <<x>> \o <<y>>
  <2>5. both[1] = x /\ both[2] = y /\ both \in Seq(Seq(AnyRule)) /\ Len(both) = 2
    BY <2>4
  <2>6. Beneath = both
    BY <2>1, <2>2
  <2> HIDE DEF both
  <2> QED
    BY <2>2, <2>5, <2>6
<1> QED
  BY <1>3, <1>4

\* The project adds one layer, or none.
LEMMA LayersAre ==
  ASSUME RulesInv
  PROVE  /\ SessionLayers(Env, user, <<>>, trees) = Beneath
         /\ SessionLayers(Env, user, project, trees)
              = IF TightenOnly(project) = <<>> THEN Beneath ELSE Append(Beneath, TightenOnly(project))
<1>1. Beneath \in Seq(Seq(AnyRule))
  BY BeneathIs
<1>2. \A rules : SessionLayers(Env, user, rules, trees) = Beneath \o Layer(TightenOnly(rules))
  BY DEF SessionLayers, ComposeRules, Beneath, Own
<1>3. Beneath \o <<>> = Beneath
  BY <1>1, ConcatEmptySeq
<1>4. TightenOnly(project) \in Seq(AnyRule)
  <2>1. TightenOnly(project) \in Seq(Written)
    BY RulesAssumption, TightenedIs DEF RulesAssumption, RulesInv
  <2> QED
    BY <2>1 DEF AnyRule
<1>5. Beneath \o <<TightenOnly(project)>> = Append(Beneath, TightenOnly(project))
  BY <1>1, <1>4, AppendIsConcat
<1>6. SessionLayers(Env, user, <<>>, trees) = Beneath
  BY <1>2, <1>3, NoneIsKept DEF Layer
<1>7. CASE TightenOnly(project) = <<>>
  BY <1>2, <1>3, <1>6, <1>7 DEF Layer
<1>8. CASE TightenOnly(project) # <<>>
  <2>1. Layer(TightenOnly(project)) = <<TightenOnly(project)>>
    BY <1>8 DEF Layer
  <2> QED
    BY <1>2, <1>5, <1>6, <1>8, <2>1
<1> QED
  BY <1>7, <1>8

LEMMA RulesWritten == RulesSpec => []RulesInv
<1>1. RulesInit => RulesInv
  BY DEF RulesInit, RulesInv
<1>2. RulesInv /\ [RulesNext]_ruleVars => RulesInv'
  <2> SUFFICES ASSUME RulesInv, [RulesNext]_ruleVars PROVE RulesInv'
    OBVIOUS
  <2>1. CASE WriteUser
    BY <2>1 DEF WriteUser, RulesInv
  <2>2. CASE WriteProject
    BY <2>2 DEF WriteProject, RulesInv
  <2>3. CASE SpellPath
    BY <2>3 DEF SpellPath, RulesInv
  <2>4. CASE Compute
    BY <2>4 DEF Compute, RulesInv
  <2>5. CASE UNCHANGED ruleVars
    BY <2>5 DEF ruleVars, RulesInv
  <2> QED
    BY <2>1, <2>2, <2>3, <2>4, <2>5 DEF RulesNext
<1> QED
  BY <1>1, <1>2, PTL DEF RulesSpec

\* Whatever users and projects write, and in whatever order: no red line opens,
\* of a user's own neither, what the project denies is denied, and the project
\* allows nothing that would be denied without it (evaluate of engine.ts,
\* sessionPolicyLayers and tightenOnly of layers.ts).
THEOREM VerdictsCorrect == RulesSpec => []VerdictsHold
<1>1. RulesInv => VerdictsHold
  <2> SUFFICES ASSUME RulesInv, computed PROVE VerdictsHold
    BY DEF VerdictsHold
  <2> DEFINE with == SessionLayers(Env, user, project, trees)
             without == SessionLayers(Env, user, <<>>, trees)
             T == TightenOnly(project)
  <2>1. /\ without = Beneath /\ with = IF T = <<>> THEN Beneath ELSE Append(Beneath, T)
    BY LayersAre
  <2>2. /\ Beneath \in Seq(Seq(AnyRule))
        /\ 1 \in DOMAIN Beneath /\ Beneath[1] = BuiltinRules(Own)
        /\ user # <<>> => 2 \in DOMAIN Beneath /\ Beneath[2] = user
    BY BeneathIs
  <2>3. /\ T \in Seq(AnyRule) /\ \A i \in DOMAIN T : T[i].effect = "deny"
        /\ \A rule \in Denials(project) : \E j \in DOMAIN T : T[j] = rule
    <3>1. /\ T \in Seq(Written) /\ \A i \in DOMAIN T : T[i].effect = "deny"
          /\ \A i \in DOMAIN project : project[i].effect = "deny" => \E j \in DOMAIN T : T[j] = project[i]
      BY RulesAssumption, TightenedIs DEF RulesAssumption, RulesInv
    <3> HIDE DEF T
    <3>2. \A rule \in Denials(project) : \E j \in DOMAIN T : T[j] = rule
      BY <3>1 DEF Denials, ToSet
    <3>3. T \in Seq(AnyRule)
      BY <3>1 DEF AnyRule
    <3> QED
      BY <3>1, <3>2, <3>3
  <2> HIDE DEF with, without, T
  <2>4. \A l \in DOMAIN Beneath : l \in DOMAIN with /\ with[l] = Beneath[l]
    <3>1. CASE T = <<>>
      BY <2>1, <3>1
    <3>2. CASE T # <<>>
      <4>1. with = Append(Beneath, T)
        BY <2>1, <3>2
      <4> QED
        BY <2>2, <4>1
    <3> QED
      BY <3>1, <3>2
  <2>5. ASSUME NEW request \in Asked, ~Reads(request).ok \/ Says(Closed, request) # {}
        PROVE  Evaluate(request, with).effect = "deny"
    <3>1. CASE ~Reads(request).ok
      BY <3>1 DEF Evaluate, Reads, Verdict
    <3>2. CASE Says(Closed, request) # {}
      <4>1. PICK rule \in Closed : Matches(rule, request, Target(request))
        BY <3>2 DEF Says, Reads, Target
      <4>2. CASE rule \in RedLineRules([Env EXCEPT !.extraSourceRoots = trees])
        <5>1. rule.effect = "deny" /\ rule.immutable
          BY <4>2, RedLinesDeny
        <5>2. PICK i \in DOMAIN BuiltinRules(Own) : BuiltinRules(Own)[i] = rule
          BY <4>2, OwnIs, BuiltinRulesAre
        <5>3. 1 \in DOMAIN with /\ with[1] = BuiltinRules(Own)
          BY <2>2, <2>4
        <5>4. i \in DOMAIN with[1] /\ Denies(with[1][i], request) /\ with[1][i].immutable
          BY <4>1, <5>1, <5>2, <5>3 DEF Denies
        <5> QED
          BY <5>3, <5>4, RedLinesHold
      <4>3. CASE rule \in Denials(user) /\ rule.immutable
        <5>1. PICK i \in DOMAIN user : user[i] = rule /\ rule.effect = "deny"
          BY <4>3 DEF Denials, ToSet
        <5>2. 2 \in DOMAIN with /\ with[2] = user
          <6>1. user # <<>>
            BY <5>1
          <6> QED
            BY <2>2, <2>4, <6>1
        <5>3. i \in DOMAIN with[2] /\ Denies(with[2][i], request) /\ with[2][i].immutable
          BY <4>1, <4>3, <5>1, <5>2 DEF Denies
        <5> QED
          BY <5>2, <5>3, RedLinesHold
      <4>4. CASE rule \in Denials(project)
        <5>1. PICK j \in DOMAIN T : T[j] = rule
          BY <2>3, <4>4
        <5>2. Denies(T[j], request)
          BY <2>3, <4>1, <5>1 DEF Denies
        <5>3. with = Append(Beneath, T)
          BY <2>1, <5>1
        <5> QED
          BY <2>2, <2>3, <5>2, <5>3, LastLayerDenies
      <4> QED
        BY <4>1, <4>2, <4>3, <4>4 DEF Closed
    <3> QED
      BY <2>5, <3>1, <3>2
  <2>6. ASSUME NEW request \in Asked, Evaluate(request, with).effect = "allow"
        PROVE  Evaluate(request, without).effect = "allow"
    <3>1. CASE T = <<>>
      BY <2>1, <2>6, <3>1
    <3>2. CASE T # <<>>
      <4>1. Evaluate(request, Append(Beneath, T)).effect = "allow"
        BY <2>1, <2>6, <3>2
      <4>2. Evaluate(request, Beneath).effect = "allow"
        BY <2>2, <2>3, <4>1, DenialsOnlyTighten
      <4> QED
        BY <2>1, <4>2
    <3> QED
      BY <3>1, <3>2
  <2> QED
    BY <2>5, <2>6 DEF VerdictsHold, with, without
<1> QED
  BY <1>1, RulesWritten, PTL

\* Rules only tighten, and no spelling of a place escapes them, whatever user and
\* project write (engine.ts, layers.ts, target.ts).
THEOREM RulesCorrect == RulesSpec => []RulesHold
  BY VerdictsCorrect, SpellingsCorrect, PTL DEF RulesHold

-----------------------------------------------------------------------------
(* The patch a user lays over a profile.                                   *)

\* The names of the built-in rows and services.
BuiltinNames ==
  {"clock", "ids", "local", "deterministic", "turn-driver", "turnExtensions", "policy", "gateway",
   "checkpoint", "checkpointer", "checkpointRestorer", "secrets", "redact", "tools", "runtime",
   "runtime.invariants", "invariants", "runtime.executor", "executor", "runtime.multimodal",
   "runtime.context", "runtime.result-truncation", "runtime.stopping", "runtime.code", "codeRuntime",
   "tools.builtin", "surface", "desktop", "compose"}

\* The rows of a profile, and the patches a user may write.
ProfileRows(Names, Configs) ==
  [id : Names, baseline : BOOLEAN, plugin : Names, inject : SUBSET Names,
   provide : SUBSET Names, config : Configs \cup {"none"}]
Patches(Names, Configs) ==
  [update : Seq([id : Names, config : Configs]),
   insert : Seq([anchor : Names, where : {"before", "after"}, row : ProfileRows(Names, Configs)])]

\* A profile that begins with its trusted rows, as they are, and has no others.
Trusted(profile, name, Names, Configs) ==
  /\ profile = [name |-> name, rows |-> profile.rows]
  /\ profile.rows \in Seq(ProfileRows(Names, Configs))
  /\ Len(profile.rows) >= Len(BaselineRows(name = "test"))
  /\ \A i \in 1..Len(BaselineRows(name = "test")) :
       profile.rows[i] = BaselineRows(name = "test")[i]
  /\ \A i \in DOMAIN profile.rows :
       profile.rows[i].baseline <=> i <= Len(BaselineRows(name = "test"))

\* Every built-in profile is one.
LEMMA BaselineIsThere ==
  ASSUME NEW Names, BuiltinNames \subseteq Names, NEW Configs, NEW deterministic \in BOOLEAN
  PROVE  /\ BaselineRows(deterministic) \in Seq(ProfileRows(Names, Configs))
         /\ \A i \in DOMAIN BaselineRows(deterministic) :
              /\ BaselineRows(deterministic)[i].baseline
              /\ BaselineRows(deterministic)[i].config = "none"
<1> DEFINE R == ProfileRows(Names, Configs)
           plain(id, inject, provide) == Row(id, TRUE, inject, provide)
           seed(id) == [plain(id, {}, {id}) EXCEPT !.plugin = IF deterministic THEN "deterministic" ELSE "local"]
           Fits(r) == r \in R /\ r.baseline /\ r.config = "none"
<1>1. \A id \in Names, inject, provide \in SUBSET Names : Fits(plain(id, inject, provide))
  BY DEF Row, ProfileRows
<1>2. \A id \in Names : Fits(seed(id))
  <2> SUFFICES ASSUME NEW id \in Names PROVE Fits(seed(id))
    OBVIOUS
  <2> DEFINE p == IF deterministic THEN "deterministic" ELSE "local"
  <2>a. "deterministic" \in Names /\ "local" \in Names
    BY DEF BuiltinNames
  <2>b. p \in Names
    BY <2>a
  <2>c. {id} \in SUBSET Names /\ {} \in SUBSET Names
    OBVIOUS
  <2>1. p \in Names /\ {id} \in SUBSET Names /\ {} \in SUBSET Names
    BY <2>b, <2>c
  <2>2. plain(id, {}, {id}) \in R /\ Fits(plain(id, {}, {id}))
    BY <1>1, <2>1
  <2> HIDE DEF p, plain
  <2>3. \A r \in R : [r EXCEPT !.plugin = p] \in R /\ [r EXCEPT !.plugin = p].baseline = r.baseline
                     /\ [r EXCEPT !.plugin = p].config = r.config
    BY <2>1 DEF ProfileRows
  <2> QED
    BY <2>2, <2>3 DEF p
<1> HIDE DEF R, plain, seed
<1>3. BaselineRows(deterministic) =
        <<seed("clock"), seed("ids"),
          plain("turn-driver", {}, {"turnExtensions"}),
          plain("policy", {}, {"policy"}),
          plain("gateway", {}, {"gateway"}),
          plain("checkpoint", {"turnExtensions"}, {"checkpointer", "checkpointRestorer"}),
          plain("secrets", {}, {"secrets"}),
          plain("redact", {}, {"redact"}),
          plain("tools", {}, {"tools"}),
          plain("runtime", {"clock", "ids", "policy", "gateway", "checkpointer",
                            "secrets", "redact", "tools"}, {"runtime"})>>
  BY DEF BaselineRows, plain, seed
<1> HIDE DEF Fits
<1>r0. Fits(seed("clock"))
  BY <1>1, <1>2 DEF BuiltinNames
<1>r1. Fits(seed("ids"))
  BY <1>1, <1>2 DEF BuiltinNames
<1>r2. Fits(plain("turn-driver", {}, {"turnExtensions"}))
  BY <1>1, <1>2 DEF BuiltinNames
<1>r3. Fits(plain("policy", {}, {"policy"}))
  BY <1>1, <1>2 DEF BuiltinNames
<1>r4. Fits(plain("gateway", {}, {"gateway"}))
  BY <1>1, <1>2 DEF BuiltinNames
<1>r5. Fits(plain("checkpoint", {"turnExtensions"}, {"checkpointer", "checkpointRestorer"}))
  BY <1>1, <1>2 DEF BuiltinNames
<1>r6. Fits(plain("secrets", {}, {"secrets"}))
  BY <1>1, <1>2 DEF BuiltinNames
<1>r7. Fits(plain("redact", {}, {"redact"}))
  BY <1>1, <1>2 DEF BuiltinNames
<1>r8. Fits(plain("tools", {}, {"tools"}))
  BY <1>1, <1>2 DEF BuiltinNames
<1>r9. Fits(plain("runtime", {"clock", "ids", "policy", "gateway", "checkpointer",
                            "secrets", "redact", "tools"}, {"runtime"}))
  BY <1>1, <1>2 DEF BuiltinNames
<1> QED
  BY <1>3, <1>r0, <1>r1, <1>r2, <1>r3, <1>r4, <1>r5, <1>r6, <1>r7, <1>r8, <1>r9 DEF R, Fits

\* The rows of the build are none of the trusted ones.
LEMMA BusinessIsNotTrusted ==
  ASSUME NEW Names, BuiltinNames \subseteq Names, NEW Configs, NEW surface
  PROVE  /\ BusinessRows(surface) \in Seq(ProfileRows(Names, Configs))
         /\ \A i \in DOMAIN BusinessRows(surface) : ~BusinessRows(surface)[i].baseline
<1> DEFINE R == ProfileRows(Names, Configs)
           own(id, inject, provide) == Row(id, FALSE, inject, provide)
           p == IF surface = "desktop" THEN "desktop" ELSE "compose"
           last == [own("surface", {"runtime", "tools"}, {"surface"}) EXCEPT !.plugin = p]
           Fits(r) == r \in R /\ ~r.baseline
<1>1. \A id \in Names, inject, provide \in SUBSET Names : Fits(own(id, inject, provide))
  BY DEF Row, ProfileRows
<1>2. BusinessRows(surface) =
        <<own("runtime.invariants", {}, {"invariants"}),
          own("runtime.executor", {}, {"executor"}),
          own("runtime.multimodal", {"turnExtensions"}, {}),
          own("runtime.context", {"turnExtensions"}, {}),
          own("runtime.result-truncation", {"turnExtensions"}, {}),
          own("runtime.stopping", {"turnExtensions"}, {}),
          own("runtime.code", {}, {"codeRuntime"}),
          own("tools.builtin", {"runtime", "tools", "gateway", "checkpointer", "executor"}, {}),
          last>>
  BY DEF BusinessRows
<1>3. p \in Names
  BY DEF BuiltinNames
<1> HIDE DEF p, own
<1>4. \A r \in R : /\ [r EXCEPT !.plugin = p] \in R
                   /\ [r EXCEPT !.plugin = p].baseline = r.baseline
  BY <1>3 DEF ProfileRows
<1>5. Fits(own("surface", {"runtime", "tools"}, {"surface"}))
  BY <1>1 DEF BuiltinNames
<1>6. Fits(last)
  BY <1>4, <1>5
<1> HIDE DEF Fits, last
<1>7. Fits(own("runtime.invariants", {}, {"invariants"}))
  BY <1>1 DEF BuiltinNames
<1>8. Fits(own("runtime.executor", {}, {"executor"}))
  BY <1>1 DEF BuiltinNames
<1>9. /\ Fits(own("runtime.multimodal", {"turnExtensions"}, {}))
      /\ Fits(own("runtime.context", {"turnExtensions"}, {}))
  BY <1>1 DEF BuiltinNames
<1>10. /\ Fits(own("runtime.result-truncation", {"turnExtensions"}, {}))
       /\ Fits(own("runtime.stopping", {"turnExtensions"}, {}))
  BY <1>1 DEF BuiltinNames
<1>11. Fits(own("runtime.code", {}, {"codeRuntime"}))
  BY <1>1 DEF BuiltinNames
<1>12. Fits(own("tools.builtin", {"runtime", "tools", "gateway", "checkpointer", "executor"}, {}))
  BY <1>1 DEF BuiltinNames
<1> HIDE DEF R
<1> QED
  BY <1>2, <1>6, <1>7, <1>8, <1>9, <1>10, <1>11, <1>12 DEF Fits, R

\* A built-in profile begins with its trusted rows.
LEMMA BuiltinIsTrusted ==
  ASSUME NEW Names, BuiltinNames \subseteq Names, NEW Configs, NEW name
  PROVE  Trusted(BuiltinProfile(name), name, Names, Configs)
<1> DEFINE R == ProfileRows(Names, Configs)
           base == BaselineRows(name = "test")
           rest == BusinessRows(name)
           all == base \o rest
<1>1. /\ base \in Seq(R)
      /\ \A i \in DOMAIN base : base[i].baseline
  <2>1. (name = "test") \in BOOLEAN
    OBVIOUS
  <2> QED
    BY <2>1, BaselineIsThere
<1>2. rest \in Seq(R) /\ \A i \in DOMAIN rest : ~rest[i].baseline
  BY BusinessIsNotTrusted
<1>3. BuiltinProfile(name) = [name |-> name, rows |-> all]
  BY DEF BuiltinProfile
<1> HIDE DEF R, base, rest
<1>4. /\ all \in Seq(R) /\ Len(all) = Len(base) + Len(rest)
      /\ \A i \in 1..Len(base) + Len(rest) : all[i] = IF i <= Len(base) THEN base[i] ELSE rest[i - Len(base)]
  BY <1>1, <1>2, ConcatProperties
<1>5. /\ Len(base) \in Nat /\ DOMAIN base = 1..Len(base)
      /\ Len(rest) \in Nat /\ DOMAIN rest = 1..Len(rest)
      /\ DOMAIN all = 1..Len(all)
  BY <1>1, <1>2, <1>4, LenProperties
<1> HIDE DEF all
<1>6. Len(all) >= Len(base) /\ \A i \in 1..Len(base) : all[i] = base[i]
  BY <1>4, <1>5
<1>7. ASSUME NEW i \in DOMAIN all PROVE all[i].baseline <=> i <= Len(base)
  <2>1. CASE i <= Len(base)
    <3>1. i \in DOMAIN base
      BY <1>4, <1>5, <2>1
    <3> QED
      BY <1>1, <1>4, <1>5, <2>1, <3>1
  <2>2. CASE ~(i <= Len(base))
    <3>1. i - Len(base) \in DOMAIN rest
      BY <1>4, <1>5, <2>2
    <3> QED
      BY <1>2, <1>4, <1>5, <2>2, <3>1
  <2> QED
    BY <2>1, <2>2
<1>8. BuiltinProfile(name).rows = all
  BY <1>3
<1> QED
  BY <1>3, <1>4, <1>6, <1>7, <1>8 DEF Trusted, R, base

\* What findIndex finds is there.
LEMMA IndexOfIs ==
  ASSUME NEW rows, Len(rows) \in Nat, NEW id, IndexOf(rows, id) # 0
  PROVE  IndexOf(rows, id) \in 1..Len(rows)
<1> DEFINE I == {i \in 1..Len(rows) : rows[i].id = id}
<1>1. IndexOf(rows, id) = IF I # {} THEN Min(I) ELSE 0
  BY DEF IndexOf, SelectInSeq
<1>2. I # {} /\ I \subseteq Nat
  BY <1>1
<1>3. \E x \in I : \A y \in I : x <= y
  <2> DEFINE Less == OpToRel(<, Nat)
  <2>1. IsWellFoundedOn(Less, Nat)
    BY NatLessThanWellFounded
  <2> HIDE DEF Less, I
  <2>2. PICK x \in I : \A y \in I : <<y, x>> \notin Less
    BY <1>2, <2>1, WFMin
  <2>3. \A y \in I : x \in Nat /\ y \in Nat /\ ~(y < x)
    BY <1>2, <2>2 DEF OpToRel, Less
  <2> QED
    BY <2>2, <2>3
<1>4. Min(I) \in I
  BY <1>3 DEF Min
<1> QED
  BY <1>1, <1>2, <1>4

\* A profile is refused, or its trusted rows are where they were.
Patched(profile, name, Names, Configs) ==
  profile = Failed \/ Trusted(profile, name, Names, Configs)

\* A setting goes to a row that is not trusted.
LEMMA UpdateKeepsTrust ==
  ASSUME NEW Names, NEW Configs, NEW name, NEW profile, Patched(profile, name, Names, Configs),
         Len(BaselineRows(name = "test")) \in Nat,
         NEW update \in [id : Names, config : Configs]
  PROVE  Patched(Update(profile, update), name, Names, Configs)
<1> DEFINE R == ProfileRows(Names, Configs)
           i == IndexOf(profile.rows, update.id)
           n == Len(BaselineRows(name = "test"))
           row == [profile.rows[i] EXCEPT !.config = update.config]
           rows == [profile.rows EXCEPT ![i] = row]
<1>1. SUFFICES ASSUME Update(profile, update) # Failed
               PROVE  Trusted(Update(profile, update), name, Names, Configs)
  BY DEF Patched
<1>2. profile # Failed /\ i # 0 /\ ~profile.rows[i].baseline
  BY <1>1 DEF Update
<1>3. Trusted(profile, name, Names, Configs)
  BY <1>2 DEF Patched
<1>4. /\ profile = [name |-> name, rows |-> profile.rows] /\ profile.rows \in Seq(R)
      /\ Len(profile.rows) >= n
      /\ \A j \in 1..n : profile.rows[j] = BaselineRows(name = "test")[j]
      /\ \A j \in DOMAIN profile.rows : profile.rows[j].baseline <=> j <= n
  BY <1>3 DEF Trusted
<1>5. Len(profile.rows) \in Nat /\ DOMAIN profile.rows = 1..Len(profile.rows)
  BY <1>4, LenProperties
<1>6. i \in 1..Len(profile.rows)
  BY <1>2, <1>5, IndexOfIs
<1>7. n \in Nat /\ ~(i <= n)
  BY <1>2, <1>4, <1>5, <1>6
<1>8. Update(profile, update) = [name |-> name, rows |-> rows]
  <2> HIDE DEF i, n, R
  <2>1. Update(profile, update) = [profile EXCEPT !.rows[i].config = update.config]
    BY <1>2 DEF Update, i
  <2>2. [profile EXCEPT !.rows[i].config = update.config] = [profile EXCEPT !.rows = rows]
    OBVIOUS
  <2> DEFINE kept == profile.rows
  <2>3. profile = [name |-> name, rows |-> kept]
    BY <1>4
  <2> HIDE DEF rows, kept
  <2>4. [[name |-> name, rows |-> kept] EXCEPT !.rows = rows] = [name |-> name, rows |-> rows]
    OBVIOUS
  <2> QED
    BY <2>1, <2>2, <2>3, <2>4
<1> HIDE DEF i
<1>9. profile.rows[i] \in R
  BY <1>4, <1>6, ElementOfSeq
<1>10. row \in R /\ row.baseline = profile.rows[i].baseline
  BY <1>9 DEF ProfileRows
<1> HIDE DEF R, row, n
<1>11. /\ rows \in Seq(R) /\ Len(rows) = Len(profile.rows)
       /\ \A j \in 1..Len(profile.rows) : rows[j] = IF j = i THEN row ELSE profile.rows[j]
  BY <1>4, <1>6, <1>10, ExceptSeq
<1> HIDE DEF rows
<1>12. DOMAIN rows = 1..Len(rows)
  BY <1>11, LenProperties
<1>13. /\ Len(rows) >= n
       /\ \A j \in 1..n : rows[j] = BaselineRows(name = "test")[j]
       /\ \A j \in DOMAIN rows : rows[j].baseline <=> j <= n
  BY <1>4, <1>5, <1>6, <1>7, <1>10, <1>11, <1>12
<1>14. Update(profile, update).rows = rows
  BY <1>8
<1> QED
  BY <1>8, <1>11, <1>13, <1>14 DEF Trusted, R, n

\* What splice puts in moves only what stands behind it.
LEMMA InsertAtIs ==
  ASSUME NEW R, NEW s \in Seq(R), NEW i \in 1..Len(s) + 1, NEW e \in R
  PROVE  /\ InsertAt(s, i, e) \in Seq(R)
         /\ Len(InsertAt(s, i, e)) = Len(s) + 1
         /\ \A k \in 1..Len(s) + 1 :
              InsertAt(s, i, e)[k] = IF k < i THEN s[k] ELSE IF k = i THEN e ELSE s[k - 1]
<1> DEFINE front == SubSeq(s, 1, i - 1)
           back == SubSeq(s, i, Len(s))
           head == front \o <<e>>
<1>1. Len(s) \in Nat /\ \A k \in 1..Len(s) : s[k] \in R
  BY LenProperties, ElementOfSeq
<1>2. /\ front \in Seq(R) /\ Len(front) = i - 1
      /\ \A k \in 1..i - 1 : front[k] = s[k]
  <2>1. \A k \in 1..i - 1 : s[k] \in R
    BY <1>1
  <2>2. 1 \in Int /\ i - 1 \in Int
    BY <1>1
  <2>3. /\ front \in Seq(R)
        /\ Len(front) = IF 1 <= i - 1 THEN (i - 1) - 1 + 1 ELSE 0
        /\ \A k \in 1..(i - 1) - 1 + 1 : front[k] = s[1 + k - 1]
    BY <2>1, <2>2, SubSeqProperties
  <2> QED
    BY <1>1, <2>3
<1>3. /\ back \in Seq(R) /\ Len(back) = Len(s) + 1 - i
      /\ \A k \in 1..Len(s) + 1 - i : back[k] = s[i + k - 1]
  <2>1. \A k \in i..Len(s) : s[k] \in R
    BY <1>1
  <2>2. i \in Int /\ Len(s) \in Int
    BY <1>1
  <2>3. /\ back \in Seq(R)
        /\ Len(back) = IF i <= Len(s) THEN Len(s) - i + 1 ELSE 0
        /\ \A k \in 1..Len(s) - i + 1 : back[k] = s[i + k - 1]
    BY <2>1, <2>2, SubSeqProperties
  <2> QED
    BY <1>1, <2>3
<1>4. <<e>> \in Seq(R) /\ Len(<<e>>) = 1 /\ <<e>>[1] = e
  OBVIOUS
<1> DEFINE one == <<e>>
<1>5. InsertAt(s, i, e) = head \o back /\ head = front \o one
  BY DEF InsertAt
<1> HIDE DEF front, back, head, one
<1>6. /\ head \in Seq(R) /\ Len(head) = Len(front) + Len(one)
      /\ \A k \in 1..Len(front) + Len(one) :
           head[k] = IF k <= Len(front) THEN front[k] ELSE one[k - Len(front)]
  BY <1>2, <1>4, <1>5, ConcatProperties DEF one
<1>7. /\ head \in Seq(R) /\ Len(head) = i
      /\ \A k \in 1..i : head[k] = IF k < i THEN s[k] ELSE e
  BY <1>1, <1>2, <1>4, <1>6 DEF one
<1>8. /\ head \o back \in Seq(R)
      /\ Len(head \o back) = Len(head) + Len(back)
      /\ \A k \in 1..Len(head) + Len(back) :
           (head \o back)[k] = IF k <= Len(head) THEN head[k] ELSE back[k - Len(head)]
  BY <1>3, <1>7, ConcatProperties
<1> DEFINE all == head \o back
<1> HIDE DEF all
<1>9. ASSUME NEW k \in 1..Len(s) + 1
      PROVE  all[k] = IF k < i THEN s[k] ELSE IF k = i THEN e ELSE s[k - 1]
  <2>1. CASE k <= i
    BY <1>1, <1>3, <1>7, <1>8, <2>1 DEF all
  <2>2. CASE ~(k <= i)
    <3>1. k - i \in 1..Len(s) + 1 - i /\ i + (k - i) - 1 = k - 1
      BY <1>1, <2>2
    <3>2. all[k] = back[k - i]
      BY <1>1, <1>3, <1>7, <1>8, <2>2 DEF all
    <3> QED
      BY <1>1, <1>3, <2>2, <3>1, <3>2
  <2> QED
    BY <2>1, <2>2
<1> QED
  BY <1>1, <1>3, <1>5, <1>7, <1>8, <1>9 DEF all

\* A row is put beside one that is not trusted, so behind all that are.
LEMMA InsertKeepsTrust ==
  ASSUME NEW Names, NEW Configs, NEW name, NEW profile, Patched(profile, name, Names, Configs),
         Len(BaselineRows(name = "test")) \in Nat,
         NEW insert, insert.row \in ProfileRows(Names, Configs)
  PROVE  Patched(Insert(profile, insert), name, Names, Configs)
<1> DEFINE R == ProfileRows(Names, Configs)
           anchor == IndexOf(profile.rows, insert.anchor)
           i == IF insert.where = "before" THEN anchor ELSE anchor + 1
           n == Len(BaselineRows(name = "test"))
           rows == InsertAt(profile.rows, i, insert.row)
<1>1. SUFFICES ASSUME Insert(profile, insert) # Failed
               PROVE  Trusted(Insert(profile, insert), name, Names, Configs)
  BY DEF Patched
<1>2. profile # Failed /\ ~insert.row.baseline /\ anchor # 0 /\ ~profile.rows[anchor].baseline
  BY <1>1 DEF Insert
<1>3. Trusted(profile, name, Names, Configs)
  BY <1>2 DEF Patched
<1>4. /\ profile = [name |-> name, rows |-> profile.rows] /\ profile.rows \in Seq(R)
      /\ Len(profile.rows) >= n
      /\ \A j \in 1..n : profile.rows[j] = BaselineRows(name = "test")[j]
      /\ \A j \in DOMAIN profile.rows : profile.rows[j].baseline <=> j <= n
  BY <1>3 DEF Trusted
<1>5. Len(profile.rows) \in Nat /\ DOMAIN profile.rows = 1..Len(profile.rows)
  BY <1>4, LenProperties
<1>6. anchor \in 1..Len(profile.rows)
  BY <1>2, <1>5, IndexOfIs
<1>7. n \in Nat /\ ~(anchor <= n)
  BY <1>2, <1>4, <1>5, <1>6
<1>8. Insert(profile, insert) = [name |-> name, rows |-> rows]
  <2>1. Insert(profile, insert) = [profile EXCEPT !.rows = rows]
    BY <1>1, <1>2 DEF Insert
  <2> DEFINE kept == profile.rows
  <2>2. profile = [name |-> name, rows |-> kept]
    BY <1>4
  <2> HIDE DEF rows, kept
  <2>3. [[name |-> name, rows |-> kept] EXCEPT !.rows = rows] = [name |-> name, rows |-> rows]
    OBVIOUS
  <2> QED
    BY <2>1, <2>2, <2>3
<1> HIDE DEF anchor
<1>9. i \in 1..Len(profile.rows) + 1 /\ ~(i <= n)
  BY <1>5, <1>6, <1>7
<1> HIDE DEF i, R, n
<1>10. /\ rows \in Seq(R) /\ Len(rows) = Len(profile.rows) + 1
       /\ \A k \in 1..Len(profile.rows) + 1 :
            rows[k] = IF k < i THEN profile.rows[k] ELSE IF k = i THEN insert.row ELSE profile.rows[k - 1]
  BY <1>4, <1>9, InsertAtIs DEF R
<1> HIDE DEF rows
<1>11. DOMAIN rows = 1..Len(rows)
  BY <1>10, LenProperties
<1>12. Len(rows) >= n /\ \A j \in 1..n : rows[j] = BaselineRows(name = "test")[j]
  BY <1>4, <1>5, <1>7, <1>9, <1>10
<1>13. ASSUME NEW j \in DOMAIN rows PROVE rows[j].baseline <=> j <= n
  <2>1. CASE j < i
    BY <1>4, <1>5, <1>7, <1>9, <1>10, <1>11, <2>1
  <2>2. CASE j = i
    BY <1>2, <1>5, <1>7, <1>9, <1>10, <1>11, <2>2
  <2>3. CASE j > i
    <3>1. j - 1 \in DOMAIN profile.rows /\ ~(j - 1 <= n) /\ ~(j <= n)
      BY <1>5, <1>7, <1>9, <1>10, <1>11, <2>3
    <3>2. rows[j] = profile.rows[j - 1]
      BY <1>5, <1>9, <1>10, <1>11, <2>3
    <3> QED
      BY <1>4, <3>1, <3>2
  <2> QED
    BY <1>5, <1>9, <1>10, <1>11, <2>1, <2>2, <2>3
<1>14. Insert(profile, insert).rows = rows
  BY <1>8
<1> QED
  BY <1>8, <1>10, <1>12, <1>13, <1>14 DEF Trusted, R, n

\* The settings of a patch are a run over them, and so are its rows.
LEMMA UpdateRuns ==
  ASSUME NEW base, NEW s, Len(s) \in Nat, DOMAIN s = 1..Len(s)
  PROVE  \E f : IsRun("update", f, base, s) /\ FoldLeft(Update, base, s) = f[Len(s)]
<1> DEFINE N == Len(s)
           Of(h, t) == IF t = {} THEN base ELSE Update(h[t \ {Max(t)}], s[Max(t)])
           chosen == CHOOSE h : h = [t \in SUBSET (1..N) |-> Of(h, t)]
<1>1. \A h, t : Of(h, t) = FoldedSet("update", h, base, s, t)
  BY DEF FoldedSet, Folded, Chosen, Element
<1>2. FoldLeft(Update, base, s) = chosen[1..N]
  BY DEF FoldLeft, MapThenFoldSet
<1> HIDE DEF Of
<1>3. \E h : h = [t \in SUBSET (1..N) |-> Of(h, t)]
  <2>1. PICK h : FoldsOn("update", h, base, s, SUBSET (1..N))
    BY SequenceFolds
  <2> QED
    BY <1>1, <2>1 DEF FoldsOn
<1>4. chosen = [t \in SUBSET (1..N) |-> Of(chosen, t)]
  BY <1>3
<1> HIDE DEF chosen
<1>5. FoldsOn("update", chosen, base, s, SUBSET (1..N))
  BY <1>1, <1>4 DEF FoldsOn
<1>6. PICK f : IsRun("update", f, base, s) /\ f[N] = chosen[1..N]
  BY <1>5, FoldRuns
<1>7. FoldLeft(Update, base, s) = f[Len(s)]
  BY <1>2, <1>6
<1> QED
  BY <1>6, <1>7

LEMMA InsertRuns ==
  ASSUME NEW base, NEW s, Len(s) \in Nat, DOMAIN s = 1..Len(s)
  PROVE  \E f : IsRun("insert", f, base, s) /\ FoldLeft(Insert, base, s) = f[Len(s)]
<1> DEFINE N == Len(s)
           Of(h, t) == IF t = {} THEN base ELSE Insert(h[t \ {Max(t)}], s[Max(t)])
           chosen == CHOOSE h : h = [t \in SUBSET (1..N) |-> Of(h, t)]
<1>1. \A h, t : Of(h, t) = FoldedSet("insert", h, base, s, t)
  BY DEF FoldedSet, Folded, Chosen, Element
<1>2. FoldLeft(Insert, base, s) = chosen[1..N]
  BY DEF FoldLeft, MapThenFoldSet
<1> HIDE DEF Of
<1>3. \E h : h = [t \in SUBSET (1..N) |-> Of(h, t)]
  <2>1. PICK h : FoldsOn("insert", h, base, s, SUBSET (1..N))
    BY SequenceFolds
  <2> QED
    BY <1>1, <2>1 DEF FoldsOn
<1>4. chosen = [t \in SUBSET (1..N) |-> Of(chosen, t)]
  BY <1>3
<1> HIDE DEF chosen
<1>5. FoldsOn("insert", chosen, base, s, SUBSET (1..N))
  BY <1>1, <1>4 DEF FoldsOn
<1>6. PICK f : IsRun("insert", f, base, s) /\ f[N] = chosen[1..N]
  BY <1>5, FoldRuns
<1>7. FoldLeft(Insert, base, s) = f[Len(s)]
  BY <1>2, <1>6
<1> QED
  BY <1>6, <1>7

\* However many settings and rows a user's patch of a built-in profile has, of whatever
\* names: it is refused, or the profile has its trusted rows, in their places and as
\* they were, and no others (applyProfilePatch of patch.ts, assertBaseline of assemble.ts).
THEOREM PatchesKeepBaseline ==
  ASSUME NEW Names, BuiltinNames \subseteq Names, NEW Configs,
         NEW name \in BUILTIN_PROFILE_NAMES, NEW patch \in Patches(Names, Configs),
         NEW patched, patched = ApplyProfilePatch(BuiltinProfile(name), patch), patched # Failed
  PROVE  /\ AssertBaseline(patched)
         /\ \A i \in DOMAIN patched.rows : patched.rows[i].baseline => patched.rows[i].config = "none"
<1> DEFINE base == BaselineRows(name = "test")
           n == Len(base)
           Fits(p) == Patched(p, name, Names, Configs)
           updated == FoldLeft(Update, BuiltinProfile(name), patch.update)
<1>1. /\ n \in Nat /\ DOMAIN base = 1..n
      /\ \A i \in 1..n : base[i].baseline /\ base[i].config = "none"
  <2>1. (name = "test") \in BOOLEAN
    OBVIOUS
  <2>2. /\ base \in Seq(ProfileRows(Names, Configs))
        /\ \A i \in DOMAIN base : base[i].baseline /\ base[i].config = "none"
    BY <2>1, BaselineIsThere
  <2> HIDE DEF base
  <2> QED
    BY <2>2, LenProperties
<1> HIDE DEF base
<1>2. Fits(BuiltinProfile(name))
  BY BuiltinIsTrusted DEF Patched
<1>3. /\ patch.update \in Seq([id : Names, config : Configs])
      /\ \A i \in 1..Len(patch.insert) : patch.insert[i].row \in ProfileRows(Names, Configs)
      /\ Len(patch.update) \in Nat /\ DOMAIN patch.update = 1..Len(patch.update)
      /\ Len(patch.insert) \in Nat /\ DOMAIN patch.insert = 1..Len(patch.insert)
  <2> DEFINE Settings == [id : Names, config : Configs]
             Added == [anchor : Names, where : {"before", "after"}, row : ProfileRows(Names, Configs)]
  <2>1. patch.update \in Seq(Settings) /\ patch.insert \in Seq(Added)
    BY DEF Patches
  <2>2. \A r \in Added : r.row \in ProfileRows(Names, Configs)
    OBVIOUS
  <2> HIDE DEF Settings, Added
  <2>3. /\ Len(patch.update) \in Nat /\ DOMAIN patch.update = 1..Len(patch.update)
        /\ Len(patch.insert) \in Nat /\ DOMAIN patch.insert = 1..Len(patch.insert)
    BY <2>1, LenProperties
  <2>4. \A i \in 1..Len(patch.insert) : patch.insert[i] \in Added
    BY <2>1, ElementOfSeq
  <2> QED
    BY <2>1, <2>2, <2>3, <2>4 DEF Settings
<1>4. Fits(updated)
  <2> DEFINE s == patch.update
  <2>1. PICK f : IsRun("update", f, BuiltinProfile(name), s) /\ updated = f[Len(s)]
    BY <1>3, UpdateRuns
  <2> DEFINE P == {k \in Nat : k <= Len(s) => Fits(f[k])}
  <2>2. 0 \in P
    BY <1>2, <2>1 DEF IsRun
  <2>3. ASSUME NEW k \in P PROVE k + 1 \in P
    <3> SUFFICES ASSUME k + 1 <= Len(s) PROVE Fits(f[k + 1])
      OBVIOUS
    <3>1. k + 1 \in 1..Len(s) /\ (k + 1) - 1 = k /\ Fits(f[k])
      BY <1>3
    <3>2. s[k + 1] \in [id : Names, config : Configs]
      BY <1>3, <3>1, ElementOfSeq
    <3>3. f[k + 1] = Folded("update", f[k], s[k + 1])
      BY <2>1, <3>1 DEF IsRun
    <3>4. f[k + 1] = Update(f[k], s[k + 1])
      BY <3>3 DEF Folded
    <3> HIDE DEF s
    <3>5. Fits(Update(f[k], s[k + 1]))
      BY <1>1, <3>1, <3>2, UpdateKeepsTrust DEF base
    <3> QED
      BY <3>4, <3>5
  <2>4. P = Nat
    <3> HIDE DEF P
    <3>1. P \subseteq Nat
      BY DEF P
    <3> QED
      BY <2>2, <2>3, <3>1, Induction
  <2> QED
    BY <1>3, <2>1, <2>4
<1> HIDE DEF updated
<1>5. patched = FoldLeft(Insert, updated, patch.insert)
  BY DEF ApplyProfilePatch, updated
<1>6. Fits(patched)
  <2> DEFINE s == patch.insert
  <2>1. PICK f : IsRun("insert", f, updated, s) /\ FoldLeft(Insert, updated, s) = f[Len(s)]
    BY <1>3, InsertRuns
  <2> DEFINE P == {k \in Nat : k <= Len(s) => Fits(f[k])}
  <2>2. 0 \in P
    BY <1>4, <2>1 DEF IsRun
  <2>3. ASSUME NEW k \in P PROVE k + 1 \in P
    <3> SUFFICES ASSUME k + 1 <= Len(s) PROVE Fits(f[k + 1])
      OBVIOUS
    <3>1. k + 1 \in 1..Len(s) /\ (k + 1) - 1 = k /\ Fits(f[k])
      BY <1>3
    <3>2. s[k + 1].row \in ProfileRows(Names, Configs)
      BY <1>3, <3>1
    <3>3. f[k + 1] = Folded("insert", f[k], s[k + 1])
      BY <2>1, <3>1 DEF IsRun
    <3>4. f[k + 1] = Insert(f[k], s[k + 1])
      BY <3>3 DEF Folded
    <3> HIDE DEF s
    <3>5. Fits(Insert(f[k], s[k + 1]))
      BY <1>1, <3>1, <3>2, InsertKeepsTrust DEF base
    <3> QED
      BY <3>4, <3>5
  <2>4. P = Nat
    <3> HIDE DEF P
    <3>1. P \subseteq Nat
      BY DEF P
    <3> QED
      BY <2>2, <2>3, <3>1, Induction
  <2> QED
    BY <1>3, <1>5, <2>1, <2>4
<1>7. Trusted(patched, name, Names, Configs)
  BY <1>6 DEF Patched
<1>8. /\ patched.name = name /\ Len(patched.rows) \in Nat
      /\ DOMAIN patched.rows = 1..Len(patched.rows) /\ Len(patched.rows) >= n
      /\ \A i \in 1..n : patched.rows[i] = base[i]
      /\ \A i \in DOMAIN patched.rows : patched.rows[i].baseline <=> i <= n
  <2>1. patched = [name |-> name, rows |-> patched.rows]
    BY <1>7 DEF Trusted
  <2> QED
    BY <1>7, <2>1, LenProperties DEF Trusted, base
<1>9. Cardinality({i \in DOMAIN patched.rows : patched.rows[i].baseline}) = n
  <2>1. {i \in DOMAIN patched.rows : patched.rows[i].baseline} = 1..n
    BY <1>1, <1>8
  <2>2. Cardinality(1..n) = n
    <3> HIDE DEF n
    <3>1. 1 \in Int /\ n \in Int /\ n >= 0
      BY <1>1
    <3>2. Cardinality(1..n) = IF 1 > n THEN 0 ELSE n - 1 + 1
      BY <3>1, FS_Interval
    <3> QED
      BY <1>1, <3>2
  <2> QED
    BY <2>1, <2>2
<1>10. AssertBaseline(patched)
  BY <1>1, <1>8, <1>9 DEF AssertBaseline, base
<1>11. \A i \in DOMAIN patched.rows : patched.rows[i].baseline => patched.rows[i].config = "none"
  BY <1>1, <1>8
<1> QED
  BY <1>10, <1>11

-----------------------------------------------------------------------------
(* A stored result that is read in chunks.                                 *)

\* The lines of a text are a run over its units.
LEMMA SplitRuns ==
  ASSUME NEW s, Len(s) \in Nat, DOMAIN s = 1..Len(s)
  PROVE  \E f : IsRun("split", f, <<<<>>>>, s) /\ SplitLines(s) = f[Len(s)]
<1> DEFINE N == Len(s)
           Of(h, t) == IF t = {} THEN <<<<>>>>
                       ELSE IF s[Max(t)] = "n" THEN Append(h[t \ {Max(t)}], <<>>)
                       ELSE Append(Front(h[t \ {Max(t)}]), Append(Last(h[t \ {Max(t)}]), s[Max(t)]))
           chosen == CHOOSE h : h = [t \in SUBSET (1..N) |-> Of(h, t)]
<1>1. \A h, t : Of(h, t) = FoldedSet("split", h, <<<<>>>>, s, t)
  BY DEF FoldedSet, Folded, Chosen, Element, Broken
<1>2. SplitLines(s) = chosen[1..N]
  BY DEF SplitLines, FoldLeft, MapThenFoldSet
<1> HIDE DEF Of
<1>3. \E h : h = [t \in SUBSET (1..N) |-> Of(h, t)]
  <2>1. PICK h : FoldsOn("split", h, <<<<>>>>, s, SUBSET (1..N))
    BY SequenceFolds
  <2> QED
    BY <1>1, <2>1 DEF FoldsOn
<1>4. chosen = [t \in SUBSET (1..N) |-> Of(chosen, t)]
  BY <1>3
<1> HIDE DEF chosen
<1>5. FoldsOn("split", chosen, <<<<>>>>, s, SUBSET (1..N))
  BY <1>1, <1>4 DEF FoldsOn
<1>6. PICK f : IsRun("split", f, <<<<>>>>, s) /\ f[N] = chosen[1..N]
  BY <1>5, FoldRuns
<1>7. SplitLines(s) = f[Len(s)]
  BY <1>2, <1>6
<1> QED
  BY <1>6, <1>7

\* Lines have no line feeds in them, and there is at least one.
TextLines(Units) == {lines \in Seq(Seq(Units \ {"n"})) : lines # <<>>}

\* What stands in front of the last line, and the last line.
LEMMA FrontIs ==
  ASSUME NEW S, NEW s \in Seq(S), s # <<>>
  PROVE  /\ Front(s) \in Seq(S) /\ Len(Front(s)) = Len(s) - 1 /\ Len(s) \in Nat \ {0}
         /\ \A k \in 1..Len(s) - 1 : Front(s)[k] = s[k]
         /\ Last(s) \in S /\ Last(s) = s[Len(s)]
<1>1. Len(s) \in Nat \ {0} /\ \A k \in 1..Len(s) : s[k] \in S
  BY EmptySeq, ElementOfSeq
<1>2. 1 \in Int /\ Len(s) - 1 \in Int /\ \A k \in 1..Len(s) - 1 : s[k] \in S
  BY <1>1
<1>3. /\ Front(s) \in Seq(S)
      /\ Len(Front(s)) = IF 1 <= Len(s) - 1 THEN (Len(s) - 1) - 1 + 1 ELSE 0
      /\ \A k \in 1..(Len(s) - 1) - 1 + 1 : Front(s)[k] = s[1 + k - 1]
  BY <1>2, SubSeqProperties DEF Front
<1>4. Last(s) = s[Len(s)] /\ Last(s) \in S
  BY <1>1 DEF Last
<1>5. Len(Front(s)) = Len(s) - 1
  <2> DEFINE n == Len(s)
             m == Len(Front(s))
  <2>1. n \in Nat /\ n # 0 /\ m = IF 1 <= n - 1 THEN (n - 1) - 1 + 1 ELSE 0
    BY <1>1, <1>3
  <2> HIDE DEF n, m
  <2>2. m = n - 1
    BY <2>1
  <2> QED
    BY <2>2 DEF n, m
<1>6. ASSUME NEW k \in 1..Len(s) - 1 PROVE Front(s)[k] = s[k]
  <2>1. k \in 1..(Len(s) - 1) - 1 + 1 /\ 1 + k - 1 = k
    BY <1>1
  <2> QED
    BY <1>3, <2>1
<1> QED
  BY <1>1, <1>3, <1>4, <1>5, <1>6

\* One more unit.
LEMMA BrokenIs ==
  ASSUME NEW Units, NEW lines \in TextLines(Units), NEW u \in Units
  PROVE  Broken(lines, u) \in TextLines(Units)
<1> DEFINE P == Units \ {"n"}
<1>1. /\ lines \in Seq(Seq(P)) /\ lines # <<>>
      /\ Front(lines) \in Seq(Seq(P)) /\ Last(lines) \in Seq(P)
  <2>1. lines \in Seq(Seq(P)) /\ lines # <<>>
    BY DEF TextLines
  <2> HIDE DEF P
  <2> QED
    BY <2>1, FrontIs
<1>2. CASE u = "n"
  <2>1. <<>> \in Seq(P)
    BY EmptySeq
  <2> DEFINE none == <<>>
  <2> HIDE DEF P, none
  <2>2. Append(lines, none) \in Seq(Seq(P)) /\ Append(lines, none) # <<>>
    BY <1>1, <2>1, AppendProperties DEF none
  <2> QED
    BY <1>2, <2>2 DEF Broken, TextLines, P, none
<1>3. CASE u # "n"
  <2>1. u \in P
    BY <1>3
  <2> DEFINE more == Append(Last(lines), u)
             front == Front(lines)
  <2> HIDE DEF P
  <2>2. more \in Seq(P)
    BY <1>1, <2>1, AppendProperties
  <2> HIDE DEF more, front
  <2>3. Append(front, more) \in Seq(Seq(P)) /\ Append(front, more) # <<>>
    BY <1>1, <2>2, AppendProperties DEF front
  <2> QED
    BY <1>3, <2>3 DEF Broken, TextLines, P, more, front
<1> QED
  BY <1>2, <1>3

\* What stands in front of the last line stays.
LEMMA BrokenBehind ==
  ASSUME NEW S, NEW y \in Seq(S), NEW x \in Seq(S), x # <<>>
  PROVE  /\ y \o x \in Seq(S) /\ y \o x # <<>>
         /\ Front(y \o x) = y \o Front(x) /\ Last(y \o x) = Last(x)
<1>1. /\ Front(x) \in Seq(S) /\ Len(Front(x)) = Len(x) - 1 /\ Len(x) \in Nat \ {0}
      /\ \A k \in 1..Len(x) - 1 : Front(x)[k] = x[k]
      /\ Last(x) = x[Len(x)]
  BY FrontIs
<1>2. Len(y) \in Nat
  BY LenProperties
<1> DEFINE both == y \o x
           front == Front(x)
           some == y \o front
<1>3. /\ both \in Seq(S) /\ Len(both) = Len(y) + Len(x)
      /\ \A k \in 1..Len(y) + Len(x) : both[k] = IF k <= Len(y) THEN y[k] ELSE x[k - Len(y)]
  BY ConcatProperties
<1>4. /\ some \in Seq(S) /\ Len(some) = Len(y) + Len(front)
      /\ \A k \in 1..Len(y) + Len(front) : some[k] = IF k <= Len(y) THEN y[k] ELSE front[k - Len(y)]
  <2> HIDE DEF front
  <2>1. front \in Seq(S)
    BY <1>1 DEF front
  <2> QED
    BY <2>1, ConcatProperties
<1> HIDE DEF both, some
<1>5. both # <<>>
  <2>1. Len(both) > 0
    BY <1>1, <1>2, <1>3
  <2> QED
    BY <2>1
<1>6. /\ Front(both) \in Seq(S) /\ Len(Front(both)) = Len(both) - 1
      /\ \A k \in 1..Len(both) - 1 : Front(both)[k] = both[k]
      /\ Last(both) = both[Len(both)]
  BY <1>3, <1>5, FrontIs
<1>7. Front(both) = some
  <2>1. Len(Front(both)) = Len(some)
    BY <1>1, <1>2, <1>3, <1>4, <1>6 DEF front
  <2>2. ASSUME NEW k \in 1..Len(Front(both)) PROVE Front(both)[k] = some[k]
    <3>1. k \in 1..Len(both) - 1 /\ k \in 1..Len(y) + Len(x) /\ k \in 1..Len(y) + Len(front)
      BY <1>1, <1>2, <1>3, <1>6 DEF front
    <3>2. CASE k <= Len(y)
      BY <1>3, <1>4, <1>6, <3>1, <3>2
    <3>3. CASE ~(k <= Len(y))
      <4>1. k - Len(y) \in 1..Len(x) - 1
        BY <1>1, <1>2, <1>3, <3>1, <3>3
      <4> QED
        BY <1>1, <1>3, <1>4, <1>6, <3>1, <3>3, <4>1 DEF front
    <3> QED
      BY <3>2, <3>3
  <2> QED
    BY <1>4, <1>6, <2>1, <2>2, SeqEqual
<1>8. Last(both) = Last(x)
  <2>1. Len(both) \in 1..Len(y) + Len(x) /\ ~(Len(both) <= Len(y)) /\ Len(both) - Len(y) = Len(x)
    BY <1>1, <1>2, <1>3
  <2> QED
    BY <1>1, <1>3, <1>6, <2>1
<1> QED
  BY <1>3, <1>5, <1>7, <1>8 DEF both, some

\* The run over a text has lines at every place.
LEMMA RunHasLines ==
  ASSUME NEW Units, NEW s \in Seq(Units), NEW f, IsRun("split", f, <<<<>>>>, s)
  PROVE  \A k \in 0..Len(s) : f[k] \in TextLines(Units)
<1> DEFINE S == {k \in Nat : k <= Len(s) => f[k] \in TextLines(Units)}
<1>1. Len(s) \in Nat /\ \A k \in 1..Len(s) : s[k] \in Units
  BY LenProperties, ElementOfSeq
<1>2. 0 \in S
  <2> DEFINE P == Units \ {"n"}
             none == <<>>
             one == <<none>>
  <2>1. none \in Seq(P)
    BY EmptySeq
  <2> HIDE DEF P, none
  <2>2. one \in Seq(Seq(P)) /\ Len(one) = 1
    BY <2>1
  <2> HIDE DEF one
  <2>3. one # <<>>
    BY <2>2
  <2>4. f[0] = one
    BY DEF IsRun, one, none
  <2> QED
    BY <2>2, <2>3, <2>4 DEF TextLines, P
<1>3. ASSUME NEW k \in S PROVE k + 1 \in S
  <2> SUFFICES ASSUME k + 1 <= Len(s) PROVE f[k + 1] \in TextLines(Units)
    OBVIOUS
  <2>1. k + 1 \in 1..Len(s) /\ (k + 1) - 1 = k /\ f[k] \in TextLines(Units) /\ s[k + 1] \in Units
    BY <1>1
  <2>2. f[k + 1] = Broken(f[k], s[k + 1])
    BY <2>1 DEF IsRun, Folded
  <2> QED
    BY <2>1, <2>2, BrokenIs
<1>4. S = Nat
  <2>1. S \subseteq Nat
    OBVIOUS
  <2> HIDE DEF S
  <2> QED
    BY <1>2, <1>3, <2>1, Induction
<1> QED
  BY <1>1, <1>4

\* A unit more behind other lines.
LEMMA BrokenFurther ==
  ASSUME NEW Units, NEW y \in Seq(Seq(Units \ {"n"})), NEW x \in TextLines(Units), NEW u \in Units
  PROVE  Broken(y \o x, u) = y \o Broken(x, u)
<1> DEFINE P == Units \ {"n"}
           LL == Seq(P)
           none == <<>>
           more == Append(Last(x), u)
           front == Front(x)
<1>1. x \in Seq(LL) /\ x # <<>> /\ y \in Seq(LL)
  BY DEF TextLines
<1> HIDE DEF LL
<1>2. Front(y \o x) = y \o front /\ Last(y \o x) = Last(x) /\ front \in Seq(LL) /\ Last(x) \in LL
  BY <1>1, BrokenBehind, FrontIs
<1> HIDE DEF front
<1>3. \A s \in Seq(LL), w \in LL : Append(y \o s, w) = y \o Append(s, w)
  <2> SUFFICES ASSUME NEW s \in Seq(LL), NEW w \in LL PROVE Append(y \o s, w) = y \o Append(s, w)
    OBVIOUS
  <2> DEFINE one == <<w>>
  <2>1. one \in Seq(LL)
    OBVIOUS
  <2>2. y \o s \in Seq(LL)
    BY <1>1, ConcatProperties
  <2>3. Append(s, w) = s \o one /\ Append(y \o s, w) = (y \o s) \o one
    BY <2>2, AppendIsConcat
  <2> HIDE DEF one
  <2>4. (y \o s) \o one = y \o (s \o one)
    BY <1>1, <2>1, ConcatAssociative
  <2> QED
    BY <2>3, <2>4, Zenon
<1>4. CASE u = "n"
  <2>1. none \in LL
    BY EmptySeq DEF LL
  <2>2. Broken(y \o x, u) = Append(y \o x, none) /\ Broken(x, u) = Append(x, none)
    BY <1>4 DEF Broken
  <2> HIDE DEF none
  <2> QED
    BY <1>1, <1>3, <2>1, <2>2
<1>5. CASE u # "n"
  <2>1. more \in LL
    <3>1. u \in P
      BY <1>5
    <3> HIDE DEF P
    <3> QED
      BY <1>2, <3>1, AppendProperties DEF LL
  <2>2. Broken(y \o x, u) = Append(y \o front, more) /\ Broken(x, u) = Append(front, more)
    BY <1>2, <1>5 DEF Broken, front
  <2> HIDE DEF more
  <2> QED
    BY <1>2, <1>3, <2>1, <2>2
<1> QED
  BY <1>4, <1>5

\* A text without line feeds is one line.
LEMMA PlainLine ==
  ASSUME NEW Units, NEW q \in Seq(Units \ {"n"}), NEW s, Len(s) \in Nat, Len(q) <= Len(s),
         \A k \in 1..Len(q) : s[k] = q[k],
         NEW f, IsRun("split", f, <<<<>>>>, s)
  PROVE  f[Len(q)] = <<q>>
<1> DEFINE P == Units \ {"n"}
           upTo(k) == SubSeq(q, 1, k)
           S == {k \in Nat : k <= Len(q) => f[k] = <<upTo(k)>>}
<1>1. Len(q) \in Nat /\ \A k \in 1..Len(q) : q[k] \in P
  BY LenProperties, ElementOfSeq
<1>2. 0 \in S
  <2>1. upTo(0) = <<>>
    BY SubSeqEmpty
  <2>2. f[0] = <<<<>>>>
    BY DEF IsRun
  <2> HIDE DEF upTo
  <2> QED
    BY <2>1, <2>2
<1>3. ASSUME NEW k \in S PROVE k + 1 \in S
  <2> SUFFICES ASSUME k + 1 <= Len(q) PROVE f[k + 1] = <<upTo(k + 1)>>
    OBVIOUS
  <2>1. /\ k \in Nat /\ k + 1 \in 1..Len(s) /\ k + 1 \in 1..Len(q) /\ (k + 1) - 1 = k
        /\ k + 1 \in 1..Len(q)
        /\ f[k] = <<upTo(k)>>
    BY <1>1
  <2>2. s[k + 1] = q[k + 1] /\ s[k + 1] # "n" /\ q[k + 1] \in P
    BY <1>1, <2>1
  <2>3. f[k + 1] = Append(Front(f[k]), Append(Last(f[k]), s[k + 1]))
    BY <2>1, <2>2 DEF IsRun, Folded, Broken
  <2>4. upTo(k) \in Seq(P)
    <3>1. \A j \in 1..k : q[j] \in P
      BY <1>1, <2>1
    <3>2. 1 \in Int /\ k \in Int
      BY <2>1
    <3> HIDE DEF P
    <3> QED
      BY <3>1, <3>2, SubSeqProperties
  <2>5. Append(upTo(k), q[k + 1]) = upTo(k + 1)
    <3> DEFINE w == <<q[k + 1]>>
    <3>1. SubSeq(q, 1, k + 1) = SubSeq(q, 1, (k + 1) - 1) \o <<q[k + 1]>>
      <4>1. q \in Seq(P) /\ 1 \in 1..Len(q) /\ k + 1 \in 1..Len(q)
        BY <1>1, <2>1
      <4> HIDE DEF P
      <4> QED
        BY <4>1, SubSeqRecursiveSecond
    <3>2. Append(upTo(k), q[k + 1]) = upTo(k) \o <<q[k + 1]>>
      <4> HIDE DEF P, upTo
      <4> QED
        BY <2>2, <2>4, AppendIsConcat
    <3> QED
      BY <2>1, <3>1, <3>2
  <2>6. Front(<<upTo(k)>>) = <<>> /\ Last(<<upTo(k)>>) = upTo(k)
    <3> DEFINE w == upTo(k)
    <3> HIDE DEF w
    <3>1. Len(<<w>>) = 1 /\ <<w>>[1] = w
      OBVIOUS
    <3>2. Front(<<w>>) = <<>>
      <4>1. Front(<<w>>) = SubSeq(<<w>>, 1, 0)
        BY <3>1 DEF Front
      <4> QED
        BY <4>1, SubSeqEmpty
    <3>3. Last(<<w>>) = w
      BY <3>1 DEF Last
    <3> QED
      BY <3>2, <3>3 DEF w
  <2> HIDE DEF upTo, P
  <2>7. Append(<<>>, upTo(k + 1)) = <<upTo(k + 1)>>
    OBVIOUS
  <2> QED
    BY <2>1, <2>2, <2>3, <2>5, <2>6, <2>7
<1>4. S = Nat
  <2>1. S \subseteq Nat
    OBVIOUS
  <2> HIDE DEF S
  <2> QED
    BY <1>2, <1>3, <2>1, Induction
<1>5. upTo(Len(q)) = q
  BY SubSeqFull
<1> HIDE DEF upTo
<1> QED
  BY <1>1, <1>4, <1>5

\* The lines of two texts in one: the last line of the first goes on.
LEMMA SplitOfConcat ==
  ASSUME NEW Units, NEW x \in Seq(Units), NEW b \in Seq(Units)
  PROVE  /\ SplitLines(x) \in TextLines(Units)
         /\ SplitLines(Last(SplitLines(x)) \o b) \in TextLines(Units)
         /\ SplitLines(x \o b) = Front(SplitLines(x)) \o SplitLines(Last(SplitLines(x)) \o b)
<1> DEFINE P == Units \ {"n"}
           L == SplitLines(x)
           q == Last(L)
           c == q \o b
           all == x \o b
<1>1. /\ Len(x) \in Nat /\ DOMAIN x = 1..Len(x) /\ Len(b) \in Nat /\ DOMAIN b = 1..Len(b)
      /\ \A k \in 1..Len(b) : b[k] \in Units
  BY LenProperties, ElementOfSeq
<1>2. PICK e : IsRun("split", e, <<<<>>>>, x) /\ L = e[Len(x)]
  BY <1>1, SplitRuns
<1>3. L \in TextLines(Units)
  BY <1>1, <1>2, RunHasLines
<1> HIDE DEF L
<1>4. /\ L \in Seq(Seq(P)) /\ L # <<>> /\ Front(L) \in Seq(Seq(P)) /\ q \in Seq(P)
  <2>1. L \in Seq(Seq(P)) /\ L # <<>>
    BY <1>3 DEF TextLines
  <2> HIDE DEF P
  <2> QED
    BY <2>1, FrontIs
<1> HIDE DEF q
<1>5. q \in Seq(Units) /\ Len(q) \in Nat
  <2>1. P \subseteq Units
    OBVIOUS
  <2> HIDE DEF P
  <2> QED
    BY <1>4, <2>1, SeqMonotonic, LenProperties
<1>6. /\ c \in Seq(Units) /\ Len(c) = Len(q) + Len(b)
      /\ \A k \in 1..Len(q) + Len(b) : c[k] = IF k <= Len(q) THEN q[k] ELSE b[k - Len(q)]
  BY <1>5, ConcatProperties
<1>7. /\ all \in Seq(Units) /\ Len(all) = Len(x) + Len(b)
      /\ \A k \in 1..Len(x) + Len(b) : all[k] = IF k <= Len(x) THEN x[k] ELSE b[k - Len(x)]
  BY ConcatProperties
<1> HIDE DEF c, all
<1>8. /\ DOMAIN c = 1..Len(c) /\ Len(c) \in Nat
      /\ DOMAIN all = 1..Len(all) /\ Len(all) \in Nat
  BY <1>6, <1>7, LenProperties
<1>9. PICK f : IsRun("split", f, <<<<>>>>, c) /\ SplitLines(c) = f[Len(c)]
  BY <1>8, SplitRuns
<1>10. PICK g : IsRun("split", g, <<<<>>>>, all) /\ SplitLines(all) = g[Len(all)]
  BY <1>8, SplitRuns
<1>11. \A k \in 0..Len(c) : f[k] \in TextLines(Units)
  BY <1>6, <1>9, RunHasLines
<1>12. f[Len(q)] = <<q>>
  <2>1. Len(q) <= Len(c) /\ Len(c) \in Nat /\ \A k \in 1..Len(q) : c[k] = q[k]
    BY <1>1, <1>5, <1>6
  <2> QED
    BY <1>4, <1>9, <2>1, PlainLine DEF P
<1>13. g[Len(x)] = L
  <2> DEFINE S == {k \in Nat : k <= Len(x) => g[k] = e[k]}
  <2>1. 0 \in S
    BY <1>2, <1>10 DEF IsRun
  <2>2. ASSUME NEW k \in S PROVE k + 1 \in S
    <3> SUFFICES ASSUME k + 1 <= Len(x) PROVE g[k + 1] = e[k + 1]
      OBVIOUS
    <3>1. /\ k + 1 \in 1..Len(x) /\ k + 1 \in 1..Len(all) /\ (k + 1) - 1 = k /\ g[k] = e[k]
          /\ all[k + 1] = x[k + 1]
      BY <1>1, <1>7
    <3>2. /\ g[k + 1] = Folded("split", g[k], all[k + 1])
          /\ e[k + 1] = Folded("split", e[k], x[k + 1])
      BY <1>2, <1>10, <3>1 DEF IsRun
    <3> QED
      BY <3>1, <3>2
  <2>3. S = Nat
    <3>1. S \subseteq Nat
      OBVIOUS
    <3> HIDE DEF S
    <3> QED
      BY <2>1, <2>2, <3>1, Induction
  <2> QED
    BY <1>1, <1>2, <2>3
<1> DEFINE T == {k \in Nat : k <= Len(b) => g[Len(x) + k] = Front(L) \o f[Len(q) + k]}
<1>14. 0 \in T
  <2>1. L = Front(L) \o <<q>>
    <3> DEFINE one == <<q>>
               front == Front(L)
               sum == front \o one
    <3>1. /\ Len(L) \in Nat \ {0} /\ Len(front) = Len(L) - 1
          /\ \A k \in 1..Len(L) - 1 : front[k] = L[k]
          /\ q = L[Len(L)] /\ front \in Seq(Seq(P))
      <4> HIDE DEF P
      <4> QED
        BY <1>4, FrontIs DEF q
    <3> HIDE DEF front
    <3>2. one \in Seq(Seq(P)) /\ Len(one) = 1 /\ one[1] = q
      BY <1>4
    <3> HIDE DEF one
    <3>3. /\ sum \in Seq(Seq(P)) /\ Len(sum) = Len(front) + Len(one)
          /\ \A k \in 1..Len(front) + Len(one) :
               sum[k] = IF k <= Len(front) THEN front[k] ELSE one[k - Len(front)]
      <4> HIDE DEF P
      <4> QED
        BY <3>1, <3>2, ConcatProperties
    <3> HIDE DEF sum
    <3>4. Len(sum) = Len(L)
      BY <3>1, <3>2, <3>3
    <3>5. ASSUME NEW k \in 1..Len(L) PROVE L[k] = sum[k]
      <4>1. CASE k <= Len(L) - 1
        BY <3>1, <3>2, <3>3, <4>1
      <4>2. CASE ~(k <= Len(L) - 1)
        <5>1. k = Len(L) /\ k - Len(front) = 1
          BY <3>1, <4>2
        <5> QED
          BY <3>1, <3>2, <3>3, <5>1
      <4> QED
        BY <4>1, <4>2
    <3>6. L = sum
      <4> HIDE DEF P
      <4> QED
        BY <1>4, <3>3, <3>4, <3>5, SeqEqual
    <3> QED
      BY <3>6 DEF sum, one, front
  <2>2. Len(x) + 0 = Len(x) /\ Len(q) + 0 = Len(q)
    BY <1>1, <1>5
  <2> QED
    BY <1>12, <1>13, <2>1, <2>2
<1>15. ASSUME NEW k \in T PROVE k + 1 \in T
  <2> SUFFICES ASSUME k + 1 <= Len(b) PROVE g[Len(x) + (k + 1)] = Front(L) \o f[Len(q) + (k + 1)]
    OBVIOUS
  <2>1. /\ k \in Nat /\ k + 1 \in 1..Len(b)
        /\ Len(x) + (k + 1) \in 1..Len(all) /\ (Len(x) + (k + 1)) - 1 = Len(x) + k
        /\ Len(q) + (k + 1) \in 1..Len(c) /\ (Len(q) + (k + 1)) - 1 = Len(q) + k
        /\ Len(q) + k \in 0..Len(c)
        /\ g[Len(x) + k] = Front(L) \o f[Len(q) + k]
    <3>1. k \in Nat /\ k <= Len(b) /\ k + 1 <= Len(b)
      BY <1>1
    <3>2. g[Len(x) + k] = Front(L) \o f[Len(q) + k]
      BY <3>1
    <3> HIDE DEF T
    <3>3. /\ k + 1 \in 1..Len(b)
          /\ Len(x) + (k + 1) \in 1..Len(x) + Len(b) /\ (Len(x) + (k + 1)) - 1 = Len(x) + k
      BY <1>1, <3>1
    <3>4. /\ Len(q) + (k + 1) \in 1..Len(q) + Len(b) /\ (Len(q) + (k + 1)) - 1 = Len(q) + k
          /\ Len(q) + k \in 0..Len(q) + Len(b)
      BY <1>1, <1>5, <3>1
    <3> QED
      BY <1>6, <1>7, <3>1, <3>2, <3>3, <3>4
  <2>2. all[Len(x) + (k + 1)] = b[k + 1] /\ c[Len(q) + (k + 1)] = b[k + 1]
    <3>1. /\ ~(Len(x) + (k + 1) <= Len(x)) /\ (Len(x) + (k + 1)) - Len(x) = k + 1
          /\ ~(Len(q) + (k + 1) <= Len(q)) /\ (Len(q) + (k + 1)) - Len(q) = k + 1
      BY <1>1, <1>5, <2>1
    <3> QED
      BY <1>6, <1>7, <2>1, <3>1
  <2>3. /\ g[Len(x) + (k + 1)] = Folded("split", g[Len(x) + k], b[k + 1])
        /\ f[Len(q) + (k + 1)] = Folded("split", f[Len(q) + k], b[k + 1])
    BY <1>9, <1>10, <2>1, <2>2 DEF IsRun
  <2>4. /\ g[Len(x) + (k + 1)] = Broken(g[Len(x) + k], b[k + 1])
        /\ f[Len(q) + (k + 1)] = Broken(f[Len(q) + k], b[k + 1])
    BY <2>3 DEF Folded
  <2> HIDE DEF T
  <2>5. f[Len(q) + k] \in TextLines(Units) /\ b[k + 1] \in Units
    BY <1>1, <1>11, <2>1
  <2>6. g[Len(x) + (k + 1)] = Broken(Front(L) \o f[Len(q) + k], b[k + 1])
    BY <2>1, <2>4
  <2>7. Front(L) \in Seq(Seq(Units \ {"n"}))
    BY <1>4 DEF P
  <2>8. Broken(Front(L) \o f[Len(q) + k], b[k + 1]) = Front(L) \o Broken(f[Len(q) + k], b[k + 1])
    <3> DEFINE lines == f[Len(q) + k]
               unit == b[k + 1]
               front == Front(L)
    <3>1. lines \in TextLines(Units) /\ unit \in Units /\ front \in Seq(Seq(Units \ {"n"}))
      BY <2>5, <2>7
    <3> HIDE DEF lines, unit, front
    <3>2. Broken(front \o lines, unit) = front \o Broken(lines, unit)
      BY <3>1, BrokenFurther
    <3> QED
      BY <3>2 DEF lines, unit, front
  <2> QED
    BY <2>4, <2>6, <2>8
<1>16. T = Nat
  <2>1. T \subseteq Nat
    OBVIOUS
  <2> HIDE DEF T
  <2> QED
    BY <1>14, <1>15, <2>1, Induction
<1>17. g[Len(all)] = Front(L) \o f[Len(c)]
  <2>1. \A k \in T : k <= Len(b) => g[Len(x) + k] = Front(L) \o f[Len(q) + k]
    OBVIOUS
  <2> HIDE DEF T
  <2>2. g[Len(x) + Len(b)] = Front(L) \o f[Len(q) + Len(b)]
    BY <1>1, <1>16, <2>1
  <2> QED
    BY <1>6, <1>7, <2>2
<1>18. f[Len(c)] \in TextLines(Units)
  BY <1>8, <1>11
<1> QED
  BY <1>3, <1>9, <1>10, <1>17, <1>18 DEF L, c, q, all

\* What is folded with the numbers of the call that asks for the lines.
AskedFor(s, offset, limit, max) ==
  [k \in DOMAIN s |-> [line |-> s[k], offset |-> offset, limit |-> limit, max |-> max]]

LEMMA AskedIs ==
  ASSUME NEW s, Len(s) \in Nat, DOMAIN s = 1..Len(s), NEW offset, NEW limit, NEW max
  PROVE  LET asked == AskedFor(s, offset, limit, max)
         IN  /\ Len(asked) = Len(s) /\ DOMAIN asked = 1..Len(s)
             /\ \A k \in 1..Len(s) : asked[k] = [line |-> s[k], offset |-> offset, limit |-> limit, max |-> max]
<1> DEFINE N == Len(s)
           asked == AskedFor(s, offset, limit, max)
           E == {asked[k] : k \in 1..N}
<1>1. asked = [k \in 1..N |-> [line |-> s[k], offset |-> offset, limit |-> limit, max |-> max]]
  BY DEF AskedFor
<1>2. /\ DOMAIN asked = 1..N
      /\ \A k \in 1..N : asked[k] = [line |-> s[k], offset |-> offset, limit |-> limit, max |-> max]
  BY <1>1
<1>3. asked \in [1..N -> E]
  <2> HIDE DEF asked
  <2>1. asked = [k \in 1..N |-> asked[k]]
    BY <1>1, <1>2
  <2> QED
    BY <2>1
<1>4. Len(asked) = N
  <2> HIDE DEF asked, E, N
  <2>1. N \in Nat
    BY DEF N
  <2>2. asked \in Seq(E)
    BY <1>3, <2>1, SeqDef
  <2> QED
    BY <1>2, <2>1, <2>2, LenProperties
<1> QED
  BY <1>2, <1>4

\* accept of one line behind the other.
AcceptAll(got, lines, offset, limit, max) ==
  FoldLeft(LAMBDA g, line : Accept(g, line, offset, limit, max), got, lines)

AcceptRun(f, base, s, offset, limit, max) ==
  f[0] = base /\ \A k \in 1..Len(s) : f[k] = Accept(f[k - 1], s[k], offset, limit, max)

LEMMA AcceptRuns ==
  ASSUME NEW base, NEW s, Len(s) \in Nat, DOMAIN s = 1..Len(s), NEW offset, NEW limit, NEW max
  PROVE  \E f : /\ AcceptRun(f, base, s, offset, limit, max)
                /\ AcceptAll(base, s, offset, limit, max) = f[Len(s)]
<1> DEFINE N == Len(s)
           asked == AskedFor(s, offset, limit, max)
           Of(h, t) == IF t = {} THEN base
                       ELSE Accept(h[t \ {Max(t)}], s[Max(t)], offset, limit, max)
           chosen == CHOOSE h : h = [t \in SUBSET (1..N) |-> Of(h, t)]
<1>0. /\ Len(asked) = N /\ N \in Nat
      /\ \A k \in 1..N : asked[k] = [line |-> s[k], offset |-> offset, limit |-> limit, max |-> max]
  BY AskedIs
<1>1. \A h, t : t \in SUBSET (1..N) => Of(h, t) = FoldedSet("accept", h, base, asked, t)
  <2> SUFFICES ASSUME NEW h, NEW t \in SUBSET (1..N) PROVE Of(h, t) = FoldedSet("accept", h, base, asked, t)
    OBVIOUS
  <2>1. CASE t = {}
    BY <2>1 DEF FoldedSet
  <2>2. CASE t # {}
    <3>1. Max(t) \in 1..N
      BY <1>0, <2>2, MaxExists
    <3>2. asked[Max(t)] = [line |-> s[Max(t)], offset |-> offset, limit |-> limit, max |-> max]
      BY <1>0, <3>1
    <3>4. /\ asked[Max(t)].line = s[Max(t)] /\ asked[Max(t)].offset = offset
          /\ asked[Max(t)].limit = limit /\ asked[Max(t)].max = max
      BY <3>2
    <3> HIDE DEF asked
    <3>3. FoldedSet("accept", h, base, asked, t)
            = Accept(h[t \ {Max(t)}], asked[Max(t)].line, asked[Max(t)].offset, asked[Max(t)].limit,
                     asked[Max(t)].max)
      BY <2>2 DEF FoldedSet, Folded, Chosen, Element
    <3> QED
      BY <2>2, <3>3, <3>4
  <2> QED
    BY <2>1, <2>2
<1>2. AcceptAll(base, s, offset, limit, max) = chosen[1..N]
  BY DEF AcceptAll, FoldLeft, MapThenFoldSet
<1> HIDE DEF Of, asked, N
<1>3. \E h : h = [t \in SUBSET (1..N) |-> Of(h, t)]
  <2>1. PICK h : FoldsOn("accept", h, base, asked, SUBSET (1..Len(asked)))
    BY <1>0, SequenceFolds
  <2>2. h = [t \in SUBSET (1..N) |-> FoldedSet("accept", h, base, asked, t)]
    BY <1>0, <2>1 DEF FoldsOn
  <2>3. h = [t \in SUBSET (1..N) |-> Of(h, t)]
    BY <1>1, <2>2
  <2> QED
    BY <2>3
<1>4. chosen = [t \in SUBSET (1..N) |-> Of(chosen, t)]
  BY <1>3
<1> HIDE DEF chosen
<1>5. FoldsOn("accept", chosen, base, asked, SUBSET (1..Len(asked)))
  <2>1. chosen = [t \in SUBSET (1..N) |-> FoldedSet("accept", chosen, base, asked, t)]
    BY <1>1, <1>4
  <2> QED
    BY <1>0, <2>1 DEF FoldsOn
<1>6. PICK f : IsRun("accept", f, base, asked) /\ f[N] = chosen[1..N]
  BY <1>0, <1>5, FoldRuns
<1>7. ASSUME NEW k \in 1..N PROVE f[k] = Accept(f[k - 1], s[k], offset, limit, max)
  <2>1. f[k] = Folded("accept", f[k - 1], asked[k])
    BY <1>0, <1>6 DEF IsRun
  <2>2. f[k] = Accept(f[k - 1], asked[k].line, asked[k].offset, asked[k].limit, asked[k].max)
    BY <2>1 DEF Folded
  <2> QED
    BY <1>0, <2>2
<1> QED
  BY <1>2, <1>6, <1>7 DEF IsRun, AcceptRun, N

\* consume of one chunk behind the other.
ConsumeAll(got, chunks, offset, limit, max) ==
  FoldLeft(LAMBDA g, chunk : Consume(g, chunk, offset, limit, max), got, chunks)

ConsumeRun(f, base, s, offset, limit, max) ==
  f[0] = base /\ \A k \in 1..Len(s) : f[k] = Consume(f[k - 1], s[k], offset, limit, max)

LEMMA ConsumeRuns ==
  ASSUME NEW base, NEW s, Len(s) \in Nat, DOMAIN s = 1..Len(s), NEW offset, NEW limit, NEW max
  PROVE  \E f : /\ ConsumeRun(f, base, s, offset, limit, max)
                /\ ConsumeAll(base, s, offset, limit, max) = f[Len(s)]
<1> DEFINE N == Len(s)
           asked == AskedFor(s, offset, limit, max)
           Of(h, t) == IF t = {} THEN base
                       ELSE Consume(h[t \ {Max(t)}], s[Max(t)], offset, limit, max)
           chosen == CHOOSE h : h = [t \in SUBSET (1..N) |-> Of(h, t)]
<1>0. /\ Len(asked) = N /\ N \in Nat
      /\ \A k \in 1..N : asked[k] = [line |-> s[k], offset |-> offset, limit |-> limit, max |-> max]
  BY AskedIs
<1>1. \A h, t : t \in SUBSET (1..N) => Of(h, t) = FoldedSet("consume", h, base, asked, t)
  <2> SUFFICES ASSUME NEW h, NEW t \in SUBSET (1..N) PROVE Of(h, t) = FoldedSet("consume", h, base, asked, t)
    OBVIOUS
  <2>1. CASE t = {}
    BY <2>1 DEF FoldedSet
  <2>2. CASE t # {}
    <3>1. Max(t) \in 1..N
      BY <1>0, <2>2, MaxExists
    <3>2. asked[Max(t)] = [line |-> s[Max(t)], offset |-> offset, limit |-> limit, max |-> max]
      BY <1>0, <3>1
    <3>4. /\ asked[Max(t)].line = s[Max(t)] /\ asked[Max(t)].offset = offset
          /\ asked[Max(t)].limit = limit /\ asked[Max(t)].max = max
      BY <3>2
    <3> HIDE DEF asked
    <3>3. FoldedSet("consume", h, base, asked, t)
            = Consume(h[t \ {Max(t)}], asked[Max(t)].line, asked[Max(t)].offset, asked[Max(t)].limit,
                     asked[Max(t)].max)
      BY <2>2 DEF FoldedSet, Folded, Chosen, Element
    <3> QED
      BY <2>2, <3>3, <3>4
  <2> QED
    BY <2>1, <2>2
<1>2. ConsumeAll(base, s, offset, limit, max) = chosen[1..N]
  BY DEF ConsumeAll, FoldLeft, MapThenFoldSet
<1> HIDE DEF Of, asked, N
<1>3. \E h : h = [t \in SUBSET (1..N) |-> Of(h, t)]
  <2>1. PICK h : FoldsOn("consume", h, base, asked, SUBSET (1..Len(asked)))
    BY <1>0, SequenceFolds
  <2>2. h = [t \in SUBSET (1..N) |-> FoldedSet("consume", h, base, asked, t)]
    BY <1>0, <2>1 DEF FoldsOn
  <2>3. h = [t \in SUBSET (1..N) |-> Of(h, t)]
    BY <1>1, <2>2
  <2> QED
    BY <2>3
<1>4. chosen = [t \in SUBSET (1..N) |-> Of(chosen, t)]
  BY <1>3
<1> HIDE DEF chosen
<1>5. FoldsOn("consume", chosen, base, asked, SUBSET (1..Len(asked)))
  <2>1. chosen = [t \in SUBSET (1..N) |-> FoldedSet("consume", chosen, base, asked, t)]
    BY <1>1, <1>4
  <2> QED
    BY <1>0, <2>1 DEF FoldsOn
<1>6. PICK f : IsRun("consume", f, base, asked) /\ f[N] = chosen[1..N]
  BY <1>0, <1>5, FoldRuns
<1>7. ASSUME NEW k \in 1..N PROVE f[k] = Consume(f[k - 1], s[k], offset, limit, max)
  <2>1. f[k] = Folded("consume", f[k - 1], asked[k])
    BY <1>0, <1>6 DEF IsRun
  <2>2. f[k] = Consume(f[k - 1], asked[k].line, asked[k].offset, asked[k].limit, asked[k].max)
    BY <2>1 DEF Folded
  <2> QED
    BY <1>0, <2>2
<1> QED
  BY <1>2, <1>6, <1>7 DEF IsRun, ConsumeRun, N

-----------------------------------------------------------------------------

\* How many of n lines are those asked for, which they are, and a reader that has
\* seen them.
Taken(n, offset, limit) ==
  IF n < offset THEN 0 ELSE IF n - offset + 1 < limit THEN n - offset + 1 ELSE limit
Picked(lines, offset, limit, max) ==
  [i \in 1..Taken(Len(lines), offset, limit) |-> Clip(WithoutReturn(lines[offset + i - 1]), max)]
Reader(pending, lines, offset, limit, max) ==
  [pending |-> pending, total |-> Len(lines), selected |-> Picked(lines, offset, limit, max)]

\* What is picked is a sequence.
LEMMA PickedIs ==
  ASSUME NEW lines, Len(lines) \in Nat, NEW offset \in Nat \ {0}, NEW limit \in Nat, NEW max
  PROVE  LET n == Taken(Len(lines), offset, limit)
             picked == Picked(lines, offset, limit, max)
         IN  /\ n \in Nat /\ Len(picked) = n
             /\ \A E : (\A i \in 1..n : Clip(WithoutReturn(lines[offset + i - 1]), max) \in E) => picked \in Seq(E)
<1> DEFINE n == Taken(Len(lines), offset, limit)
           picked == Picked(lines, offset, limit, max)
           shown(i) == Clip(WithoutReturn(lines[offset + i - 1]), max)
<1>1. n \in Nat
  BY DEF Taken
<1>2. picked = [i \in 1..n |-> shown(i)]
  BY DEF Picked
<1> HIDE DEF n, shown, picked
<1>3. \A E : (\A i \in 1..n : shown(i) \in E) => picked \in Seq(E)
  <2> SUFFICES ASSUME NEW E, \A i \in 1..n : shown(i) \in E PROVE picked \in Seq(E)
    OBVIOUS
  <2>1. picked \in [1..n -> E]
    BY <1>2
  <2> QED
    BY <1>1, <2>1, SeqDef
<1>4. Len(picked) = n
  <2> DEFINE E == {shown(i) : i \in 1..n}
  <2>1. picked \in Seq(E)
    BY <1>3
  <2>2. DOMAIN picked = 1..n
    BY <1>2
  <2> HIDE DEF E
  <2> QED
    BY <1>1, <2>1, <2>2, LenProperties
<1> QED
  BY <1>1, <1>3, <1>4 DEF n, shown, picked

\* accept of one more line.
LEMMA AcceptIs ==
  ASSUME NEW P, NEW lines \in Seq(P), NEW line \in P, NEW pending,
         NEW offset \in Nat \ {0}, NEW limit \in Nat, NEW max
  PROVE  Accept(Reader(pending, lines, offset, limit, max), line, offset, limit, max)
           = Reader(pending, Append(lines, line), offset, limit, max)
<1> DEFINE more == Append(lines, line)
           n == Len(lines)
           t == Taken(n, offset, limit)
           u == Taken(n + 1, offset, limit)
           shown(l) == Clip(WithoutReturn(l), max)
           E == {shown(l) : l \in P}
           picked == Picked(lines, offset, limit, max)
           further == Picked(more, offset, limit, max)
<1>1. /\ n \in Nat /\ more \in Seq(P) /\ Len(more) = n + 1 /\ more[n + 1] = line
      /\ \A k \in 1..n : more[k] = lines[k]
      /\ \A k \in 1..n : lines[k] \in P
  BY LenProperties, AppendProperties, ElementOfSeq
<1> HIDE DEF more, n
<1>2. /\ t \in Nat /\ u \in Nat
      /\ \A i \in 1..t : offset + i - 1 \in 1..n
      /\ \A i \in 1..u : offset + i - 1 \in 1..n + 1
      /\ IF n + 1 >= offset /\ t < limit THEN u = t + 1 /\ offset + u - 1 = n + 1 ELSE u = t
  BY <1>1 DEF Taken
<1>3. /\ picked = [i \in 1..t |-> shown(lines[offset + i - 1])]
      /\ further = [i \in 1..u |-> shown(more[offset + i - 1])]
  BY <1>1 DEF Picked, n
<1> HIDE DEF t, u
<1>4. /\ picked \in Seq(E) /\ Len(picked) = t
      /\ further \in Seq(E) /\ Len(further) = u
  <2>1. /\ \A i \in 1..t : lines[offset + i - 1] \in P
        /\ \A i \in 1..u : more[offset + i - 1] \in P
    <3>1. \A k \in 1..n + 1 : more[k] \in P
      BY <1>1, ElementOfSeq
    <3> QED
      BY <1>1, <1>2, <3>1
  <2>2. /\ \A i \in 1..t : shown(lines[offset + i - 1]) \in E
        /\ \A i \in 1..u : shown(more[offset + i - 1]) \in E
    BY <2>1
  <2> HIDE DEF E, picked, further
  <2>3. Len(lines) \in Nat /\ Len(more) \in Nat /\ t = Taken(Len(lines), offset, limit) /\ u = Taken(Len(more), offset, limit)
    BY <1>1 DEF t, u, n
  <2> QED
    BY <2>2, <2>3, PickedIs DEF picked, further
<1>5. Accept(Reader(pending, lines, offset, limit, max), line, offset, limit, max)
        = [pending |-> pending, total |-> n + 1,
           selected |-> IF n + 1 >= offset /\ t < limit THEN Append(picked, shown(line)) ELSE picked]
  <2>1. \A p, m, s : Accept([pending |-> p, total |-> m, selected |-> s], line, offset, limit, max)
                      = [pending |-> p, total |-> m + 1,
                         selected |-> IF m + 1 >= offset /\ Len(s) < limit
                                      THEN Append(s, shown(line)) ELSE s]
    <3> SUFFICES ASSUME NEW p, NEW m, NEW s
                 PROVE  Accept([pending |-> p, total |-> m, selected |-> s], line, offset, limit, max)
                          = [pending |-> p, total |-> m + 1,
                             selected |-> IF m + 1 >= offset /\ Len(s) < limit
                                          THEN Append(s, shown(line)) ELSE s]
      OBVIOUS
    <3> DEFINE old == [pending |-> p, total |-> m, selected |-> s]
               counted == [old EXCEPT !.total = old.total + 1]
               kept == IF m + 1 >= offset /\ Len(s) < limit THEN Append(s, shown(line)) ELSE s
    <3>1. old.total = m /\ old.selected = s
      OBVIOUS
    <3>2. counted = [pending |-> p, total |-> m + 1, selected |-> s]
      OBVIOUS
    <3> HIDE DEF old
    <3>3. Accept(old, line, offset, limit, max)
            = [counted EXCEPT !.selected = IF old.total + 1 >= offset /\ Len(counted.selected) < limit
                                           THEN Append(counted.selected, shown(line))
                                           ELSE counted.selected]
      BY DEF Accept
    <3> HIDE DEF counted, shown
    <3>4. counted.selected = s
      BY <3>2
    <3>5. Accept(old, line, offset, limit, max) = [counted EXCEPT !.selected = kept]
      BY <3>1, <3>3, <3>4
    <3> HIDE DEF kept
    <3>6. [counted EXCEPT !.selected = kept] = [pending |-> p, total |-> m + 1, selected |-> kept]
      BY <3>2
    <3> QED
      BY <3>5, <3>6 DEF old, kept
  <2>2. Reader(pending, lines, offset, limit, max) = [pending |-> pending, total |-> n, selected |-> picked]
    BY DEF Reader, n
  <2> HIDE DEF shown, picked
  <2> QED
    BY <1>4, <2>1, <2>2
<1>6. Reader(pending, more, offset, limit, max) = [pending |-> pending, total |-> n + 1, selected |-> further]
  BY <1>1 DEF Reader
<1>7. shown(line) \in E
  OBVIOUS
<1> HIDE DEF E, shown
<1>8. CASE n + 1 >= offset /\ t < limit
  <2> DEFINE one == Append(picked, shown(line))
  <2>1. /\ one \in Seq(E) /\ Len(one) = t + 1 /\ one[t + 1] = shown(line)
        /\ \A i \in 1..t : one[i] = picked[i]
    <3> HIDE DEF picked
    <3> QED
      BY <1>4, <1>7, AppendProperties
  <2> HIDE DEF one
  <2>2. ASSUME NEW i \in 1..u PROVE further[i] = one[i]
    <3>1. further[i] = shown(more[offset + i - 1])
      BY <1>3
    <3>2. CASE i <= t
      <4>1. i \in 1..t /\ picked[i] = shown(lines[offset + i - 1]) /\ more[offset + i - 1] = lines[offset + i - 1]
        <5>1. i \in 1..t
          BY <1>2, <3>2
        <5>2. picked[i] = shown(lines[offset + i - 1])
          BY <1>3, <5>1
        <5>3. offset + i - 1 \in 1..n
          BY <1>2, <5>1
        <5> HIDE DEF picked
        <5> QED
          BY <1>1, <5>1, <5>2, <5>3
      <4> HIDE DEF picked
      <4> QED
        BY <2>1, <3>1, <4>1
    <3>3. CASE ~(i <= t)
      <4>1. i = t + 1 /\ offset + i - 1 = n + 1
        BY <1>2, <1>8, <3>3
      <4> QED
        BY <1>1, <2>1, <3>1, <4>1
    <3> QED
      BY <1>2, <3>2, <3>3
  <2>3. further = one
    <3> HIDE DEF further
    <3> QED
      BY <1>2, <1>4, <1>8, <2>1, <2>2, SeqEqual
  <2> QED
    BY <1>5, <1>6, <1>8, <2>3 DEF more, one
<1>9. CASE ~(n + 1 >= offset /\ t < limit)
  <2>1. u = t
    BY <1>2, <1>9
  <2>2. \A i \in 1..t : more[offset + i - 1] = lines[offset + i - 1]
    BY <1>1, <1>2
  <2>3. further = picked
    BY <1>3, <2>1, <2>2
  <2> HIDE DEF further, picked
  <2> QED
    BY <1>5, <1>6, <1>9, <2>3 DEF more
<1> QED
  BY <1>8, <1>9

\* accept of several.
LEMMA AllAccepted ==
  ASSUME NEW P, NEW before \in Seq(P), NEW lines \in Seq(P), NEW pending,
         NEW offset \in Nat \ {0}, NEW limit \in Nat, NEW max
  PROVE  AcceptAll(Reader(pending, before, offset, limit, max), lines, offset, limit, max)
           = Reader(pending, before \o lines, offset, limit, max)
<1> DEFINE upTo(k) == before \o SubSeq(lines, 1, k)
           seen(s) == Reader(pending, s, offset, limit, max)
<1>1. Len(lines) \in Nat /\ DOMAIN lines = 1..Len(lines) /\ \A k \in 1..Len(lines) : lines[k] \in P
  BY LenProperties, ElementOfSeq
<1>2. PICK f : /\ AcceptRun(f, seen(before), lines, offset, limit, max)
               /\ AcceptAll(seen(before), lines, offset, limit, max) = f[Len(lines)]
  <2> DEFINE base == seen(before)
  <2> HIDE DEF base
  <2>1. \E f : /\ AcceptRun(f, base, lines, offset, limit, max)
               /\ AcceptAll(base, lines, offset, limit, max) = f[Len(lines)]
    <3>1. PICK all : all = AcceptAll(base, lines, offset, limit, max)
      OBVIOUS
    <3> QED
      BY <1>1, <3>1, AcceptRuns
  <2> QED
    BY <2>1 DEF base
<1> DEFINE S == {k \in Nat : k <= Len(lines) => f[k] = seen(upTo(k))}
<1>3. 0 \in S
  <2>1. upTo(0) = before
    BY SubSeqEmpty, ConcatEmptySeq
  <2> HIDE DEF upTo, seen
  <2> QED
    BY <1>2, <2>1 DEF AcceptRun
<1>4. ASSUME NEW k \in S PROVE k + 1 \in S
  <2> SUFFICES ASSUME k + 1 <= Len(lines) PROVE f[k + 1] = seen(upTo(k + 1))
    OBVIOUS
  <2>1. k \in Nat /\ k <= Len(lines) /\ k + 1 \in 1..Len(lines) /\ (k + 1) - 1 = k
    BY <1>1
  <2>2. f[k] = seen(upTo(k))
    BY <2>1
  <2> HIDE DEF seen, S
  <2>3. f[k + 1] = Accept(f[k], lines[k + 1], offset, limit, max)
    BY <1>2, <2>1 DEF AcceptRun
  <2> DEFINE some == SubSeq(lines, 1, k)
             next == lines[k + 1]
             one == <<next>>
  <2>4. some \in Seq(P) /\ next \in P /\ one \in Seq(P)
    <3>1. 1 \in Int /\ k \in Int /\ \A i \in 1..k : lines[i] \in P
      BY <1>1, <2>1
    <3>2. some \in Seq(P)
      BY <3>1, SubSeqProperties
    <3>3. next \in P
      BY <1>1, <2>1
    <3> QED
      BY <3>2, <3>3
  <2>5. SubSeq(lines, 1, k + 1) = some \o one
    <3>1. 1 \in 1..Len(lines) /\ k + 1 \in 1..Len(lines)
      BY <1>1, <2>1
    <3>2. SubSeq(lines, 1, k + 1) = SubSeq(lines, 1, (k + 1) - 1) \o <<lines[k + 1]>>
      BY <3>1, SubSeqRecursiveSecond
    <3> QED
      BY <2>1, <3>2
  <2> HIDE DEF some, next
  <2>6. before \o some \in Seq(P)
    BY <2>4, ConcatProperties
  <2>7. Append(before \o some, next) = (before \o some) \o one
    BY <2>4, <2>6, AppendIsConcat
  <2> HIDE DEF one
  <2>8. (before \o some) \o one = before \o (some \o one)
    BY <2>4, ConcatAssociative
  <2>9. upTo(k) = before \o some /\ upTo(k + 1) = Append(before \o some, next)
    BY <2>5, <2>7, <2>8 DEF some
  <2>10. Accept(seen(before \o some), next, offset, limit, max) = seen(Append(before \o some, next))
    <3> DEFINE two == before \o some
    <3> HIDE DEF two
    <3>1. two \in Seq(P)
      BY <2>6 DEF two
    <3>2. Accept(seen(two), next, offset, limit, max) = seen(Append(two, next))
      BY <2>4, <3>1, AcceptIs DEF seen
    <3> QED
      BY <3>2 DEF two
  <2> HIDE DEF upTo
  <2> QED
    BY <2>2, <2>3, <2>9, <2>10 DEF next
<1>5. S = Nat
  <2>1. S \subseteq Nat
    OBVIOUS
  <2> HIDE DEF S
  <2> QED
    BY <1>3, <1>4, <2>1, Induction
<1>6. f[Len(lines)] = seen(upTo(Len(lines)))
  <2> HIDE DEF seen, upTo
  <2> QED
    BY <1>1, <1>5
<1>7. upTo(Len(lines)) = before \o lines
  BY SubSeqFull
<1> HIDE DEF upTo
<1> QED
  BY <1>2, <1>6, <1>7

\* The reader that has seen a text.
Read(text, offset, limit, max) ==
  Reader(Last(SplitLines(text)), Front(SplitLines(text)), offset, limit, max)

\* consume of a chunk, wherever the text before it ends.
LEMMA ConsumeIs ==
  ASSUME NEW Units, NEW text \in Seq(Units), NEW chunk \in Seq(Units),
         NEW offset \in Nat \ {0}, NEW limit \in Nat, NEW max
  PROVE  Consume(Read(text, offset, limit, max), chunk, offset, limit, max)
           = Read(text \o chunk, offset, limit, max)
<1> DEFINE P == Seq(Units \ {"n"})
           old == SplitLines(text)
           new == SplitLines(Last(old) \o chunk)
           got == Read(text, offset, limit, max)
<1>1. /\ old \in TextLines(Units) /\ new \in TextLines(Units)
      /\ SplitLines(text \o chunk) = Front(old) \o new
  BY SplitOfConcat
<1>2. /\ old \in Seq(P) /\ old # <<>> /\ new \in Seq(P) /\ new # <<>>
  BY <1>1 DEF TextLines
<1> HIDE DEF P
<1>3. Front(old) \in Seq(P) /\ Front(new) \in Seq(P)
  <2> HIDE DEF old, new
  <2> QED
    BY <1>2, FrontIs
<1>4. /\ Front(Front(old) \o new) = Front(old) \o Front(new)
      /\ Last(Front(old) \o new) = Last(new)
  <2> DEFINE front == Front(old)
  <2>1. front \in Seq(P)
    BY <1>3
  <2> HIDE DEF front, new
  <2>2. Front(front \o new) = front \o Front(new) /\ Last(front \o new) = Last(new)
    BY <1>2, <2>1, BrokenBehind
  <2> QED
    BY <2>2 DEF front
<1>5. got = Reader(Last(old), Front(old), offset, limit, max)
  BY DEF Read
<1>6. Read(text \o chunk, offset, limit, max) = Reader(Last(new), Front(old) \o Front(new), offset, limit, max)
  BY <1>1, <1>4 DEF Read
<1> HIDE DEF old, got
<1>7. got.pending = Last(old)
  BY <1>5 DEF Reader
<1>8. Consume(got, chunk, offset, limit, max)
        = AcceptAll([got EXCEPT !.pending = Last(new)], Front(new), offset, limit, max)
  <2>1. new = SplitLines(got.pending \o chunk)
    BY <1>7
  <2> HIDE DEF new
  <2> QED
    BY <2>1 DEF Consume, AcceptAll
<1> HIDE DEF new
<1>9. [got EXCEPT !.pending = Last(new)] = Reader(Last(new), Front(old), offset, limit, max)
  <2> DEFINE last == Last(new)
             front == Front(old)
             picked == Picked(front, offset, limit, max)
  <2>1. got = [pending |-> Last(old), total |-> Len(front), selected |-> picked]
    BY <1>5 DEF Reader
  <2>2. Reader(last, front, offset, limit, max) = [pending |-> last, total |-> Len(front), selected |-> picked]
    BY DEF Reader
  <2> HIDE DEF last, picked, front
  <2>3. [got EXCEPT !.pending = last] = [pending |-> last, total |-> Len(front), selected |-> picked]
    BY <2>1
  <2> QED
    BY <2>2, <2>3 DEF last, front
<1>10. AcceptAll(Reader(Last(new), Front(old), offset, limit, max), Front(new), offset, limit, max)
         = Reader(Last(new), Front(old) \o Front(new), offset, limit, max)
  <2> DEFINE front == Front(old)
             rest == Front(new)
             last == Last(new)
  <2>1. front \in Seq(P) /\ rest \in Seq(P)
    BY <1>3
  <2> HIDE DEF front, rest, last
  <2>2. AcceptAll(Reader(last, front, offset, limit, max), rest, offset, limit, max)
          = Reader(last, front \o rest, offset, limit, max)
    BY <2>1, AllAccepted
  <2> QED
    BY <2>2 DEF front, rest, last
<1> QED
  BY <1>6, <1>8, <1>9, <1>10 DEF got

\* The chunks in one.
LEMMA FlattenRuns ==
  ASSUME NEW Units, NEW chunks \in Seq(Seq(Units))
  PROVE  \E h : /\ h[0] = <<>>
                /\ \A k \in 1..Len(chunks) : h[k] = h[k - 1] \o chunks[k]
                /\ FlattenSeq(chunks) = h[Len(chunks)]
<1> DEFINE N == Len(chunks)
           P == Seq(Units)
           Of(g, k) == IF k = 1 THEN chunks[k] ELSE g[k - 1] \o chunks[k]
           T == {n \in Nat : \E g : g = [k \in 1..n |-> Of(g, k)]}
           flat == CHOOSE g : g = [k \in 1..N |-> Of(g, k)]
           h == [k \in 0..N |-> IF k = 0 THEN <<>> ELSE flat[k]]
<1>1. N \in Nat /\ \A k \in 1..N : chunks[k] \in P
  BY LenProperties, ElementOfSeq
<1>2. 0 \in T
  <2> DEFINE g == [k \in 1..0 |-> <<>>]
  <2>1. g = [k \in 1..0 |-> Of(g, k)]
    OBVIOUS
  <2> HIDE DEF g, Of
  <2> QED
    BY <2>1
<1>3. ASSUME NEW n \in T PROVE n + 1 \in T
  <2>1. n \in Nat
    OBVIOUS
  <2>2. PICK g : g = [k \in 1..n |-> Of(g, k)]
    OBVIOUS
  <2> DEFINE more == [k \in 1..n + 1 |-> IF k <= n THEN g[k] ELSE Of(g, k)]
  <2>3. ASSUME NEW k \in 1..n + 1 PROVE more[k] = Of(more, k)
    <3>1. CASE k <= n
      <4>1. k \in 1..n /\ more[k] = g[k] /\ (k # 1 => k - 1 \in 1..n + 1 /\ k - 1 <= n)
        BY <2>1, <3>1
      <4>2. g[k] = Of(g, k)
        BY <2>2, <4>1
      <4>3. k # 1 => more[k - 1] = g[k - 1]
        BY <4>1
      <4> HIDE DEF more
      <4> QED
        BY <4>1, <4>2, <4>3
    <3>2. CASE ~(k <= n)
      <4>1. more[k] = Of(g, k) /\ (k # 1 => k - 1 \in 1..n + 1 /\ k - 1 <= n)
        BY <2>1, <3>2
      <4>2. k # 1 => more[k - 1] = g[k - 1]
        BY <4>1
      <4> HIDE DEF more
      <4> QED
        BY <4>1, <4>2
    <3> QED
      BY <3>1, <3>2
  <2>4. more = [k \in 1..n + 1 |-> more[k]]
    OBVIOUS
  <2> HIDE DEF more, Of
  <2>5. more = [k \in 1..n + 1 |-> Of(more, k)]
    BY <2>3, <2>4
  <2> QED
    BY <2>1, <2>5
<1> HIDE DEF T
<1>4. T = Nat
  <2>1. T \subseteq Nat
    BY DEF T
  <2> QED
    BY <1>2, <1>3, <2>1, Induction
<1>5. \E g : g = [k \in 1..N |-> Of(g, k)]
  <2> HIDE DEF Of
  <2> QED
    BY <1>1, <1>4 DEF T
<1>6. flat = [k \in 1..N |-> Of(flat, k)]
  <2> HIDE DEF Of
  <2> QED
    BY <1>5
<1>7. FlattenSeq(chunks) = IF N = 0 THEN chunks ELSE flat[N]
  BY DEF FlattenSeq
<1> HIDE DEF flat
<1>8. h[0] = <<>> /\ \A k \in 1..N : h[k] = flat[k]
  BY <1>1
<1>9. FlattenSeq(chunks) = h[N]
  <2>1. CASE N = 0
    <3>1. chunks = <<>>
      BY <2>1, EmptySeq
    <3> QED
      BY <1>7, <1>8, <2>1, <3>1
  <2>2. CASE N # 0
    BY <1>1, <1>7, <1>8, <2>2
  <2> QED
    BY <2>1, <2>2
<1> HIDE DEF h
<1>10. ASSUME NEW k \in 1..N PROVE h[k] = h[k - 1] \o chunks[k]
  <2>1. flat[k] = Of(flat, k)
    BY <1>6
  <2>2. CASE k = 1
    <3> DEFINE c == chunks[k]
    <3>1. c \in P
      BY <1>1
    <3> HIDE DEF c
    <3>2. <<>> \o c = c
      BY <3>1, ConcatEmptySeq
    <3>3. h[k - 1] = <<>> /\ h[k] = c
      BY <1>8, <2>1, <2>2 DEF c
    <3> QED
      BY <3>2, <3>3 DEF c
  <2>3. CASE k # 1
    <3>1. k - 1 \in 1..N
      BY <1>1, <2>3
    <3> QED
      BY <1>8, <2>1, <2>3, <3>1
  <2> QED
    BY <2>2, <2>3
<1> QED
  BY <1>8, <1>9, <1>10 DEF N

\* Before the first chunk.
LEMMA NothingRead ==
  ASSUME NEW offset \in Nat \ {0}, NEW limit \in Nat, NEW max
  PROVE  Read(<<>>, offset, limit, max) = [pending |-> <<>>, total |-> 0, selected |-> <<>>]
<1> DEFINE none == <<>>
           one == <<none>>
<1>1. SplitLines(<<>>) = one
  <2>1. Len(<<>>) = 0 /\ DOMAIN <<>> = 1..0
    OBVIOUS
  <2>2. PICK f : IsRun("split", f, <<<<>>>>, <<>>) /\ SplitLines(<<>>) = f[Len(<<>>)]
    BY <2>1, SplitRuns
  <2> QED
    BY <2>1, <2>2 DEF IsRun
<1>2. Front(one) = <<>> /\ Last(one) = none
  <2> HIDE DEF none
  <2>1. Len(one) = 1 /\ one[1] = none
    OBVIOUS
  <2> HIDE DEF one
  <2>2. Front(one) = SubSeq(one, 1, 0)
    BY <2>1 DEF Front
  <2> QED
    BY <2>1, <2>2, SubSeqEmpty DEF Last
<1>3. Picked(<<>>, offset, limit, max) = <<>>
  <2>1. Taken(Len(<<>>), offset, limit) = 0
    BY DEF Taken
  <2>2. Len(Picked(<<>>, offset, limit, max)) = 0 /\ Picked(<<>>, offset, limit, max) \in Seq({})
    BY <2>1, PickedIs
  <2> HIDE DEF Picked
  <2> QED
    BY <2>2, EmptySeq
<1>4. Len(<<>>) = 0
  OBVIOUS
<1> HIDE DEF one
<1> QED
  BY <1>1, <1>2, <1>3, <1>4 DEF Read, Reader, none

\* A sequence is what stands before its last element, and that.
LEMMA FrontThenLast ==
  ASSUME NEW S, NEW s \in Seq(S), s # <<>>
  PROVE  Append(Front(s), Last(s)) = s
<1> DEFINE front == Front(s)
           last == Last(s)
           sum == Append(front, last)
<1>1. /\ Len(s) \in Nat \ {0} /\ Len(front) = Len(s) - 1
      /\ \A k \in 1..Len(s) - 1 : front[k] = s[k]
      /\ last = s[Len(s)] /\ last \in S /\ front \in Seq(S)
  BY FrontIs
<1> HIDE DEF front, last
<1>2. /\ sum \in Seq(S) /\ Len(sum) = Len(front) + 1 /\ sum[Len(front) + 1] = last
      /\ \A k \in 1..Len(front) : sum[k] = front[k]
  BY <1>1, AppendProperties
<1> HIDE DEF sum
<1>3. Len(sum) = Len(s)
  BY <1>1, <1>2
<1>4. ASSUME NEW k \in 1..Len(s) PROVE sum[k] = s[k]
  <2>1. CASE k <= Len(s) - 1
    BY <1>1, <1>2, <2>1
  <2>2. CASE ~(k <= Len(s) - 1)
    <3>1. k = Len(s) /\ k = Len(front) + 1
      BY <1>1, <2>2
    <3> QED
      BY <1>1, <1>2, <3>1
  <2> QED
    BY <2>1, <2>2
<1>5. sum = s
  BY <1>2, <1>3, <1>4, SeqEqual
<1> QED
  BY <1>5 DEF sum, front, last

\* How long the part asked for is.
LEMMA TakenIs ==
  ASSUME NEW lines, Len(lines) \in Nat, NEW offset \in Nat \ {0}, NEW limit \in Nat
  PROVE  Len(SubSeq(lines, offset, Min({offset + limit - 1, Len(lines)}))) = Taken(Len(lines), offset, limit)
<1> DEFINE n == Len(lines)
           a == offset + limit - 1
           m == Min({a, n})
<1>1. a \in Nat /\ n \in Nat
  OBVIOUS
<1>2. m = IF a <= n THEN a ELSE n
  <2> HIDE DEF a, n
  <2>1. \E x \in {a, n} : \A y \in {a, n} : x <= y
    BY <1>1
  <2>2. m \in {a, n} /\ m <= a /\ m <= n
    BY <2>1 DEF Min
  <2> QED
    BY <1>1, <2>2
<1> HIDE DEF m
<1>3. Len(SubSeq(lines, offset, m)) = IF offset <= m THEN m - offset + 1 ELSE 0
  <2> DEFINE E == {lines[i] : i \in offset..m}
  <2>1. m \in Int /\ offset \in Int /\ \A i \in offset..m : lines[i] \in E
    BY <1>1, <1>2
  <2> HIDE DEF E
  <2> QED
    BY <2>1, SubSeqProperties
<1> HIDE DEF n
<1>4. (IF offset <= m THEN m - offset + 1 ELSE 0) = Taken(n, offset, limit)
  BY <1>1, <1>2 DEF Taken
<1>5. Len(SubSeq(lines, offset, m)) = Taken(n, offset, limit)
  BY <1>3, <1>4
<1> QED
  BY <1>5 DEF m, n

\* A stored result that is read by lines gives the lines asked for, each of them
\* clipped, and how many there are, whatever chunks its bytes come in, also when a
\* chunk ends within a line or brings none (readRange of result-expand.ts).
THEOREM ChunksDoNotMatter ==
  ASSUME NEW Units, NEW chunks \in Seq(Seq(Units)),
         NEW offset \in Nat \ {0}, NEW limit \in Nat, NEW max
  PROVE  RangeIsRight(chunks, offset, limit, max)
<1> DEFINE P == Seq(Units \ {"n"})
           text == FlattenSeq(chunks)
           split == SplitLines(text)
           lines == IF Last(split) = <<>> THEN Front(split) ELSE split
           read == ReadRange(chunks, offset, limit, max)
           base == [pending |-> <<>>, total |-> 0, selected |-> <<>>]
           seen(s) == Read(s, offset, limit, max)
           shown(i) == Clip(WithoutReturn(lines[offset + i - 1]), max)
<1>1. /\ Len(chunks) \in Nat /\ DOMAIN chunks = 1..Len(chunks)
      /\ \A k \in 1..Len(chunks) : chunks[k] \in Seq(Units)
  BY LenProperties, ElementOfSeq
<1>2. PICK h : /\ h[0] = <<>>
               /\ \A k \in 1..Len(chunks) : h[k] = h[k - 1] \o chunks[k]
               /\ text = h[Len(chunks)]
  BY FlattenRuns
<1> HIDE DEF text, seen, base
<1>3. PICK f : /\ ConsumeRun(f, base, chunks, offset, limit, max)
               /\ ConsumeAll(base, chunks, offset, limit, max) = f[Len(chunks)]
  <2>1. PICK all : all = ConsumeAll(base, chunks, offset, limit, max)
    OBVIOUS
  <2> QED
    BY <1>1, <2>1, ConsumeRuns
<1> DEFINE S == {k \in Nat : k <= Len(chunks) => h[k] \in Seq(Units) /\ f[k] = seen(h[k])}
<1>4. 0 \in S
  <2>1. seen(<<>>) = base
    BY NothingRead DEF seen, base
  <2>2. <<>> \in Seq(Units)
    BY EmptySeq
  <2> QED
    BY <1>2, <1>3, <2>1, <2>2 DEF ConsumeRun
<1>5. ASSUME NEW k \in S PROVE k + 1 \in S
  <2> SUFFICES ASSUME k + 1 <= Len(chunks) PROVE h[k + 1] \in Seq(Units) /\ f[k + 1] = seen(h[k + 1])
    OBVIOUS
  <2> DEFINE before == h[k]
             chunk == chunks[k + 1]
  <2>1. k \in Nat /\ k <= Len(chunks) /\ k + 1 \in 1..Len(chunks) /\ (k + 1) - 1 = k
    BY <1>1
  <2>2. before \in Seq(Units) /\ f[k] = seen(before)
    BY <2>1
  <2>3. h[k + 1] = before \o chunk /\ f[k + 1] = Consume(f[k], chunk, offset, limit, max)
    BY <1>2, <1>3, <2>1 DEF ConsumeRun
  <2>4. chunk \in Seq(Units)
    BY <1>1, <2>1
  <2> HIDE DEF before, chunk, S
  <2>5. before \o chunk \in Seq(Units)
    BY <2>2, <2>4, ConcatProperties
  <2>6. Consume(seen(before), chunk, offset, limit, max) = seen(before \o chunk)
    BY <2>2, <2>4, ConsumeIs DEF seen
  <2> QED
    BY <2>2, <2>3, <2>5, <2>6
<1>6. S = Nat
  <2>1. S \subseteq Nat
    OBVIOUS
  <2> HIDE DEF S
  <2> QED
    BY <1>4, <1>5, <2>1, Induction
<1>7. text \in Seq(Units) /\ ConsumeAll(base, chunks, offset, limit, max) = seen(text)
  BY <1>1, <1>2, <1>3, <1>6
<1> HIDE DEF S
<1>8. split \in Seq(P) /\ split # <<>>
  BY <1>7, SplitOfConcat DEF TextLines
<1> HIDE DEF split, P
<1>9. Front(split) \in Seq(P) /\ Last(split) \in P /\ Append(Front(split), Last(split)) = split
  BY <1>8, FrontIs, FrontThenLast
<1>10. lines \in Seq(P) /\ Len(lines) \in Nat
  <2>1. lines \in Seq(P)
    BY <1>8, <1>9
  <2> HIDE DEF lines
  <2> QED
    BY <2>1, LenProperties
<1>11. seen(text) = Reader(Last(split), Front(split), offset, limit, max)
  BY DEF seen, Read, split
<1>12. read = IF Last(split) = <<>> THEN seen(text) ELSE Accept(seen(text), Last(split), offset, limit, max)
  <2>1. seen(text).pending = Last(split)
    BY <1>11 DEF Reader
  <2>2. ReadRange(chunks, offset, limit, max)
          = IF ConsumeAll(base, chunks, offset, limit, max).pending = <<>>
            THEN ConsumeAll(base, chunks, offset, limit, max)
            ELSE Accept(ConsumeAll(base, chunks, offset, limit, max),
                        ConsumeAll(base, chunks, offset, limit, max).pending, offset, limit, max)
    BY DEF ReadRange, ConsumeAll, base
  <2> QED
    BY <1>7, <2>1, <2>2
<1>13. read = Reader(Last(split), lines, offset, limit, max)
  <2>1. CASE Last(split) = <<>>
    BY <1>11, <1>12, <2>1
  <2>2. CASE Last(split) # <<>>
    <3> DEFINE front == Front(split)
               last == Last(split)
    <3>1. front \in Seq(P) /\ last \in P
      BY <1>9
    <3> HIDE DEF front, last
    <3>2. Accept(Reader(last, front, offset, limit, max), last, offset, limit, max)
            = Reader(last, Append(front, last), offset, limit, max)
      BY <3>1, AcceptIs
    <3> QED
      BY <1>9, <1>11, <1>12, <2>2, <3>2 DEF front, last
  <2> QED
    BY <2>1, <2>2
<1> HIDE DEF read, lines
<1>14. /\ read.total = Len(lines)
       /\ read.selected = [i \in 1..Taken(Len(lines), offset, limit) |-> shown(i)]
  BY <1>13 DEF Reader, Picked
<1>15. Len(SubSeq(lines, offset, Min({offset + limit - 1, Len(lines)}))) = Taken(Len(lines), offset, limit)
  BY <1>10, TakenIs
<1>16. read.selected = [i \in 1..Len(SubSeq(lines, offset, Min({offset + limit - 1, Len(lines)}))) |-> shown(i)]
  BY <1>14, <1>15
<1> QED
  BY <1>14, <1>16 DEF RangeIsRight, read, lines, split, text
-----------------------------------------------------------------------------
(* The names of tools on the wire.                                         *)

\* The table of names is a run over them.
LEMMA CodecRuns ==
  ASSUME NEW s, Len(s) \in Nat, DOMAIN s = 1..Len(s)
  PROVE  \E f : IsRun("codec", f, <<>>, s) /\ Codec(s) = f[Len(s)]
<1> DEFINE N == Len(s)
           Of(h, t) == IF t = {} THEN <<>> ELSE Offered(h[t \ {Max(t)}], s[Max(t)])
           chosen == CHOOSE h : h = [t \in SUBSET (1..N) |-> Of(h, t)]
<1>1. \A h, t : Of(h, t) = FoldedSet("codec", h, <<>>, s, t)
  BY DEF FoldedSet, Folded, Chosen, Element
<1>2. Codec(s) = chosen[1..N]
  BY DEF Codec, FoldLeft, MapThenFoldSet, Offered
<1> HIDE DEF Of
<1>3. \E h : h = [t \in SUBSET (1..N) |-> Of(h, t)]
  <2>1. PICK h : FoldsOn("codec", h, <<>>, s, SUBSET (1..N))
    BY SequenceFolds
  <2> QED
    BY <1>1, <2>1 DEF FoldsOn
<1>4. chosen = [t \in SUBSET (1..N) |-> Of(chosen, t)]
  BY <1>3
<1> HIDE DEF chosen
<1>5. FoldsOn("codec", chosen, <<>>, s, SUBSET (1..N))
  BY <1>1, <1>4 DEF FoldsOn
<1>6. PICK f : IsRun("codec", f, <<>>, s) /\ f[N] = chosen[1..N]
  BY <1>5, FoldRuns
<1>7. Codec(s) = f[Len(s)]
  BY <1>2, <1>6
<1> QED
  BY <1>6, <1>7

\* The forms of one name differ, as numbers differ when they are written down.
NumeralsDiffer == \A m, n \in Nat : ToString(m) = ToString(n) => m = n

LEMMA FormsDiffer ==
  ASSUME NEW Marks, NEW name \in Seq(Marks), NumeralsDiffer, NEW m \in Nat, NEW n \in Nat,
         Suffixed(name, m) = Suffixed(name, n)
  PROVE  m = n
<1> DEFINE numeral == [k \in Nat |-> ToString(k)]
           plain == Sanitize(name)
           tail(k) == <<"_", numeral[k]>>
           E == {plain[i] : i \in 1..Len(name)} \cup {"_"} \cup {numeral[k] : k \in Nat}
<1>1. \A k, l \in Nat : numeral[k] = numeral[l] => k = l
  BY Zenon DEF NumeralsDiffer
<1>2. \A k \in Nat : Suffixed(name, k) = IF k = 0 THEN plain ELSE plain \o tail(k)
  BY Zenon DEF Suffixed
<1> HIDE DEF numeral
<1>3. plain \in Seq(E) /\ Len(plain) \in Nat
  <2>1. Len(name) \in Nat /\ DOMAIN name = 1..Len(name)
    BY LenProperties
  <2>2. DOMAIN plain = 1..Len(name) /\ plain = [i \in DOMAIN name |-> plain[i]]
    BY <2>1 DEF Sanitize
  <2> HIDE DEF plain
  <2>3. plain \in [1..Len(name) -> E]
    BY <2>1, <2>2
  <2> HIDE DEF E
  <2>4. plain \in Seq(E)
    BY <2>1, <2>3, SeqDef
  <2> QED
    BY <2>4, LenProperties
<1>4. \A k \in Nat : tail(k) \in Seq(E) /\ Len(tail(k)) = 2 /\ tail(k)[2] = numeral[k]
  <2> SUFFICES ASSUME NEW k \in Nat PROVE tail(k) \in Seq(E) /\ Len(tail(k)) = 2 /\ tail(k)[2] = numeral[k]
    OBVIOUS
  <2>1. "_" \in E /\ numeral[k] \in E
    OBVIOUS
  <2> HIDE DEF E
  <2>2. \A a, b \in E : <<a, b>> \in Seq(E) /\ Len(<<a, b>>) = 2 /\ <<a, b>>[2] = b
    OBVIOUS
  <2> QED
    BY <2>1, <2>2
<1> HIDE DEF plain, E, tail
<1> DEFINE long(k) == plain \o tail(k)
           p == Len(plain)
<1>5. \A k \in Nat : Len(long(k)) = p + 2 /\ long(k)[p + 2] = numeral[k]
  <2> SUFFICES ASSUME NEW k \in Nat PROVE Len(long(k)) = p + 2 /\ long(k)[p + 2] = numeral[k]
    OBVIOUS
  <2> DEFINE end == tail(k)
  <2>1. end \in Seq(E) /\ Len(end) = 2 /\ end[2] = numeral[k]
    BY <1>4
  <2> HIDE DEF end
  <2>2. /\ Len(plain \o end) = Len(plain) + Len(end)
        /\ \A i \in 1..Len(plain) + Len(end) :
             (plain \o end)[i] = IF i <= Len(plain) THEN plain[i] ELSE end[i - Len(plain)]
    BY <1>3, <2>1, ConcatProperties
  <2> DEFINE both == plain \o end
  <2> HIDE DEF both
  <2>3. /\ Len(both) = p + 2
        /\ \A i \in 1..p + 2 : both[i] = IF i <= p THEN plain[i] ELSE end[i - p]
    BY <2>1, <2>2 DEF both
  <2>4. p + 2 \in 1..p + 2 /\ ~(p + 2 <= p) /\ (p + 2) - p = 2
    BY <1>3
  <2>5. both[p + 2] = end[2]
    BY <2>3, <2>4
  <2> QED
    BY <2>1, <2>3, <2>5 DEF both, end
<1> HIDE DEF long
<1>6. \A k \in Nat : Suffixed(name, k) = IF k = 0 THEN plain ELSE long(k)
  BY <1>2 DEF long
<1>7. p \in Nat /\ p # p + 2
  BY <1>3
<1> HIDE DEF p
<1>8. CASE m = 0 /\ n = 0
  BY <1>8
<1>9. CASE m # 0 /\ n # 0
  <2>1. long(m) = long(n)
    BY <1>6, <1>9
  <2> QED
    BY <1>1, <1>5, <2>1
<1>10. CASE m = 0 /\ n # 0
  <2>1. plain = long(n)
    BY <1>6, <1>10
  <2> QED
    BY <1>5, <1>7, <2>1 DEF p
<1>11. CASE m # 0 /\ n = 0
  <2>1. long(m) = plain
    BY <1>6, <1>11
  <2> QED
    BY <1>5, <1>7, <2>1 DEF p
<1> QED
  BY <1>8, <1>9, <1>10, <1>11

\* A set of numbers has its least number as Min.
LEMMA MinExists ==
  ASSUME NEW S, S \subseteq Nat, S # {}
  PROVE  Min(S) \in S
<1> DEFINE Less == OpToRel(<, Nat)
<1>1. PICK m \in S : \A k \in S : <<k, m>> \notin Less
  <2>1. IsWellFoundedOn(Less, Nat)
    BY NatLessThanWellFounded
  <2> HIDE DEF Less
  <2> QED
    BY <2>1, WFMin
<1>2. \A k \in S : m <= k
  <2> SUFFICES ASSUME NEW k \in S PROVE m <= k
    OBVIOUS
  <2>1. k \in Nat /\ m \in Nat
    OBVIOUS
  <2>2. ~(k < m)
    BY <1>1, <2>1 DEF OpToRel
  <2> QED
    BY <2>1, <2>2
<1> QED
  BY <1>2 DEF Min

\* The form that is chosen is free: there is one more of them than names.
LEMMA FormIsFree ==
  ASSUME NEW Marks, NEW name \in Seq(Marks), NumeralsDiffer, NEW taken, IsFiniteSet(DOMAIN taken)
  PROVE  \A a \in DOMAIN taken : taken[a] # WireName(taken, name)
<1> DEFINE c == Cardinality(DOMAIN taken)
           form(n) == Suffixed(name, n)
           free == {n \in 0..c : form(n) \notin Range(taken)}
           owner == [n \in 0..c |-> CHOOSE a \in DOMAIN taken : taken[a] = form(n)]
<1>1. c \in Nat
  BY FS_CardinalityType
<1>2. \A m, n \in Nat : form(m) = form(n) => m = n
  BY FormsDiffer
<1> HIDE DEF form
<1>3. free # {}
  <2> SUFFICES ASSUME free = {} PROVE FALSE
    OBVIOUS
  <2>1. \A n \in 0..c : \E a \in DOMAIN taken : taken[a] = form(n)
    BY DEF Range
  <2>2. \A n \in 0..c : owner[n] \in DOMAIN taken /\ taken[owner[n]] = form(n)
    BY <2>1
  <2>3. owner \in [0..c -> DOMAIN taken]
    BY <2>2
  <2> HIDE DEF owner, c
  <2>4. IsFiniteSet(0..c) /\ c < Cardinality(0..c)
    <3>1. 0 \in Int /\ c \in Int /\ ~(0 > c)
      BY <1>1
    <3>2. IsFiniteSet(0..c) /\ Cardinality(0..c) = IF 0 > c THEN 0 ELSE c - 0 + 1
      BY <3>1, FS_Interval
    <3> QED
      BY <3>1, <3>2
  <2>5. PICK m, n \in 0..c : m # n /\ owner[m] = owner[n]
    <3> DEFINE A == 0..c
               B == DOMAIN taken
    <3>1. /\ IsFiniteSet(A) /\ IsFiniteSet(B) /\ Cardinality(B) < Cardinality(A)
          /\ owner \in [A -> B]
      BY <2>3, <2>4 DEF c
    <3> HIDE DEF A, B
    <3>2. \E m, n \in A : m # n /\ owner[m] = owner[n]
      BY <3>1, FS_PigeonHole
    <3> QED
      BY <3>2 DEF A
  <2>6. m \in Nat /\ n \in Nat /\ form(m) = form(n)
    BY <1>1, <2>2, <2>5
  <2> QED
    BY <1>2, <2>5, <2>6
<1>4. Min(free) \in free
  <2>1. free \subseteq Nat
    BY <1>1
  <2> HIDE DEF free
  <2> QED
    BY <1>3, <2>1, MinExists
<1>5. WireName(taken, name) = form(Min(free))
  BY DEF WireName, form
<1> QED
  BY <1>4, <1>5 DEF Range

\* A table in which every name has a form of its own, and that has the first k names.
Table(names, taken, k) ==
  /\ IsFiniteSet(DOMAIN taken)
  /\ \A a, b \in DOMAIN taken : taken[a] = taken[b] => a = b
  /\ \A i \in 1..k : names[i] \in DOMAIN taken

\* Whatever tools one request offers, no two of them go by one name, so that a call of
\* any of them comes back as a call of the tool that was meant (buildToolNameCodec of
\* tool-name.ts).  That the decimals of two numbers differ is assumed.
THEOREM NamesComeBack ==
  ASSUME NEW Marks, NEW names \in Seq(Seq(Marks)), NumeralsDiffer
  PROVE  LET codec == Codec(names)
         IN  /\ \A i, j \in DOMAIN names :
                  Encode(codec, names[i]) = Encode(codec, names[j]) => names[i] = names[j]
             /\ \A i \in DOMAIN names : Decode(codec, Encode(codec, names[i])) = names[i]
<1> DEFINE codec == Codec(names)
<1>1. /\ Len(names) \in Nat /\ DOMAIN names = 1..Len(names)
      /\ \A i \in 1..Len(names) : names[i] \in Seq(Marks)
  BY LenProperties, ElementOfSeq
<1>2. PICK f : IsRun("codec", f, <<>>, names) /\ codec = f[Len(names)]
  BY <1>1, CodecRuns
<1> HIDE DEF codec
<1> DEFINE S == {k \in Nat : k <= Len(names) => Table(names, f[k], k)}
<1>3. 0 \in S
  <2> DEFINE none == f[0]
  <2>1. DOMAIN none = {}
    BY <1>2 DEF IsRun
  <2> HIDE DEF none
  <2>2. Table(names, none, 0)
    BY <2>1, FS_EmptySet DEF Table
  <2> QED
    BY <2>2 DEF none
<1>4. ASSUME NEW k \in S PROVE k + 1 \in S
  <2> SUFFICES ASSUME k + 1 <= Len(names) PROVE Table(names, f[k + 1], k + 1)
    OBVIOUS
  <2> DEFINE taken == f[k]
             name == names[k + 1]
             more == f[k + 1]
  <2>1. k \in Nat /\ k <= Len(names) /\ k + 1 \in 1..Len(names) /\ (k + 1) - 1 = k
    BY <1>1
  <2>2. Table(names, taken, k)
    BY <2>1
  <2>3. name \in Seq(Marks)
    BY <1>1, <2>1
  <2>4. more = Offered(taken, name)
    BY <1>2, <2>1 DEF IsRun, Folded
  <2>5. \A i \in 1..k + 1 : i \in 1..k \/ names[i] = name
    BY <2>1
  <2> HIDE DEF taken, name, more, S
  <2>6. CASE name \in DOMAIN taken
    <3>1. more = taken
      BY <2>4, <2>6 DEF Offered
    <3> QED
      BY <2>2, <2>5, <2>6, <3>1 DEF Table, more
  <2>7. CASE name \notin DOMAIN taken
    <3> DEFINE form == WireName(taken, name)
    <3>1. \A a \in DOMAIN taken : taken[a] # form
      BY <2>2, <2>3, FormIsFree DEF Table
    <3> HIDE DEF form
    <3>2. /\ DOMAIN more = DOMAIN taken \cup {name} /\ more[name] = form
          /\ \A a \in DOMAIN taken : more[a] = taken[a]
      BY <2>4, <2>7 DEF Offered, form
    <3>3. IsFiniteSet(DOMAIN more)
      BY <2>2, <3>2, FS_AddElement DEF Table
    <3>4. \A a, b \in DOMAIN more : more[a] = more[b] => a = b
      BY <2>2, <3>1, <3>2 DEF Table
    <3>5. \A i \in 1..k + 1 : names[i] \in DOMAIN more
      BY <2>2, <2>5, <3>2 DEF Table
    <3> QED
      BY <3>3, <3>4, <3>5 DEF Table, more
  <2> QED
    BY <2>6, <2>7
<1>5. S = Nat
  <2>1. S \subseteq Nat
    OBVIOUS
  <2> HIDE DEF S
  <2> QED
    BY <1>3, <1>4, <2>1, Induction
<1>6. Table(names, codec, Len(names))
  BY <1>1, <1>2, <1>5
<1>7. ASSUME NEW i \in DOMAIN names
      PROVE  /\ names[i] \in DOMAIN codec
             /\ Encode(codec, names[i]) = codec[names[i]]
             /\ Decode(codec, Encode(codec, names[i])) = names[i]
  <2> DEFINE a == names[i]
  <2>1. a \in DOMAIN codec
    BY <1>1, <1>6 DEF Table
  <2> HIDE DEF a
  <2>2. Encode(codec, a) = codec[a]
    BY <2>1 DEF Encode
  <2>3. \A b \in DOMAIN codec : codec[b] = codec[a] => b = a
    BY <1>6, <2>1 DEF Table
  <2>4. Decode(codec, codec[a]) = a
    BY <2>1, <2>3 DEF Decode
  <2> QED
    BY <2>1, <2>2, <2>4 DEF a
<1>8. ASSUME NEW i \in DOMAIN names, NEW j \in DOMAIN names,
             Encode(codec, names[i]) = Encode(codec, names[j])
      PROVE  names[i] = names[j]
  <2>1. codec[names[i]] = codec[names[j]] /\ names[i] \in DOMAIN codec /\ names[j] \in DOMAIN codec
    BY <1>7, <1>8
  <2> QED
    BY <1>6, <2>1 DEF Table
<1> QED
  BY <1>7, <1>8 DEF codec
-----------------------------------------------------------------------------
(* The frames of a stream.                                                 *)

\* The empty line that ends a frame: two line feeds, two returns, or two of both.
Blank(B, i, n) ==
  \/ n = 4 /\ i \in 1..Len(B) - 3 /\ B[i] = "r" /\ B[i + 1] = "n" /\ B[i + 2] = "r" /\ B[i + 3] = "n"
  \/ n = 2 /\ i \in 1..Len(B) - 1 /\ B[i] = "n" /\ B[i + 1] = "n"
  \/ n = 2 /\ i \in 1..Len(B) - 1 /\ B[i] = "r" /\ B[i + 1] = "r"

\* Where two marks occur, and where four do.
LEMMA PairOccurs ==
  ASSUME NEW Marks, NEW B \in Seq(Marks), NEW a, NEW b
  PROVE  Occurrences(<<a, b>>, B) = {i \in 1..Len(B) - 1 : B[i] = a /\ B[i + 1] = b}
<1> DEFINE sep == <<a, b>>
           E == Marks \cup {a, b}
<1>1. Len(B) \in Nat /\ DOMAIN B = 1..Len(B) /\ \A i \in 1..Len(B) : B[i] \in E
  BY LenProperties, ElementOfSeq
<1>2. sep \in Seq(E) /\ Len(sep) = 2 /\ sep[1] = a /\ sep[2] = b
  BY DEF E
<1> HIDE DEF sep, E
<1>3. ASSUME NEW i \in 1..Len(B) - 1
      PROVE  SubSeq(B, i, i + 1) = sep <=> B[i] = a /\ B[i + 1] = b
  <2> DEFINE part == SubSeq(B, i, i + 1)
  <2>1. i \in Int /\ i + 1 \in Int /\ \A k \in i..i + 1 : B[k] \in E
    BY <1>1
  <2>2. /\ part \in Seq(E) /\ Len(part) = IF i <= i + 1 THEN (i + 1) - i + 1 ELSE 0
        /\ \A k \in 1..(i + 1) - i + 1 : part[k] = B[i + k - 1]
    BY <2>1, SubSeqProperties
  <2> HIDE DEF part
  <2>3. Len(part) = 2 /\ part[1] = B[i] /\ part[2] = B[i + 1]
    BY <2>1, <2>2
  <2>4. ASSUME B[i] = a, B[i + 1] = b PROVE part = sep
    <3>1. \A k \in 1..Len(part) : part[k] = sep[k]
      BY <1>2, <2>3, <2>4
    <3> QED
      BY <1>2, <2>2, <2>3, <3>1, SeqEqual
  <2> QED
    BY <1>2, <2>3, <2>4 DEF part
<1>4. ASSUME NEW i PROVE i \in Occurrences(sep, B) <=> i \in 1..Len(B) - 1 /\ B[i] = a /\ B[i + 1] = b
  <2>1. i \in Occurrences(sep, B) <=>
          i \in 1..Len(B) /\ i + 2 - 1 <= Len(B) /\ SubSeq(B, i, i + 2 - 1) = sep
    BY <1>1, <1>2 DEF Occurrences
  <2>2. i \in 1..Len(B) => i + 2 - 1 = i + 1
    BY <1>1
  <2>3. i \in 1..Len(B) /\ i + 1 <= Len(B) <=> i \in 1..Len(B) - 1
    BY <1>1
  <2> QED
    BY <1>3, <2>1, <2>2, <2>3
<1> QED
  BY <1>4 DEF sep

LEMMA FourOccur ==
  ASSUME NEW Marks, NEW B \in Seq(Marks), NEW a, NEW b, NEW c, NEW d
  PROVE  Occurrences(<<a, b, c, d>>, B)
           = {i \in 1..Len(B) - 3 : B[i] = a /\ B[i + 1] = b /\ B[i + 2] = c /\ B[i + 3] = d}
<1> DEFINE sep == <<a, b, c, d>>
           E == Marks \cup {a, b, c, d}
           there(i) == B[i] = a /\ B[i + 1] = b /\ B[i + 2] = c /\ B[i + 3] = d
<1>1. Len(B) \in Nat /\ DOMAIN B = 1..Len(B) /\ \A i \in 1..Len(B) : B[i] \in E
  BY LenProperties, ElementOfSeq
<1>2. sep \in Seq(E) /\ Len(sep) = 4 /\ sep[1] = a /\ sep[2] = b /\ sep[3] = c /\ sep[4] = d
  BY DEF E
<1> HIDE DEF sep, E
<1>3. ASSUME NEW i \in 1..Len(B) - 3
      PROVE  SubSeq(B, i, i + 3) = sep <=> there(i)
  <2> DEFINE part == SubSeq(B, i, i + 3)
  <2>1. i \in Int /\ i + 3 \in Int /\ \A k \in i..i + 3 : B[k] \in E
    BY <1>1
  <2>2. /\ part \in Seq(E) /\ Len(part) = IF i <= i + 3 THEN (i + 3) - i + 1 ELSE 0
        /\ \A k \in 1..(i + 3) - i + 1 : part[k] = B[i + k - 1]
    BY <2>1, SubSeqProperties
  <2> HIDE DEF part
  <2>3. /\ Len(part) = 4 /\ part[1] = B[i] /\ part[2] = B[i + 1]
        /\ part[3] = B[i + 2] /\ part[4] = B[i + 3]
    BY <2>1, <2>2
  <2>4. ASSUME there(i) PROVE part = sep
    <3>1. \A k \in 1..Len(part) : part[k] = sep[k]
      BY <1>2, <2>3, <2>4
    <3> QED
      BY <1>2, <2>2, <2>3, <3>1, SeqEqual
  <2> QED
    BY <1>2, <2>3, <2>4 DEF part
<1>4. ASSUME NEW i PROVE i \in Occurrences(sep, B) <=> i \in 1..Len(B) - 3 /\ there(i)
  <2> HIDE DEF there
  <2>1. i \in Occurrences(sep, B) <=>
          i \in 1..Len(B) /\ i + 4 - 1 <= Len(B) /\ SubSeq(B, i, i + 4 - 1) = sep
    BY <1>1, <1>2 DEF Occurrences
  <2>2. i \in 1..Len(B) => i + 4 - 1 = i + 3
    BY <1>1
  <2>3. i \in 1..Len(B) /\ i + 3 <= Len(B) <=> i \in 1..Len(B) - 3
    BY <1>1
  <2> QED
    BY <1>3, <2>1, <2>2, <2>3
<1> QED
  BY <1>4 DEF sep

\* What findFrameBoundary finds: the first empty line.
LEMMA BoundaryIs ==
  ASSUME NEW Marks, NEW B \in Seq(Marks)
  PROVE  \/ /\ FindFrameBoundary(B) = <<0, 0>>
            /\ \A i, n \in Nat : ~Blank(B, i, n)
         \/ \E p, n \in Nat : /\ FindFrameBoundary(B) = <<p, n>>
                              /\ Blank(B, p, n)
                              /\ \A i, m \in Nat : Blank(B, i, m) => p <= i
<1> DEFINE four == Occurrences(<<"r", "n", "r", "n">>, B)
           feeds == Occurrences(<<"n", "n">>, B)
           returns == Occurrences(<<"r", "r">>, B)
           places == UNION {{<<i, Len(Separators[k])>> : i \in Occurrences(Separators[k], B)} :
                              k \in DOMAIN Separators}
           all == {p \in Nat \X Nat : Blank(B, p[1], p[2])}
<1>1. Len(B) \in Nat
  BY LenProperties
<1>2. places = {<<i, 4>> : i \in four} \cup {<<i, 2>> : i \in feeds} \cup {<<i, 2>> : i \in returns}
  <2>1. /\ DOMAIN Separators = {1, 2, 3}
        /\ Separators[1] = <<"r", "n", "r", "n">> /\ Separators[2] = <<"n", "n">>
        /\ Separators[3] = <<"r", "r">>
    BY DEF Separators
  <2>2. Len(Separators[1]) = 4 /\ Len(Separators[2]) = 2 /\ Len(Separators[3]) = 2
    BY <2>1
  <2> DEFINE of(k) == {<<i, Len(Separators[k])>> : i \in Occurrences(Separators[k], B)}
  <2>3. places = of(1) \cup of(2) \cup of(3)
    <3> HIDE DEF of
    <3>1. places = UNION {of(k) : k \in DOMAIN Separators}
      BY DEF of
    <3> QED
      BY <2>1, <3>1
  <2>4. /\ of(1) = {<<i, 4>> : i \in four} /\ of(2) = {<<i, 2>> : i \in feeds}
        /\ of(3) = {<<i, 2>> : i \in returns}
    BY <2>1, <2>2
  <2> QED
    BY <2>3, <2>4
<1>3. /\ four = {i \in 1..Len(B) - 3 : B[i] = "r" /\ B[i + 1] = "n" /\ B[i + 2] = "r" /\ B[i + 3] = "n"}
      /\ feeds = {i \in 1..Len(B) - 1 : B[i] = "n" /\ B[i + 1] = "n"}
      /\ returns = {i \in 1..Len(B) - 1 : B[i] = "r" /\ B[i + 1] = "r"}
  BY PairOccurs, FourOccur
<1> HIDE DEF four, feeds, returns
<1>4. \A i, n : <<i, n>> \in places <=> i \in Nat /\ n \in Nat /\ Blank(B, i, n)
  <2> SUFFICES ASSUME NEW i, NEW n
               PROVE  <<i, n>> \in places <=> i \in Nat /\ n \in Nat /\ Blank(B, i, n)
    OBVIOUS
  <2>1. <<i, n>> \in places <=> (n = 4 /\ i \in four) \/ (n = 2 /\ i \in feeds) \/ (n = 2 /\ i \in returns)
    <3> HIDE DEF places
    <3> QED
      BY <1>2
  <2> HIDE DEF places
  <2> QED
    BY <1>1, <1>3, <2>1 DEF Blank
<1>5. \A p \in places : p = <<p[1], p[2]>>
  <2> HIDE DEF places
  <2> QED
    BY <1>2
<1>6. FindFrameBoundary(B) = IF places = {} THEN <<0, 0>>
                             ELSE CHOOSE p \in places : \A q \in places : p[1] <= q[1]
  BY DEF FindFrameBoundary
<1> HIDE DEF places
<1>7. CASE places = {}
  BY <1>4, <1>6, <1>7
<1>8. CASE places # {}
  <2> DEFINE starts == {p[1] : p \in places}
             found == FindFrameBoundary(B)
  <2>1. starts \subseteq Nat /\ starts # {}
    BY <1>4, <1>5, <1>8
  <2> HIDE DEF starts
  <2>2. PICK least \in starts : \A i \in starts : least <= i
    <3> DEFINE Less == OpToRel(<, Nat)
    <3>1. PICK m \in starts : \A k \in starts : <<k, m>> \notin Less
      <4>1. IsWellFoundedOn(Less, Nat)
        BY NatLessThanWellFounded
      <4> HIDE DEF Less
      <4> QED
        BY <2>1, <4>1, WFMin
    <3>2. \A k \in starts : k \in Nat /\ m \in Nat /\ ~(k < m)
      BY <2>1, <3>1 DEF OpToRel
    <3>3. \A k \in starts : m <= k
      BY <3>2
    <3> QED
      BY <3>3
  <2>3. PICK first \in places : first[1] = least
    BY <2>2 DEF starts
  <2>4. \A q \in places : first[1] <= q[1]
    BY <2>2, <2>3 DEF starts
  <2>5. found \in places /\ \A q \in places : found[1] <= q[1]
    BY <1>6, <1>8, <2>4
  <2> HIDE DEF found
  <2> DEFINE p == found[1]
             n == found[2]
  <2>6. found = <<p, n>>
    BY <1>5, <2>5
  <2> HIDE DEF p, n
  <2>7. p \in Nat /\ n \in Nat /\ Blank(B, p, n)
    BY <1>4, <2>5, <2>6
  <2>8. ASSUME NEW i \in Nat, NEW m \in Nat, Blank(B, i, m) PROVE p <= i
    <3>1. <<i, m>> \in places
      BY <1>4, <2>8
    <3>2. found[1] <= <<i, m>>[1]
      BY <2>5, <3>1
    <3> QED
      BY <3>2 DEF p
  <2> QED
    BY <2>6, <2>7, <2>8 DEF found
<1> QED
  BY <1>7, <1>8

\* Marks that come later do not move the first empty line.
LEMMA BoundaryStays ==
  ASSUME NEW Marks, NEW B \in Seq(Marks), NEW C \in Seq(Marks),
         NEW p \in Nat, NEW n \in Nat, FindFrameBoundary(B) = <<p, n>>, p # 0
  PROVE  FindFrameBoundary(B \o C) = <<p, n>> /\ n \in 2..4 /\ p + n - 1 \in 2..Len(B)
<1> DEFINE all == B \o C
<1>1. Len(B) \in Nat /\ Len(C) \in Nat
  BY LenProperties
<1>2. /\ all \in Seq(Marks) /\ Len(all) = Len(B) + Len(C)
      /\ \A i \in 1..Len(B) + Len(C) : all[i] = IF i <= Len(B) THEN B[i] ELSE C[i - Len(B)]
  BY ConcatProperties
<1> HIDE DEF all
<1>3. Blank(B, p, n) /\ \A i, m \in Nat : Blank(B, i, m) => p <= i
  <2>1. FindFrameBoundary(B) # <<0, 0>>
    BY DEF FindFrameBoundary
  <2>2. PICK q, m \in Nat : /\ FindFrameBoundary(B) = <<q, m>>
                            /\ Blank(B, q, m)
                            /\ \A i, l \in Nat : Blank(B, i, l) => q <= i
    BY <2>1, BoundaryIs
  <2>3. q = p /\ m = n
    BY <2>2
  <2> QED
    BY <2>2, <2>3
<1>4. Len(all) \in Nat /\ \A i \in 1..Len(B) : all[i] = B[i] /\ i \in 1..Len(all)
  BY <1>1, <1>2
<1>5. n \in 2..4 /\ p + n - 1 \in 2..Len(B)
  BY <1>1, <1>3 DEF Blank
<1>6. Blank(all, p, n)
  <2>1. Len(B) <= Len(all)
    BY <1>1, <1>2
  <2>2. CASE n = 4
    <3>1. p \in 1..Len(B) - 3 /\ B[p] = "r" /\ B[p + 1] = "n" /\ B[p + 2] = "r" /\ B[p + 3] = "n"
      BY <1>3, <2>2 DEF Blank
    <3>2. p \in 1..Len(B) /\ p + 1 \in 1..Len(B) /\ p + 2 \in 1..Len(B) /\ p + 3 \in 1..Len(B)
          /\ p \in 1..Len(all) - 3
      BY <1>1, <1>4, <2>1, <3>1
    <3> QED
      BY <1>4, <2>2, <3>1, <3>2 DEF Blank
  <2>3. CASE n # 4
    <3>1. /\ n = 2 /\ p \in 1..Len(B) - 1
          /\ (B[p] = "n" /\ B[p + 1] = "n") \/ (B[p] = "r" /\ B[p + 1] = "r")
      BY <1>3, <2>3 DEF Blank
    <3>2. p \in 1..Len(B) /\ p + 1 \in 1..Len(B) /\ p \in 1..Len(all) - 1
      BY <1>1, <1>4, <2>1, <3>1
    <3> QED
      BY <1>4, <3>1, <3>2 DEF Blank
  <2> QED
    BY <2>2, <2>3
<1>7. PICK q, m \in Nat : /\ FindFrameBoundary(all) = <<q, m>>
                          /\ Blank(all, q, m)
                          /\ \A i, l \in Nat : Blank(all, i, l) => q <= i
  BY <1>2, <1>6, BoundaryIs
<1>8. q <= p /\ q \in 1..Len(all)
  <2>1. q <= p
    BY <1>6, <1>7
  <2>2. q >= 1
    BY <1>4, <1>7 DEF Blank
  <2> QED
    BY <1>4, <1>5, <2>1, <2>2
<1>9. q = p
  <2> SUFFICES ASSUME q < p PROVE FALSE
    BY <1>8
  <2>1. ~Blank(B, q, m)
    BY <1>3
  <2>2. q + 1 <= p /\ p + 1 <= Len(B) /\ q \in 1..Len(B) /\ q + 1 \in 1..Len(B) /\ q + 2 \in 1..Len(B)
    BY <1>1, <1>5, <1>8
  <2>3. all[q] = B[q] /\ all[q + 1] = B[q + 1] /\ all[q + 2] = B[q + 2]
    BY <1>4, <2>2
  <2>4. m = 4
    <3> SUFFICES ASSUME m # 4 PROVE FALSE
      OBVIOUS
    <3>1. /\ m = 2
          /\ (all[q] = "n" /\ all[q + 1] = "n") \/ (all[q] = "r" /\ all[q + 1] = "r")
      BY <1>7 DEF Blank
    <3>2. q \in 1..Len(B) - 1
      BY <1>1, <2>2
    <3> QED
      BY <2>1, <2>3, <3>1, <3>2 DEF Blank
  <2>5. all[q] = "r" /\ all[q + 1] = "n" /\ all[q + 2] = "r" /\ all[q + 3] = "n"
    BY <1>7, <2>4 DEF Blank
  <2>6. ~(q + 3 <= Len(B))
    <3> SUFFICES ASSUME q + 3 <= Len(B) PROVE FALSE
      OBVIOUS
    <3>1. q + 3 \in 1..Len(B) /\ q \in 1..Len(B) - 3
      BY <1>1, <2>2
    <3>2. all[q + 3] = B[q + 3]
      BY <1>4, <3>1
    <3> QED
      BY <2>1, <2>3, <2>4, <2>5, <3>1, <3>2 DEF Blank
  <2>7. p = q + 1 /\ n # 4
    BY <1>1, <1>5, <2>2, <2>6
  <2>8. B[p] = "n" /\ B[p + 1] = "r"
    <3>1. p + 1 = q + 2
      BY <2>7
    <3> QED
      BY <2>3, <2>5, <2>7, <3>1
  <2> QED
    BY <1>3, <2>7, <2>8 DEF Blank
<1>10. m = n
  BY <1>6, <1>7, <1>9 DEF Blank
<1> QED
  BY <1>5, <1>7, <1>9, <1>10 DEF all

\* What one round does: it takes marks away, or it changes nothing.
LEMMA TookIs ==
  ASSUME NEW Marks, NEW x, x.buffer \in Seq(Marks)
  PROVE  /\ Took(x).buffer \in Seq(Marks)
         /\ Took(x) = x \/ Len(Took(x).buffer) < Len(x.buffer)
<1> DEFINE B == x.buffer
           boundary == FindFrameBoundary(B)
<1>1. B \in Seq(Marks) /\ Len(B) \in Nat /\ \A i \in 1..Len(B) : B[i] \in Marks
  BY LenProperties, ElementOfSeq
<1>2. Took(x) = IF boundary[1] = 0 THEN x
                ELSE [frames |-> x.frames \o ParseFrame(SubSeq(B, 1, boundary[1] - 1)),
                      buffer |-> SubSeq(B, boundary[1] + boundary[2], Len(B))]
  BY DEF Took
<1>3. PICK p, n \in Nat : boundary = <<p, n>>
  <2> HIDE DEF B, boundary
  <2>1. \/ FindFrameBoundary(B) = <<0, 0>>
        \/ \E p, n \in Nat : FindFrameBoundary(B) = <<p, n>>
    BY <1>1, BoundaryIs
  <2> QED
    BY <2>1 DEF boundary
<1>4. CASE p = 0
  <2>1. boundary[1] = 0
    BY <1>3, <1>4
  <2> HIDE DEF boundary
  <2>2. Took(x) = x
    BY <1>2, <2>1
  <2> QED
    BY <2>2
<1>5. CASE p # 0
  <2>1. n \in 2..4 /\ p + n - 1 \in 2..Len(B)
    <3> HIDE DEF B
    <3> QED
      BY <1>1, <1>3, <1>5, BoundaryStays DEF boundary
  <2> DEFINE rest == SubSeq(B, p + n, Len(B))
  <2>2. rest \in Seq(Marks) /\ Len(rest) < Len(B)
    <3>1. p + n \in Int /\ Len(B) \in Int /\ \A i \in p + n..Len(B) : B[i] \in Marks
      BY <1>1, <2>1
    <3> HIDE DEF B
    <3>2. rest \in Seq(Marks) /\ Len(rest) = IF p + n <= Len(B) THEN Len(B) - (p + n) + 1 ELSE 0
      BY <3>1, SubSeqProperties
    <3> QED
      BY <1>1, <2>1, <3>2
  <2>3. boundary[1] # 0 /\ boundary[1] + boundary[2] = p + n
    BY <1>3, <1>5
  <2> HIDE DEF boundary, rest, B
  <2>4. Took(x).buffer = rest
    BY <1>2, <2>3 DEF rest
  <2> QED
    BY <2>2, <2>4 DEF B
<1> QED
  BY <1>4, <1>5

\* A round that takes a frame takes the same one when more has come behind it.
LEMMA TookBehind ==
  ASSUME NEW Marks, NEW x, x.buffer \in Seq(Marks), NEW C \in Seq(Marks), Took(x) # x
  PROVE  Took([frames |-> x.frames, buffer |-> x.buffer \o C])
           = [frames |-> Took(x).frames, buffer |-> Took(x).buffer \o C]
<1> DEFINE B == x.buffer
           boundary == FindFrameBoundary(B)
           all == B \o C
           more == [frames |-> x.frames, buffer |-> all]
<1>1. B \in Seq(Marks) /\ Len(B) \in Nat /\ Len(C) \in Nat /\ \A i \in 1..Len(B) : B[i] \in Marks
  BY LenProperties, ElementOfSeq
<1>2. Took(x) = IF boundary[1] = 0 THEN x
                ELSE [frames |-> x.frames \o ParseFrame(SubSeq(B, 1, boundary[1] - 1)),
                      buffer |-> SubSeq(B, boundary[1] + boundary[2], Len(B))]
  BY DEF Took
<1>3. PICK p, n \in Nat : boundary = <<p, n>>
  <2> HIDE DEF B, boundary
  <2>1. \/ FindFrameBoundary(B) = <<0, 0>>
        \/ \E p, n \in Nat : FindFrameBoundary(B) = <<p, n>>
    BY <1>1, BoundaryIs
  <2> QED
    BY <2>1 DEF boundary
<1>4. p # 0
  <2>1. boundary[1] = p
    BY <1>3
  <2> HIDE DEF boundary, B
  <2> QED
    BY <1>2, <2>1
<1>5. FindFrameBoundary(all) = <<p, n>> /\ n \in 2..4 /\ p + n - 1 \in 2..Len(B)
  <2> HIDE DEF B
  <2> QED
    BY <1>1, <1>3, <1>4, BoundaryStays DEF boundary
<1> HIDE DEF B, boundary
<1>6. /\ all \in Seq(Marks) /\ Len(all) = Len(B) + Len(C)
      /\ \A i \in 1..Len(B) + Len(C) : all[i] = IF i <= Len(B) THEN B[i] ELSE C[i - Len(B)]
  BY <1>1, ConcatProperties
<1> HIDE DEF all
<1>7. SubSeq(all, 1, p - 1) = SubSeq(B, 1, p - 1)
  <2> DEFINE u == SubSeq(all, 1, p - 1)
             v == SubSeq(B, 1, p - 1)
  <2>1. /\ 1 \in Int /\ p - 1 \in Int
        /\ \A i \in 1..p - 1 : i \in 1..Len(B) /\ all[i] = B[i] /\ B[i] \in Marks /\ all[i] \in Marks
    BY <1>1, <1>5, <1>6
  <2>2. /\ u \in Seq(Marks) /\ Len(u) = IF 1 <= p - 1 THEN (p - 1) - 1 + 1 ELSE 0
        /\ \A i \in 1..(p - 1) - 1 + 1 : u[i] = all[1 + i - 1]
    BY <2>1, SubSeqProperties
  <2>3. /\ v \in Seq(Marks) /\ Len(v) = IF 1 <= p - 1 THEN (p - 1) - 1 + 1 ELSE 0
        /\ \A i \in 1..(p - 1) - 1 + 1 : v[i] = B[1 + i - 1]
    BY <2>1, SubSeqProperties
  <2> HIDE DEF u, v
  <2>4. ASSUME NEW i \in 1..Len(u) PROVE u[i] = v[i]
    <3>1. i \in 1..(p - 1) - 1 + 1 /\ 1 + i - 1 = i /\ i \in 1..p - 1
      BY <2>2, <1>4
    <3> QED
      BY <2>1, <2>2, <2>3, <3>1
  <2>5. u = v
    BY <2>2, <2>3, <2>4, SeqEqual
  <2> QED
    BY <2>5 DEF u, v
<1>8. SubSeq(all, p + n, Len(all)) = SubSeq(B, p + n, Len(B)) \o C
  <2> DEFINE u == SubSeq(all, p + n, Len(all))
             v == SubSeq(B, p + n, Len(B))
             w == v \o C
             s == p + n - 1
  <2>1. /\ p + n \in Int /\ Len(all) \in Int /\ Len(B) \in Int
        /\ \A i \in p + n..Len(B) : B[i] \in Marks
        /\ s \in 2..Len(B) /\ p + n = s + 1
    BY <1>1, <1>5, <1>6
  <2>2. \A i \in p + n..Len(all) : all[i] \in Marks
    <3>1. \A i \in 1..Len(all) : all[i] \in Marks
      BY <1>6, ElementOfSeq
    <3> QED
      BY <2>1, <3>1
  <2>3. /\ u \in Seq(Marks) /\ Len(u) = IF p + n <= Len(all) THEN Len(all) - (p + n) + 1 ELSE 0
        /\ \A i \in 1..Len(all) - (p + n) + 1 : u[i] = all[p + n + i - 1]
    BY <2>1, <2>2, SubSeqProperties
  <2>4. /\ v \in Seq(Marks) /\ Len(v) = IF p + n <= Len(B) THEN Len(B) - (p + n) + 1 ELSE 0
        /\ \A i \in 1..Len(B) - (p + n) + 1 : v[i] = B[p + n + i - 1]
    BY <2>1, SubSeqProperties
  <2> HIDE DEF u, v
  <2>5. /\ w \in Seq(Marks) /\ Len(w) = Len(v) + Len(C)
        /\ \A i \in 1..Len(v) + Len(C) : w[i] = IF i <= Len(v) THEN v[i] ELSE C[i - Len(v)]
    BY <2>4, ConcatProperties
  <2> HIDE DEF w, s
  <2>6. /\ Len(v) = Len(B) - s /\ Len(u) = Len(B) + Len(C) - s /\ Len(w) = Len(u)
        /\ \A i \in 1..Len(u) : u[i] = all[s + i]
        /\ \A i \in 1..Len(v) : v[i] = B[s + i]
    <3>1. Len(v) = Len(B) - s /\ Len(u) = Len(B) + Len(C) - s
      BY <1>1, <1>6, <2>1, <2>3, <2>4
    <3>2. \A i \in 1..Len(u) : i \in 1..Len(all) - (p + n) + 1 /\ p + n + i - 1 = s + i
      BY <1>1, <1>6, <2>1, <3>1
    <3>3. \A i \in 1..Len(v) : i \in 1..Len(B) - (p + n) + 1 /\ p + n + i - 1 = s + i
      BY <1>1, <2>1, <3>1
    <3>4. \A i \in 1..Len(u) : u[i] = all[s + i]
      BY <2>3, <3>2
    <3>5. \A i \in 1..Len(v) : v[i] = B[s + i]
      BY <2>4, <3>3
    <3>6. Len(w) = Len(u)
      BY <1>1, <2>1, <2>5, <3>1
    <3> QED
      BY <3>1, <3>4, <3>5, <3>6
  <2>7. ASSUME NEW i \in 1..Len(u) PROVE u[i] = w[i]
    <3>1. /\ i \in Nat /\ s + i \in 1..Len(B) + Len(C) /\ i \in 1..Len(v) + Len(C)
          /\ s + i <= Len(B) <=> i <= Len(v)
          /\ (s + i) - Len(B) = i - Len(v)
      BY <1>1, <2>1, <2>6
    <3>2. CASE i <= Len(v)
      <4>1. i \in 1..Len(v)
        BY <2>6, <3>2, <1>1, <2>1
      <4> QED
        BY <1>6, <2>5, <2>6, <3>1, <3>2, <4>1
    <3>3. CASE ~(i <= Len(v))
      BY <1>6, <2>5, <2>6, <3>1, <3>3
    <3> QED
      BY <3>2, <3>3
  <2>8. u = w
    BY <2>3, <2>5, <2>6, <2>7, SeqEqual
  <2> QED
    BY <2>8 DEF u, v, w
<1>9. Took(more) = [frames |-> x.frames \o ParseFrame(SubSeq(all, 1, p - 1)),
                    buffer |-> SubSeq(all, p + n, Len(all))]
  <2>1. more.buffer = all /\ more.frames = x.frames
    OBVIOUS
  <2>2. FindFrameBoundary(more.buffer)[1] = p /\ FindFrameBoundary(more.buffer)[2] = n
    BY <1>5, <2>1
  <2> HIDE DEF more
  <2> QED
    BY <1>4, <2>1, <2>2 DEF Took
<1>10. Took(x) = [frames |-> x.frames \o ParseFrame(SubSeq(B, 1, p - 1)), buffer |-> SubSeq(B, p + n, Len(B))]
  <2>1. boundary[1] = p /\ boundary[2] = n
    BY <1>3
  <2> QED
    BY <1>2, <1>4, <2>1
<1>11. /\ Took(x).frames = x.frames \o ParseFrame(SubSeq(B, 1, p - 1))
       /\ Took(x).buffer = SubSeq(B, p + n, Len(B))
  <2> DEFINE frames == x.frames \o ParseFrame(SubSeq(B, 1, p - 1))
             rest == SubSeq(B, p + n, Len(B))
             y == Took(x)
  <2>1. y = [frames |-> frames, buffer |-> rest]
    BY <1>10
  <2> HIDE DEF frames, rest, y
  <2>2. y.frames = frames /\ y.buffer = rest
    BY <2>1
  <2> QED
    BY <2>2 DEF frames, rest, y
<1>12. Took(more) = [frames |-> Took(x).frames, buffer |-> Took(x).buffer \o C]
  <2> HIDE DEF more
  <2> QED
    BY <1>7, <1>8, <1>9, <1>11
<1> QED
  BY <1>12 DEF all, B

\* What the rounds lead to: after some of them nothing changes any more.
Rounds(r, n) == \A k \in 1..n : r[k] = Took(r[k - 1])
Leads(x, y) == \E n, r : n \in Nat /\ r[0] = x /\ Rounds(r, n) /\ r[n] = y /\ Took(y) = y

LEMMA LeadsToOne ==
  ASSUME NEW x, NEW y, NEW z, Leads(x, y), Leads(x, z)
  PROVE  y = z
<1>1. ASSUME NEW m \in Nat, NEW n \in Nat, m <= n, NEW r, NEW s, r[0] = s[0], Rounds(r, m), Rounds(s, n),
             Took(r[m]) = r[m]
      PROVE  r[m] = s[n]
  <2> DEFINE S == {k \in Nat : k <= n => s[k] = IF k <= m THEN r[k] ELSE r[m]}
  <2>1. 0 \in S
    BY <1>1
  <2>2. ASSUME NEW k \in S PROVE k + 1 \in S
    <3> SUFFICES ASSUME k + 1 <= n PROVE s[k + 1] = IF k + 1 <= m THEN r[k + 1] ELSE r[m]
      OBVIOUS
    <3>1. k \in Nat /\ k <= n /\ k + 1 \in 1..n /\ (k + 1) - 1 = k
      BY <1>1
    <3>2. s[k] = IF k <= m THEN r[k] ELSE r[m]
      BY <3>1
    <3>3. s[k + 1] = Took(s[k])
      BY <1>1, <3>1 DEF Rounds
    <3> HIDE DEF S
    <3>4. CASE k + 1 <= m
      <4>1. k + 1 \in 1..m /\ k <= m
        BY <1>1, <3>1, <3>4
      <4>2. r[k + 1] = Took(r[k])
        BY <1>1, <3>1, <4>1 DEF Rounds
      <4> QED
        BY <3>2, <3>3, <3>4, <4>1, <4>2
    <3>5. CASE ~(k + 1 <= m)
      <4>1. k = m \/ ~(k <= m)
        BY <1>1, <3>1, <3>5
      <4>2. s[k] = r[m]
        BY <3>2, <4>1
      <4> QED
        BY <1>1, <3>3, <3>5, <4>2
    <3> QED
      BY <3>4, <3>5
  <2>3. S = Nat
    <3>1. S \subseteq Nat
      OBVIOUS
    <3> HIDE DEF S
    <3> QED
      BY <2>1, <2>2, <3>1, Induction
  <2>4. s[n] = IF n <= m THEN r[n] ELSE r[m]
    BY <1>1, <2>3
  <2> HIDE DEF S
  <2>5. n <= m => n = m
    BY <1>1
  <2> QED
    BY <2>4, <2>5
<1>2. PICK m, r : m \in Nat /\ r[0] = x /\ Rounds(r, m) /\ r[m] = y /\ Took(y) = y
  BY DEF Leads
<1>3. PICK n, s : n \in Nat /\ s[0] = x /\ Rounds(s, n) /\ s[n] = z /\ Took(z) = z
  BY DEF Leads
<1>4. CASE m <= n
  <2>1. r[m] = s[n]
    BY <1>1, <1>2, <1>3, <1>4
  <2> QED
    BY <1>2, <1>3, <2>1
<1>5. CASE ~(m <= n)
  <2>1. n <= m
    BY <1>2, <1>3, <1>5
  <2>2. s[n] = r[m]
    BY <1>1, <1>2, <1>3, <2>1
  <2> QED
    BY <1>2, <1>3, <2>2
<1> QED
  BY <1>4, <1>5

\* One round earlier.
LEMMA LeadsBefore ==
  ASSUME NEW x, NEW z, Leads(Took(x), z)
  PROVE  Leads(x, z)
<1>1. PICK n, s : n \in Nat /\ s[0] = Took(x) /\ Rounds(s, n) /\ s[n] = z /\ Took(z) = z
  BY DEF Leads
<1> DEFINE r == [k \in 0..n + 1 |-> IF k = 0 THEN x ELSE s[k - 1]]
<1>2. r[0] = x /\ \A k \in 1..n + 1 : r[k] = s[k - 1]
  BY <1>1
<1> HIDE DEF r
<1>3. Rounds(r, n + 1)
  <2> SUFFICES ASSUME NEW k \in 1..n + 1 PROVE r[k] = Took(r[k - 1])
    BY DEF Rounds
  <2>1. CASE k = 1
    <3>1. k - 1 = 0
      BY <2>1
    <3> QED
      BY <1>1, <1>2, <3>1
  <2>2. CASE k # 1
    <3>1. k - 1 \in 1..n /\ k - 1 \in 1..n + 1
      BY <1>1, <2>2
    <3>2. s[k - 1] = Took(s[(k - 1) - 1])
      BY <1>1, <3>1 DEF Rounds
    <3>3. r[k] = s[k - 1] /\ r[k - 1] = s[(k - 1) - 1]
      BY <1>2, <3>1
    <3> QED
      BY <3>2, <3>3
  <2> QED
    BY <2>1, <2>2
<1>4. r[n + 1] = z
  <2>1. n + 1 \in 1..n + 1 /\ (n + 1) - 1 = n
    BY <1>1
  <2> QED
    BY <1>1, <1>2, <2>1
<1>5. n + 1 \in Nat
  BY <1>1
<1> QED
  BY <1>1, <1>2, <1>3, <1>4, <1>5 DEF Leads

\* Of what has come the frames may be taken before the rest comes.
LEMMA LeadsThrough ==
  ASSUME NEW Marks, NEW x, x.buffer \in Seq(Marks), NEW C \in Seq(Marks), NEW y, Leads(x, y), NEW z,
         Leads([frames |-> y.frames, buffer |-> y.buffer \o C], z)
  PROVE  Leads([frames |-> x.frames, buffer |-> x.buffer \o C], z)
<1> DEFINE More(v) == [frames |-> v.frames, buffer |-> v.buffer \o C]
<1>1. PICK n, r : n \in Nat /\ r[0] = x /\ Rounds(r, n) /\ r[n] = y /\ Took(y) = y
  BY DEF Leads
<1>2. \A k \in 0..n : r[k].buffer \in Seq(Marks)
  <2> DEFINE S == {k \in Nat : k <= n => r[k].buffer \in Seq(Marks)}
  <2>1. 0 \in S
    BY <1>1
  <2>2. ASSUME NEW k \in S PROVE k + 1 \in S
    <3> SUFFICES ASSUME k + 1 <= n PROVE r[k + 1].buffer \in Seq(Marks)
      OBVIOUS
    <3> DEFINE v == r[k]
    <3>1. k + 1 \in 1..n /\ (k + 1) - 1 = k /\ v.buffer \in Seq(Marks)
      BY <1>1
    <3>2. r[k + 1] = Took(v)
      BY <1>1, <3>1 DEF Rounds
    <3> HIDE DEF v, S
    <3> QED
      BY <3>1, <3>2, TookIs
  <2>3. S = Nat
    <3>1. S \subseteq Nat
      OBVIOUS
    <3> HIDE DEF S
    <3> QED
      BY <2>1, <2>2, <3>1, Induction
  <2> QED
    BY <1>1, <2>3
<1> DEFINE S == {k \in Nat : k <= n => Leads(More(r[n - k]), z)}
<1>3. 0 \in S
  <2>1. n - 0 = n
    BY <1>1
  <2> QED
    BY <1>1, <2>1
<1>4. ASSUME NEW k \in S PROVE k + 1 \in S
  <2> SUFFICES ASSUME k + 1 <= n PROVE Leads(More(r[n - (k + 1)]), z)
    OBVIOUS
  <2> DEFINE at == n - (k + 1)
             v == r[at]
             w == r[n - k]
  <2>1. at \in 0..n /\ n - k \in 1..n /\ (n - k) - 1 = at /\ k <= n
    BY <1>1
  <2>2. Leads(More(w), z)
    BY <2>1
  <2>3. w = Took(v)
    BY <1>1, <2>1 DEF Rounds
  <2>4. v.buffer \in Seq(Marks)
    BY <1>2, <2>1
  <2> HIDE DEF v, w, S
  <2>5. CASE Took(v) = v
    <3>1. Leads(More(v), z)
      BY <2>2, <2>3, <2>5
    <3> QED
      BY <3>1 DEF v
  <2>6. CASE Took(v) # v
    <3>1. Took(More(v)) = More(w)
      BY <2>3, <2>4, <2>6, TookBehind
    <3> HIDE DEF More
    <3>2. Leads(More(v), z)
      BY <2>2, <3>1, LeadsBefore
    <3> QED
      BY <3>2 DEF v
  <2> QED
    BY <2>5, <2>6
<1>5. S = Nat
  <2>1. S \subseteq Nat
    OBVIOUS
  <2> HIDE DEF S
  <2> QED
    BY <1>3, <1>4, <2>1, Induction
<1>6. Leads(More(r[n - n]), z)
  <2>1. \A k \in S : k <= n => Leads(More(r[n - k]), z)
    OBVIOUS
  <2> HIDE DEF More, S
  <2> QED
    BY <1>1, <1>5, <2>1
<1>7. n - n = 0
  BY <1>1
<1> QED
  BY <1>1, <1>6, <1>7

\* takeFrames leads to its result: each round takes marks away, and there are as
\* many rounds as marks.
LEMMA TakeLeads ==
  ASSUME NEW Marks, NEW B \in Seq(Marks), NEW frames
  PROVE  /\ Leads([frames |-> frames, buffer |-> B], TakeFrames(frames, B))
         /\ TakeFrames(frames, B).buffer \in Seq(Marks)
<1> DEFINE base == [frames |-> frames, buffer |-> B]
           N == Len(B)
<1>1. N \in Nat /\ DOMAIN B = 1..N /\ base.buffer = B
  BY LenProperties
<1> HIDE DEF base
<1>2. PICK f : IsRun("took", f, base, B) /\ TakeFrames(frames, B) = f[N]
  <2> DEFINE Of(h, t) == IF t = {} THEN base ELSE Took(h[t \ {Max(t)}])
             chosen == CHOOSE h : h = [t \in SUBSET (1..N) |-> Of(h, t)]
  <2>1. \A h, t : Of(h, t) = FoldedSet("took", h, base, B, t)
    BY DEF FoldedSet, Folded, Chosen, Element
  <2>2. TakeFrames(frames, B) = chosen[1..N]
    BY <1>1 DEF TakeFrames, FoldLeft, MapThenFoldSet, Took, base
  <2> HIDE DEF Of
  <2>3. \E h : h = [t \in SUBSET (1..N) |-> Of(h, t)]
    <3>1. PICK h : FoldsOn("took", h, base, B, SUBSET (1..N))
      BY <1>1, SequenceFolds
    <3> QED
      BY <2>1, <3>1 DEF FoldsOn
  <2>4. chosen = [t \in SUBSET (1..N) |-> Of(chosen, t)]
    BY <2>3
  <2> HIDE DEF chosen
  <2>5. FoldsOn("took", chosen, base, B, SUBSET (1..N))
    BY <2>1, <2>4 DEF FoldsOn
  <2>6. PICK f : IsRun("took", f, base, B) /\ f[N] = chosen[1..N]
    BY <1>1, <2>5, FoldRuns
  <2> QED
    BY <2>2, <2>6
<1>3. f[0] = base /\ \A k \in 1..N : f[k] = Took(f[k - 1])
  BY <1>2 DEF IsRun, Folded
<1> DEFINE Gone(k) == /\ f[k].buffer \in Seq(Marks)
                      /\ Took(f[k]) = f[k] \/ Len(f[k].buffer) <= N - k
           S == {k \in Nat : k <= N => Gone(k)}
<1>4. 0 \in S
  <2>1. f[0].buffer = B
    BY <1>1, <1>3
  <2> QED
    BY <1>1, <2>1
<1>5. ASSUME NEW k \in S PROVE k + 1 \in S
  <2> SUFFICES ASSUME k + 1 <= N PROVE Gone(k + 1)
    OBVIOUS
  <2> DEFINE x == f[k]
             y == f[k + 1]
  <2>1. k \in Nat /\ k + 1 \in 1..N /\ (k + 1) - 1 = k
    BY <1>1
  <2>2. x.buffer \in Seq(Marks) /\ (Took(x) = x \/ Len(x.buffer) <= N - k)
    BY <2>1
  <2>3. y = Took(x)
    BY <1>3, <2>1
  <2> HIDE DEF x, y, S, N
  <2>4. y.buffer \in Seq(Marks) /\ (y = x \/ Len(y.buffer) < Len(x.buffer))
    BY <2>2, <2>3, TookIs
  <2>5. Len(y.buffer) \in Nat /\ Len(x.buffer) \in Nat
    BY <2>2, <2>4, LenProperties
  <2>6. Took(y) = y \/ Len(y.buffer) <= N - (k + 1)
    <3>1. CASE y = x /\ Took(x) = x
      BY <3>1
    <3>2. CASE y = x /\ Took(x) # x
      BY <2>3, <3>2
    <3>3. CASE y # x
      <4>1. Len(x.buffer) <= N - k /\ Len(y.buffer) < Len(x.buffer)
        BY <2>2, <2>3, <2>4, <3>3
      <4> QED
        BY <1>1, <2>1, <2>5, <4>1
    <3> QED
      BY <3>1, <3>2, <3>3
  <2> QED
    BY <2>4, <2>6 DEF y
<1>6. S = Nat
  <2>1. S \subseteq Nat
    OBVIOUS
  <2> HIDE DEF S
  <2> QED
    BY <1>4, <1>5, <2>1, Induction
<1>7. Gone(N)
  <2>1. \A k \in S : k <= N => Gone(k)
    OBVIOUS
  <2> HIDE DEF S, Gone
  <2> QED
    BY <1>1, <1>6, <2>1
<1> DEFINE end == f[N]
<1>8. end.buffer \in Seq(Marks) /\ (Took(end) = end \/ Len(end.buffer) <= N - N)
  BY <1>7
<1> HIDE DEF end, Gone, S
<1>9. Took(end) = end
  <2>1. \/ Took(end) = end
        \/ Len(Took(end).buffer) < Len(end.buffer) /\ Took(end).buffer \in Seq(Marks)
    BY <1>8, TookIs
  <2>2. ASSUME Took(end) # end PROVE FALSE
    <3>1. Len(Took(end).buffer) \in Nat /\ Len(end.buffer) \in Nat
      BY <1>8, <2>1, <2>2, LenProperties
    <3>2. Len(end.buffer) <= 0
      BY <1>1, <1>8, <2>2
    <3> QED
      BY <2>1, <2>2, <3>1, <3>2
  <2> QED
    BY <2>2
<1>10. Rounds(f, N)
  BY <1>3 DEF Rounds
<1>11. Leads(base, end)
  BY <1>1, <1>3, <1>9, <1>10 DEF Leads, end
<1> QED
  BY <1>2, <1>8, <1>11 DEF base, end

\* What is heard of a body that comes in pieces is a run over them.
LEMMA HeardRuns ==
  ASSUME NEW base, NEW s, Len(s) \in Nat, DOMAIN s = 1..Len(s)
  PROVE  \E f : /\ IsRun("heard", f, base, s)
                /\ FoldLeft(LAMBDA got, piece : TakeFrames(got.frames, got.buffer \o piece), base, s) = f[Len(s)]
<1> DEFINE N == Len(s)
           Of(h, t) == IF t = {} THEN base
                       ELSE TakeFrames(h[t \ {Max(t)}].frames, h[t \ {Max(t)}].buffer \o s[Max(t)])
           chosen == CHOOSE h : h = [t \in SUBSET (1..N) |-> Of(h, t)]
           result == FoldLeft(LAMBDA got, piece : TakeFrames(got.frames, got.buffer \o piece), base, s)
<1>1. \A h, t : Of(h, t) = FoldedSet("heard", h, base, s, t)
  BY DEF FoldedSet, Folded, Chosen, Element
<1>2. result = chosen[1..N]
  BY DEF FoldLeft, MapThenFoldSet
<1> HIDE DEF Of
<1>3. \E h : h = [t \in SUBSET (1..N) |-> Of(h, t)]
  <2>1. PICK h : FoldsOn("heard", h, base, s, SUBSET (1..N))
    BY SequenceFolds
  <2> QED
    BY <1>1, <2>1 DEF FoldsOn
<1>4. chosen = [t \in SUBSET (1..N) |-> Of(chosen, t)]
  BY <1>3
<1> HIDE DEF chosen
<1>5. FoldsOn("heard", chosen, base, s, SUBSET (1..N))
  BY <1>1, <1>4 DEF FoldsOn
<1>6. PICK f : IsRun("heard", f, base, s) /\ f[N] = chosen[1..N]
  BY <1>5, FoldRuns
<1>7. result = f[Len(s)]
  BY <1>2, <1>6
<1> QED
  BY <1>6, <1>7

\* The frames of a stream are those of the whole text, wherever the pieces end in which
\* it comes, within a frame, a line or an empty line (readSseFrames of sse.ts).
THEOREM PiecesDoNotMatter ==
  ASSUME NEW Marks, NEW pieces \in Seq(Seq(Marks))
  PROVE  ReadSseFrames(pieces) = ReadSseFrames(<<FlattenSeq(pieces)>>)
<1> DEFINE base == [frames |-> <<>>, buffer |-> <<>>]
           All(s) == FoldLeft(LAMBDA got, piece : TakeFrames(got.frames, got.buffer \o piece), base, s)
           From(s) == [frames |-> <<>>, buffer |-> s]
<1>1. ASSUME NEW given \in Seq(Seq(Marks))
      PROVE  Leads(From(FlattenSeq(given)), All(given)) /\ FlattenSeq(given) \in Seq(Marks)
  <2> DEFINE N == Len(given)
             all == All(given)
  <2>1. N \in Nat /\ DOMAIN given = 1..N /\ \A k \in 1..N : given[k] \in Seq(Marks)
    BY LenProperties, ElementOfSeq
  <2>2. PICK f : IsRun("heard", f, base, given) /\ all = f[N]
    <3> HIDE DEF base
    <3> QED
      BY <2>1, HeardRuns
  <2> HIDE DEF all
  <2>3. PICK h : /\ h[0] = <<>>
                 /\ \A k \in 1..N : h[k] = h[k - 1] \o given[k]
                 /\ FlattenSeq(given) = h[N]
    BY FlattenRuns
  <2>4. f[0] = base /\ \A k \in 1..N : f[k] = TakeFrames(f[k - 1].frames, f[k - 1].buffer \o given[k])
    BY <2>2 DEF IsRun, Folded
  <2> DEFINE Heard(k) == /\ h[k] \in Seq(Marks) /\ f[k].buffer \in Seq(Marks)
                         /\ Leads(From(h[k]), f[k])
             S == {k \in Nat : k <= N => Heard(k)}
  <2>5. 0 \in S
    <3> DEFINE none == <<>>
               start == [frames |-> none, buffer |-> none]
    <3>1. none \in Seq(Marks)
      BY EmptySeq
    <3>2. Took(start) = start
      <4> HIDE DEF none
      <4>1. start.buffer \in Seq(Marks) /\ start.buffer = none
        BY <3>1
      <4> HIDE DEF start
      <4>2. Took(start) = start \/ (Len(Took(start).buffer) < Len(none) /\ Took(start).buffer \in Seq(Marks))
        BY <4>1, TookIs
      <4>3. Len(none) = 0
        BY DEF none
      <4>4. Took(start).buffer \in Seq(Marks) => Len(Took(start).buffer) \in Nat
        BY LenProperties
      <4> QED
        BY <4>2, <4>3, <4>4
    <3>3. start = base /\ start = From(h[0]) /\ start.buffer = none
      BY <2>3
    <3> HIDE DEF start
    <3>4. Leads(start, start)
      <4> DEFINE r == [k \in {0} |-> start]
      <4>1. r[0] = start /\ Rounds(r, 0) /\ 0 \in Nat
        BY DEF Rounds
      <4> HIDE DEF r
      <4> QED
        BY <3>2, <4>1 DEF Leads
    <3> HIDE DEF From, base
    <3>5. Heard(0)
      BY <2>3, <2>4, <3>1, <3>3, <3>4
    <3> QED
      BY <3>5
  <2>6. ASSUME NEW k \in S PROVE k + 1 \in S
    <3> SUFFICES ASSUME k + 1 <= N PROVE Heard(k + 1)
      OBVIOUS
    <3> DEFINE got == f[k]
               piece == given[k + 1]
               text == h[k]
    <3>1. k \in Nat /\ k <= N /\ k + 1 \in 1..N /\ (k + 1) - 1 = k
      BY <2>1
    <3>2. text \in Seq(Marks) /\ got.buffer \in Seq(Marks) /\ Leads(From(text), got)
      BY <3>1
    <3>3. h[k + 1] = text \o piece /\ f[k + 1] = TakeFrames(got.frames, got.buffer \o piece)
      BY <2>3, <2>4, <3>1
    <3>4. piece \in Seq(Marks)
      BY <2>1, <3>1
    <3> HIDE DEF got, piece, text, S
    <3>5. got.buffer \o piece \in Seq(Marks) /\ text \o piece \in Seq(Marks)
      BY <3>2, <3>4, ConcatProperties
    <3> DEFINE next == TakeFrames(got.frames, got.buffer \o piece)
    <3>6. /\ Leads([frames |-> got.frames, buffer |-> got.buffer \o piece], next)
          /\ next.buffer \in Seq(Marks)
      BY <3>5, TakeLeads
    <3> HIDE DEF next
    <3>7. Leads(From(text \o piece), next)
      <4> DEFINE before == From(text)
      <4>1. before.buffer = text /\ before.frames = <<>>
        OBVIOUS
      <4> HIDE DEF before
      <4>2. Leads([frames |-> before.frames, buffer |-> before.buffer \o piece], next)
        BY <3>2, <3>4, <3>6, <4>1, LeadsThrough DEF before
      <4> QED
        BY <4>1, <4>2
    <3> HIDE DEF From
    <3> QED
      BY <3>3, <3>5, <3>6, <3>7 DEF next
  <2>7. S = Nat
    <3>1. S \subseteq Nat
      OBVIOUS
    <3> HIDE DEF S
    <3> QED
      BY <2>5, <2>6, <3>1, Induction
  <2>8. Heard(N)
    <3>1. \A k \in S : k <= N => Heard(k)
      OBVIOUS
    <3> HIDE DEF S, Heard
    <3> QED
      BY <2>1, <2>7, <3>1
  <2> HIDE DEF From
  <2> QED
    BY <2>2, <2>3, <2>8 DEF all
<1> DEFINE text == FlattenSeq(pieces)
           one == <<text>>
<1>2. text \in Seq(Marks) /\ Leads(From(text), All(pieces))
  <2> HIDE DEF From, All
  <2> QED
    BY <1>1
<1> HIDE DEF text
<1>3. one \in Seq(Seq(Marks)) /\ Len(one) = 1 /\ one[1] = text
  <2> DEFINE P == Seq(Marks)
  <2>1. text \in P
    BY <1>2
  <2> HIDE DEF P, From, All
  <2>2. \A w \in P : <<w>> \in Seq(P) /\ Len(<<w>>) = 1 /\ <<w>>[1] = w
    OBVIOUS
  <2>3. one \in Seq(P) /\ Len(one) = 1 /\ one[1] = text
    BY <2>1, <2>2
  <2> QED
    BY <2>3 DEF P
<1> HIDE DEF one
<1>4. FlattenSeq(one) = text
  <2>1. PICK h : /\ h[0] = <<>>
                 /\ \A k \in 1..Len(one) : h[k] = h[k - 1] \o one[k]
                 /\ FlattenSeq(one) = h[Len(one)]
    BY <1>3, FlattenRuns
  <2>2. h[1] = <<>> \o text
    <3>1. 1 \in 1..Len(one) /\ 1 - 1 = 0
      BY <1>3
    <3> QED
      BY <1>3, <2>1, <3>1
  <2>3. <<>> \o text = text
    BY <1>2, ConcatEmptySeq
  <2> QED
    BY <1>3, <2>1, <2>2, <2>3
<1>5. Leads(From(text), All(one))
  <2> HIDE DEF From, All
  <2> QED
    BY <1>1, <1>3, <1>4
<1>6. All(pieces) = All(one)
  <2> HIDE DEF From, All
  <2> QED
    BY <1>2, <1>5, LeadsToOne
<1>7. \A s : ReadSseFrames(s) = All(s).frames \o ParseFrame(All(s).buffer)
  BY DEF ReadSseFrames
<1> HIDE DEF All
<1> QED
  BY <1>6, <1>7 DEF one, text
=============================================================================
