---------------------------- MODULE RuntimeProofs ----------------------------
(***************************************************************************)
(* Proofs about the parts that stand around the turns of a session: the    *)
(* request, the stream of its answer, the context it is built from, the    *)
(* exploration of a subagent and the terminals.  The parts share no state, *)
(* so each has an invariant of its own, which every step of its machine    *)
(* and every step of another keeps.                                        *)
(***************************************************************************)
EXTENDS MCRuntime, SequenceTheorems, FiniteSetTheorems, WellFoundedInduction, TLAPS

-----------------------------------------------------------------------------
(* The request: as long as nothing was heard of an attempt it may be given  *)
(* up for the next one, and its connection is let go first.                 *)

RequestInv ==
  /\ Http!TypeOK /\ Http!OneAnswer
  /\ phase \in {"retrying", "backoff"} => connections = {}

\* What an attempt adds to what was heard.
LEMMA HeardMore ==
  ASSUME NEW a \in 0..MaxRetries, NEW s \in Seq(0..MaxRetries), s # <<>> => Http!ToSet(s) = {a}
  PROVE  Append(s, a) \in Seq(0..MaxRetries) /\ Http!ToSet(Append(s, a)) = {a} /\ Append(s, a) # <<>>
<1> DEFINE t == Append(s, a)
<1>1. /\ t \in Seq(0..MaxRetries) /\ Len(t) = Len(s) + 1 /\ Len(s) \in Nat
      /\ \A i \in 1..Len(s) : t[i] = s[i]
      /\ t[Len(s) + 1] = a
  OBVIOUS
<1> HIDE DEF t
<1>2. DOMAIN t = 1..Len(s) + 1 /\ DOMAIN s = 1..Len(s)
  BY <1>1
<1>3. \A i \in DOMAIN s : s[i] = a
  <2>1. CASE s = <<>>
    BY <2>1
  <2>2. CASE s # <<>>
    BY <2>2 DEF Http!ToSet
  <2> QED
    BY <2>1, <2>2
<1>4. \A i \in DOMAIN t : t[i] = a
  BY <1>1, <1>2, <1>3
<1>5. a \in Http!ToSet(t)
  BY <1>1, <1>2 DEF Http!ToSet
<1>6. \A x \in Http!ToSet(t) : x = a
  BY <1>4 DEF Http!ToSet
<1> QED
  BY <1>1, <1>5, <1>6 DEF t

LEMMA RequestInit == PartsInit => RequestInv
<1> SUFFICES ASSUME PartsInit
             PROVE  RequestInv
  OBVIOUS
<1>1. MaxRetries \in Nat
  BY PartsAssumption DEF PartsAssumption
<1>2. /\ phase \in {"fetch", "over"} /\ attempt = 0 /\ connections \subseteq {0} /\ heard = <<>>
      /\ cut = FALSE /\ status = 0 /\ outcome = "none" /\ (phase = "over" => connections = {})
  BY DEF PartsInit, Http!Init
<1>3. 0 \in 0..MaxRetries /\ heard \in Seq(0..MaxRetries)
  BY <1>1, <1>2
<1> QED
  BY <1>2, <1>3 DEF RequestInv, Http!TypeOK, Http!OneAnswer, Http!Phases, Http!Statuses, Http!Outcomes

\* An attempt that is given up lets its connection go, and the next one begins
\* with none.
LEMMA TriesAgain ==
  ASSUME RequestInv, phase \in {"fetch", "firstByte", "errorBody"},
         NEW end \in Http!Outcomes, NEW retryable \in BOOLEAN, Http!TryAgain(end, retryable)
  PROVE  RequestInv'
<1> USE DEF RequestInv
<1>1. Http!TypeOK /\ Http!OneAnswer
  OBVIOUS
<1>2. connections' = {}
  BY <1>1 DEF Http!TryAgain, Http!OneAnswer
<1>3. heard' = heard /\ heard = <<>> /\ cut' = cut /\ status' = status
  BY <1>1 DEF Http!TryAgain, Http!OneAnswer
<1>4. \/ phase' = "over" /\ attempt' = attempt /\ outcome' \in Http!Outcomes
      \/ phase' = "retrying" /\ attempt' = attempt + 1 /\ attempt < MaxRetries /\ outcome' = outcome
  <2>1. attempt \in 0..MaxRetries /\ MaxRetries \in Nat
    BY <1>1, PartsAssumption DEF Http!TypeOK, PartsAssumption
  <2>2. CASE cut \/ ~retryable \/ attempt >= MaxRetries
    BY <2>2 DEF Http!TryAgain, Http!End, Http!Outcomes
  <2>3. CASE ~(cut \/ ~retryable \/ attempt >= MaxRetries)
    BY <2>1, <2>3 DEF Http!TryAgain
  <2> QED
    BY <2>2, <2>3
<1>5. attempt' \in 0..MaxRetries
  BY <1>1, <1>4, PartsAssumption DEF Http!TypeOK, PartsAssumption
<1>6. Http!TypeOK'
  BY <1>1, <1>2, <1>3, <1>4, <1>5 DEF Http!TypeOK, Http!Phases
<1>7. Http!OneAnswer'
  BY <1>2, <1>3 DEF Http!OneAnswer
<1> QED
  BY <1>2, <1>6, <1>7

LEMMA RequestStep ==
  ASSUME RequestInv, Http!Next
  PROVE  RequestInv'
<1> USE DEF RequestInv
<1>1. Http!TypeOK /\ Http!OneAnswer
  OBVIOUS
<1>2. /\ {"provider_error", "timeout", "rate_limited", "context_overflow"} \subseteq Http!Outcomes
      /\ {TRUE, FALSE} \subseteq BOOLEAN
  BY DEF Http!Outcomes
<1>3. ASSUME Http!Fails \/ Http!FirstByteTimeout
      PROVE  RequestInv'
  BY <1>2, <1>3, TriesAgain DEF Http!Fails, Http!FirstByteTimeout, Http!Waiting
<1>4. ASSUME Http!Answers
      PROVE  RequestInv'
  <2>1. Http!TypeOK'
    BY <1>1, <1>4 DEF Http!Answers, Http!End, Http!TypeOK, Http!Phases, Http!Outcomes
  <2>2. Http!OneAnswer' /\ phase' \notin {"retrying", "backoff"}
    BY <1>1, <1>4 DEF Http!Answers, Http!End, Http!OneAnswer
  <2> QED
    BY <2>1, <2>2
<1>5. ASSUME Http!ErrorBodyRead
      PROVE  RequestInv'
  <2>1. Http!ClassifyHttpError(status) \in Http!Outcomes
    BY <1>2 DEF Http!ClassifyHttpError
  <2>2. Http!IsRetryableStatus(status) \in BOOLEAN
    BY DEF Http!IsRetryableStatus
  <2> QED
    BY <1>5, <2>1, <2>2, TriesAgain DEF Http!ErrorBodyRead
<1>6. ASSUME Http!Slept
      PROVE  RequestInv'
  <2>1. connections = {} /\ heard = <<>>
    BY <1>1, <1>6 DEF Http!Slept, Http!OneAnswer
  <2>2. Http!TypeOK'
    BY <1>1, <1>6, <2>1 DEF Http!Slept, Http!End, Http!TypeOK, Http!Phases, Http!Outcomes
  <2>3. Http!OneAnswer' /\ phase' \notin {"retrying", "backoff"}
    BY <1>6, <2>1 DEF Http!Slept, Http!End, Http!OneAnswer
  <2> QED
    BY <2>2, <2>3
<1>7. ASSUME Http!FirstByte
      PROVE  RequestInv'
  BY <1>7 DEF Http!FirstByte, Http!TypeOK, Http!OneAnswer, Http!Phases
<1>8. ASSUME Http!Recorded
      PROVE  RequestInv'
  <2>1. CASE phase = "retrying"
    BY <1>8, <2>1 DEF Http!Recorded, Http!TypeOK, Http!OneAnswer, Http!Phases
  <2>2. CASE phase = "connected"
    <3>1. heard = <<>>
      BY <1>1, <2>2 DEF Http!OneAnswer
    <3>2. heard \in Seq(0..MaxRetries) /\ attempt \in 0..MaxRetries
      BY <1>1 DEF Http!TypeOK
    <3>3. heard' \in Seq(0..MaxRetries) /\ Http!ToSet(heard') = {attempt}
      <4>1. heard' = Append(heard, attempt)
        BY <1>8, <2>2 DEF Http!Recorded
      <4> QED
        BY ONLY <3>1, <3>2, <4>1, HeardMore
    <3>4. phase' = "streaming" /\ UNCHANGED <<attempt, connections, cut, status, outcome>>
      BY <1>8, <2>2 DEF Http!Recorded
    <3> QED
      BY <1>1, <3>3, <3>4 DEF Http!TypeOK, Http!OneAnswer, Http!Phases
  <2> QED
    BY <1>8, <2>1, <2>2 DEF Http!Recorded
<1>9. ASSUME Http!RecordFails
      PROVE  RequestInv'
  <2>1. heard = <<>>
    BY <1>1, <1>9 DEF Http!RecordFails, Http!OneAnswer
  <2> QED
    BY <1>9, <2>1 DEF Http!RecordFails, Http!End, Http!TypeOK, Http!OneAnswer, Http!Phases, Http!Outcomes
<1>10. ASSUME Http!Chunk
       PROVE  RequestInv'
  <2>1. heard \in Seq(0..MaxRetries) /\ attempt \in 0..MaxRetries
    BY <1>1 DEF Http!TypeOK
  <2>2. heard # <<>> => Http!ToSet(heard) = {attempt}
    BY <1>1 DEF Http!OneAnswer
  <2>3. heard' \in Seq(0..MaxRetries) /\ Http!ToSet(heard') = {attempt}
    <3>1. heard' = Append(heard, attempt)
      BY <1>10 DEF Http!Chunk
    <3> QED
      BY ONLY <2>1, <2>2, <3>1, HeardMore
  <2> QED
    BY <1>1, <1>10, <2>3 DEF Http!Chunk, Http!TypeOK, Http!OneAnswer
<1>11. ASSUME NEW end \in {"ok", "provider_error", "timeout"}, Http!BodyEnds(end)
       PROVE  RequestInv'
  <2>1. connections' = {} /\ phase' = "over" /\ outcome' \in Http!Outcomes
        /\ UNCHANGED <<attempt, heard, cut, status>>
    BY <1>1, <1>11 DEF Http!BodyEnds, Http!End, Http!OneAnswer, Http!Outcomes
  <2> QED
    BY <1>1, <2>1 DEF Http!TypeOK, Http!OneAnswer, Http!Phases
<1>12. ASSUME Http!Stop
       PROVE  RequestInv'
  BY <1>1, <1>12 DEF Http!Stop, Http!TypeOK, Http!OneAnswer
<1> QED
  BY <1>3, <1>4, <1>5, <1>6, <1>7, <1>8, <1>9, <1>10, <1>11, <1>12
  DEF Http!Next, Http!Done, Http!Breaks, Http!IdleTimeout

\* What is heard comes from one attempt, and no other connection is held, whatever
\* the server, the clock and the user do (http.ts).
THEOREM AnswerCorrect == PartsSpec => []OneAnswer
<1>1. PartsInit => RequestInv
  BY RequestInit
<1>2. RequestInv /\ [PartsNext]_partsVars => RequestInv'
  <2> SUFFICES ASSUME RequestInv, [PartsNext]_partsVars
               PROVE  RequestInv'
    OBVIOUS
  <2>1. CASE Http!Next
    BY <2>1, RequestStep
  <2>2. CASE UNCHANGED httpVars
    BY <2>2 DEF httpVars, RequestInv, Http!TypeOK, Http!OneAnswer
  <2>3. Http!Next \/ UNCHANGED httpVars
    BY DEF PartsNext, Moves, partsVars
  <2> QED
    BY <2>1, <2>2, <2>3
<1>3. RequestInv => OneAnswer
  BY DEF RequestInv, OneAnswer
<1> QED
  BY <1>1, <1>2, <1>3, PTL DEF PartsSpec

LEMMA SameStreamCount == \A S : Stream!Cardinality(S) = Cardinality(S)
BY DEF Stream!Cardinality, Cardinality

-----------------------------------------------------------------------------
(* The stream of an answer: what is counted in it.                          *)

ChunkKinds == {"tool_call_start", "tool_call_delta", "tool_call_end", "usage", "end_turn", "tool_use",
               "thrown", "aborted"}
Chunks == [kind : ChunkKinds, call : Calls \cup {"none"}]
Places(s, e) == {i \in 1..Len(s) : s[i] = e}
Counted(s, e) == Cardinality(Places(s, e))

\* What is not in the rest is counted as before; what is once in the rest is
\* counted once more.
LEMMA CountRest ==
  ASSUME NEW s \in Seq(Chunks), NEW t \in Seq(Chunks), NEW e
  PROVE  /\ Places(t, e) = {} => Counted(s \o t, e) = Counted(s, e)
         /\ \A k : Places(t, e) = {k} => Counted(s \o t, e) = Counted(s, e) + 1
         /\ Counted(s, e) \in Nat
<1> DEFINE u == s \o t
<1>1. /\ Len(u) = Len(s) + Len(t) /\ Len(s) \in Nat /\ Len(t) \in Nat
      /\ \A i \in 1..Len(s) : u[i] = s[i]
      /\ \A i \in 1..Len(t) : u[Len(s) + i] = t[i]
  OBVIOUS
<1> HIDE DEF u
<1>2. IsFiniteSet(Places(s, e)) /\ Counted(s, e) \in Nat
  <2>1. Places(s, e) \subseteq 1..Len(s) /\ IsFiniteSet(1..Len(s))
    BY <1>1, FS_Interval DEF Places
  <2> QED
    BY <2>1, FS_Subset, FS_CardinalityType DEF Counted
<1>3. ASSUME NEW i \in 1..Len(u) PROVE i \in 1..Len(s) \/ (i - Len(s) \in 1..Len(t) /\ u[i] = t[i - Len(s)])
  <2>1. CASE i \in 1..Len(s)
    BY <2>1
  <2>2. CASE i - Len(s) \in 1..Len(t)
    <3>1. Len(s) + (i - Len(s)) = i
      BY <1>1
    <3> QED
      BY <1>1, <2>2, <3>1
  <2> QED
    BY <1>1, <2>1, <2>2
<1>4. \A i \in 1..Len(s) : i \in 1..Len(u)
  BY <1>1
<1>5. ASSUME Places(t, e) = {} PROVE Counted(u, e) = Counted(s, e)
  <2>1. \A j \in 1..Len(t) : t[j] # e
    BY <1>5 DEF Places
  <2>2. \A i \in 1..Len(u) : u[i] = e => i \in 1..Len(s)
    BY <1>3, <2>1
  <2>3. Places(u, e) = Places(s, e)
    BY <1>1, <1>4, <2>2 DEF Places
  <2> QED
    BY <2>3 DEF Counted
<1>6. ASSUME NEW k, Places(t, e) = {k} PROVE Counted(u, e) = Counted(s, e) + 1
  <2>1. k \in 1..Len(t) /\ t[k] = e /\ \A j \in 1..Len(t) : t[j] = e => j = k
    BY <1>6 DEF Places
  <2>2. Len(s) + k \in 1..Len(u) /\ u[Len(s) + k] = e /\ Len(s) + k \notin 1..Len(s)
    BY <1>1, <2>1
  <2>3. Places(u, e) = Places(s, e) \cup {Len(s) + k} /\ Len(s) + k \notin Places(s, e)
    <3>1. ASSUME NEW i \in 1..Len(u), u[i] = e PROVE i \in 1..Len(s) \/ i = Len(s) + k
      <4>1. CASE i - Len(s) \in 1..Len(t) /\ u[i] = t[i - Len(s)]
        <5>1. i - Len(s) = k
          BY <2>1, <3>1, <4>1
        <5> QED
          BY <1>1, <5>1
      <4> QED
        BY <1>3, <4>1
    <3> QED
      BY <1>1, <1>4, <2>2, <3>1 DEF Places
  <2> QED
    BY <1>2, <2>3, FS_AddElement DEF Counted
<1> QED
  BY <1>2, <1>5, <1>6 DEF u

\* Short rests.
LEMMA CountOne ==
  ASSUME NEW x \in Chunks, NEW e
  PROVE  /\ <<x>> \in Seq(Chunks)
         /\ x # e => Places(<<x>>, e) = {}
         /\ x = e => Places(<<x>>, e) = {1}
BY DEF Places

LEMMA CountTwo ==
  ASSUME NEW x \in Chunks, NEW y \in Chunks, NEW e
  PROVE  /\ <<x, y>> \in Seq(Chunks)
         /\ x # e /\ y # e => Places(<<x, y>>, e) = {}
         /\ x = e /\ y # e => Places(<<x, y>>, e) = {1}
         /\ x # e /\ y = e => Places(<<x, y>>, e) = {2}
BY DEF Places

\* A set stands in a sequence that has each of its members once.
LEMMA InSequence ==
  ASSUME NEW S, IsFiniteSet(S)
  PROVE  /\ Cardinality(S) \in Nat
         /\ Stream!SetToSeq(S) \in [1..Cardinality(S) -> S]
         /\ \A i, j \in 1..Cardinality(S) : Stream!SetToSeq(S)[i] = Stream!SetToSeq(S)[j] => i = j
<1>1. Cardinality(S) \in Nat /\ ExistsBijection(1..Cardinality(S), S)
  BY FS_CardinalityType
<1>2. PICK f \in [1..Cardinality(S) -> S] : IsInjective(f)
  BY <1>1 DEF ExistsBijection, Bijection, Injection, IsInjective
<1>3. Stream!SetToSeq(S) = CHOOSE h \in [1..Cardinality(S) -> S] : IsInjective(h)
  BY SameStreamCount DEF Stream!SetToSeq, Stream!IsInjective, IsInjective
<1> DEFINE g == Stream!SetToSeq(S)
<1>4. g \in [1..Cardinality(S) -> S] /\ IsInjective(g)
  BY <1>2, <1>3
<1> HIDE DEF g
<1> QED
  BY <1>1, <1>4 DEF IsInjective, g

-----------------------------------------------------------------------------
Begun(c)  == Stream!Chunk("tool_call_start", c)
Part(c)   == Stream!Chunk("tool_call_delta", c)
Closed(c) == Stream!Chunk("tool_call_end", c)

StreamTypes ==
  /\ dialect \in {"anthropic", "openai"} /\ block \in seen \cup {"none"}
  /\ sent \in [Calls -> 0..Pieces] /\ named = seen /\ seen \subseteq Calls /\ IsFiniteSet(seen)
  /\ stopReason \in {"end_turn", "tool_use"} /\ chunks \in Seq(Chunks) /\ over \in BOOLEAN
  /\ dialect = "openai" => block = "none"

\* What was yielded of a call, and what the decoder knows of it.
Yielded(c) ==
  /\ Counted(chunks, Begun(c)) = IF c \in seen THEN 1 ELSE 0
  /\ Counted(chunks, Part(c)) = sent[c]
  /\ ~over /\ dialect = "openai" => Counted(chunks, Closed(c)) = 0
  /\ ~over /\ dialect = "anthropic" =>
       /\ Counted(chunks, Closed(c)) = IF c \in seen /\ block # c THEN 1 ELSE 0
       /\ c \in seen /\ block # c => sent[c] = Pieces
  /\ ~early /\ Counted(chunks, Closed(c)) > 0 =>
       Counted(chunks, Closed(c)) = 1 /\ c \in seen /\ sent[c] = Pieces

StreamInv == StreamTypes /\ \A c \in Calls : Yielded(c)

LEMMA ChunksAre ==
  /\ \A c \in Calls, k \in ChunkKinds : Stream!Chunk(k, c) \in Chunks
  /\ \A k \in ChunkKinds : Stream!Chunk(k, "none") \in Chunks
  /\ \A c, d : Begun(c) # Part(d) /\ Begun(c) # Closed(d) /\ Part(c) # Closed(d)
  /\ \A c, d : c # d => Begun(c) # Begun(d) /\ Part(c) # Part(d) /\ Closed(c) # Closed(d)
  /\ \A c, k : k \notin {"tool_call_start", "tool_call_delta", "tool_call_end"} =>
       \A d : Stream!Chunk(k, c) # Begun(d) /\ Stream!Chunk(k, c) # Part(d) /\ Stream!Chunk(k, c) # Closed(d)
BY DEF Stream!Chunk, Chunks, ChunkKinds, Begun, Part, Closed

LEMMA StreamInit == PartsInit => StreamInv
<1> SUFFICES ASSUME PartsInit
             PROVE  StreamInv
  OBVIOUS
<1>1. Stream!Init
  BY DEF PartsInit
<1>2. IsFiniteSet({}) /\ Cardinality({}) = 0
  BY FS_EmptySet
<1>3. \A e : Counted(chunks, e) = 0
  <2>1. \A e : Places(chunks, e) = {}
    BY <1>1 DEF Stream!Init, Places
  <2> QED
    BY <1>2, <2>1 DEF Counted
<1>4. StreamTypes
  <2>1. sent \in [Calls -> 0..Pieces]
    BY <1>1, PartsAssumption DEF Stream!Init, PartsAssumption
  <2>2. chunks \in Seq(Chunks)
    BY <1>1 DEF Stream!Init
  <2> QED
    BY <1>1, <1>2, <2>1, <2>2 DEF Stream!Init, StreamTypes
<1> QED
  BY <1>1, <1>3, <1>4 DEF Stream!Init, StreamInv, Yielded

\* A block opens, goes on and closes; a piece of a call arrives.
LEMMA PieceStep ==
  ASSUME StreamInv, NEW c \in Calls,
         \/ Stream!ContentBlockStart(c) \/ Stream!ContentBlockDelta(c)
         \/ Stream!ContentBlockStop(c) \/ Stream!ToolCallPiece(c)
  PROVE  StreamInv'
<1>1. StreamTypes /\ \A d \in Calls : Yielded(d)
  BY DEF StreamInv
<1>2. chunks \in Seq(Chunks) /\ c # "none" /\ Pieces \in Nat
  BY <1>1, PartsAssumption DEF StreamTypes, PartsAssumption
<1> DEFINE b == Begun(c)  p == Part(c)  e == Closed(c)
<1>3. /\ b \in Chunks /\ p \in Chunks /\ e \in Chunks /\ b # p /\ b # e /\ p # e
      /\ \A d : /\ b # Part(d) /\ b # Closed(d) /\ p # Begun(d) /\ p # Closed(d) /\ e # Begun(d) /\ e # Part(d)
                /\ d # c => b # Begun(d) /\ p # Part(d) /\ e # Closed(d)
  BY DEF Begun, Part, Closed, Stream!Chunk, Chunks, ChunkKinds
<1>4. IsFiniteSet(seen \cup {c})
  BY <1>1, FS_AddElement DEF StreamTypes
<1>5. \A x : Counted(chunks, x) \in Nat
  BY <1>2, CountRest
<1>6. ASSUME NEW x \in Chunks, chunks' = chunks \o <<x>>
      PROVE  /\ chunks' \in Seq(Chunks)
             /\ Counted(chunks', x) = Counted(chunks, x) + 1
             /\ \A y : y # x => Counted(chunks', y) = Counted(chunks, y)
  <2>1. <<x>> \in Seq(Chunks) /\ Places(<<x>>, x) = {1} /\ \A y : y # x => Places(<<x>>, y) = {}
    BY CountOne
  <2>2. chunks' \in Seq(Chunks)
    BY <1>2, <1>6, <2>1
  <2>3. Counted(chunks', x) = Counted(chunks, x) + 1
    BY <1>2, <1>6, <2>1, CountRest
  <2>4. ASSUME NEW y, y # x PROVE Counted(chunks', y) = Counted(chunks, y)
    BY <1>2, <1>6, <2>1, <2>4, CountRest
  <2> QED
    BY <2>2, <2>3, <2>4
<1>7. ASSUME Stream!ContentBlockStart(c)
      PROVE  StreamInv'
  <2>1. /\ ~over /\ dialect = "anthropic" /\ block = "none" /\ c \notin seen
        /\ block' = c /\ seen' = seen \cup {c} /\ named' = named \cup {c}
        /\ chunks' = chunks \o <<b>>
        /\ UNCHANGED <<dialect, sent, stopReason, early, stopped, over>>
    BY <1>7 DEF Stream!ContentBlockStart, Stream!Reading, Stream!Yield, Begun
  <2> HIDE DEF b, p, e
  <2>2. /\ chunks' \in Seq(Chunks) /\ Counted(chunks', b) = Counted(chunks, b) + 1
        /\ \A y : y # b => Counted(chunks', y) = Counted(chunks, y)
    BY <1>3, <1>6, <2>1
  <2>3. StreamTypes'
    BY <1>1, <1>4, <2>1, <2>2 DEF StreamTypes
  <2>4. ASSUME NEW d \in Calls PROVE Yielded(d)'
    <3>1. CASE d = c
      <4>1. Counted(chunks', Begun(d)) = 1 /\ Counted(chunks', Part(d)) = sent[d]
            /\ Counted(chunks', Closed(d)) = 0
        BY <1>1, <1>3, <2>1, <2>2, <3>1 DEF Yielded, b
      <4> QED
        BY <2>1, <3>1, <4>1 DEF Yielded
    <3>2. CASE d # c
      <4>1. /\ Counted(chunks', Begun(d)) = Counted(chunks, Begun(d))
            /\ Counted(chunks', Part(d)) = Counted(chunks, Part(d))
            /\ Counted(chunks', Closed(d)) = Counted(chunks, Closed(d))
        BY <1>3, <2>2, <3>2
      <4>2. d # "none"
        BY PartsAssumption DEF PartsAssumption
      <4> QED
        BY <1>1, <2>1, <3>2, <4>1, <4>2 DEF Yielded
    <3> QED
      BY <3>1, <3>2
  <2> QED
    BY <2>3, <2>4 DEF StreamInv
<1>8. ASSUME Stream!ContentBlockDelta(c)
      PROVE  StreamInv'
  <2>1. /\ ~over /\ dialect = "anthropic" /\ block = c /\ sent[c] < Pieces
        /\ sent' = [sent EXCEPT ![c] = @ + 1] /\ chunks' = chunks \o <<p>>
        /\ UNCHANGED <<dialect, block, named, seen, stopReason, early, stopped, over>>
    BY <1>8 DEF Stream!ContentBlockDelta, Stream!Reading, Stream!Yield, Part
  <2> HIDE DEF b, p, e
  <2>2. /\ chunks' \in Seq(Chunks) /\ Counted(chunks', p) = Counted(chunks, p) + 1
        /\ \A y : y # p => Counted(chunks', y) = Counted(chunks, y)
    BY <1>3, <1>6, <2>1
  <2>3. /\ sent' \in [Calls -> 0..Pieces] /\ sent'[c] = sent[c] + 1
        /\ \A d \in Calls : d # c => sent'[d] = sent[d]
    BY <1>1, <1>2, <2>1 DEF StreamTypes
  <2>4. StreamTypes'
    BY <1>1, <2>1, <2>2, <2>3 DEF StreamTypes
  <2>5. ASSUME NEW d \in Calls PROVE Yielded(d)'
    <3>1. CASE d = c
      <4>1. /\ Counted(chunks', Begun(d)) = Counted(chunks, Begun(d))
            /\ Counted(chunks', Part(d)) = sent'[d]
            /\ Counted(chunks', Closed(d)) = Counted(chunks, Closed(d))
        BY <1>1, <1>3, <2>2, <2>3, <3>1 DEF Yielded, p
      <4>2. Counted(chunks, Closed(d)) = 0
        BY <1>1, <2>1, <3>1 DEF Yielded
      <4> QED
        BY <1>1, <2>1, <3>1, <4>1, <4>2 DEF Yielded
    <3>2. CASE d # c
      <4>1. /\ Counted(chunks', Begun(d)) = Counted(chunks, Begun(d))
            /\ Counted(chunks', Part(d)) = Counted(chunks, Part(d))
            /\ Counted(chunks', Closed(d)) = Counted(chunks, Closed(d))
        BY <1>3, <2>2, <3>2
      <4> QED
        BY <1>1, <2>1, <2>3, <3>2, <4>1 DEF Yielded
    <3> QED
      BY <3>1, <3>2
  <2> QED
    BY <2>4, <2>5 DEF StreamInv
<1>9. ASSUME Stream!ContentBlockStop(c)
      PROVE  StreamInv'
  <2>1. /\ ~over /\ dialect = "anthropic" /\ block = c /\ sent[c] = Pieces
        /\ block' = "none" /\ chunks' = chunks \o <<e>>
        /\ UNCHANGED <<dialect, sent, named, seen, stopReason, early, stopped, over>>
    BY <1>9 DEF Stream!ContentBlockStop, Stream!Reading, Stream!Yield, Closed
  <2> HIDE DEF b, p, e
  <2>2. /\ chunks' \in Seq(Chunks) /\ Counted(chunks', e) = Counted(chunks, e) + 1
        /\ \A y : y # e => Counted(chunks', y) = Counted(chunks, y)
    BY <1>3, <1>6, <2>1
  <2>3. StreamTypes'
    BY <1>1, <2>1, <2>2 DEF StreamTypes
  <2>4. ASSUME NEW d \in Calls PROVE Yielded(d)'
    <3>1. d # "none"
      BY PartsAssumption DEF PartsAssumption
    <3>2. CASE d = c
      <4>1. /\ Counted(chunks', Begun(d)) = Counted(chunks, Begun(d))
            /\ Counted(chunks', Part(d)) = Counted(chunks, Part(d))
            /\ Counted(chunks', Closed(d)) = 1
        BY <1>1, <1>3, <2>1, <2>2, <3>2 DEF Yielded, e
      <4>2. c \in seen
        BY <1>1, <1>2, <2>1 DEF StreamTypes
      <4> QED
        BY <1>1, <2>1, <3>1, <3>2, <4>1, <4>2 DEF Yielded
    <3>3. CASE d # c
      <4>1. /\ Counted(chunks', Begun(d)) = Counted(chunks, Begun(d))
            /\ Counted(chunks', Part(d)) = Counted(chunks, Part(d))
            /\ Counted(chunks', Closed(d)) = Counted(chunks, Closed(d))
        BY <1>3, <2>2, <3>3
      <4> QED
        BY <1>1, <2>1, <3>1, <3>3, <4>1 DEF Yielded
    <3> QED
      BY <3>2, <3>3
  <2> QED
    BY <2>3, <2>4 DEF StreamInv
<1>10. ASSUME Stream!ToolCallPiece(c)
       PROVE  StreamInv'
  <2>1. /\ ~over /\ dialect = "openai" /\ sent[c] < Pieces
        /\ sent' = [sent EXCEPT ![c] = @ + 1]
        /\ seen' = seen \cup {c} /\ named' = named \cup {c}
        /\ chunks' = chunks \o ((IF c \in named THEN <<>> ELSE <<b>>) \o <<p>>)
        /\ UNCHANGED <<dialect, block, stopReason, early, stopped, over>>
    BY <1>10 DEF Stream!ToolCallPiece, Stream!Reading, Stream!Yield, Begun, Part
  <2>2. c \in named <=> c \in seen
    BY <1>1 DEF StreamTypes
  <2> HIDE DEF b, p, e
  <2>3. /\ chunks' \in Seq(Chunks)
        /\ Counted(chunks', p) = Counted(chunks, p) + 1
        /\ Counted(chunks', b) = IF c \in seen THEN Counted(chunks, b) ELSE Counted(chunks, b) + 1
        /\ \A y : y # p /\ y # b => Counted(chunks', y) = Counted(chunks, y)
    <3>1. CASE c \in seen
      <4>1. chunks' = chunks \o <<p>>
        BY <1>3, <2>1, <2>2, <3>1
      <4> QED
        BY <1>3, <1>6, <3>1, <4>1
    <3>2. CASE c \notin seen
      <4>1. chunks' = chunks \o <<b, p>>
        BY <1>3, <2>1, <2>2, <3>2
      <4>2. <<b, p>> \in Seq(Chunks) /\ chunks' \in Seq(Chunks)
        BY <1>2, <1>3, <4>1
      <4>3. Places(<<b, p>>, p) = {2} /\ Places(<<b, p>>, b) = {1} /\ \A y : y # p /\ y # b => Places(<<b, p>>, y) = {}
        BY <1>3, CountTwo
      <4>4. Counted(chunks', p) = Counted(chunks, p) + 1
        BY <1>2, <4>1, <4>2, <4>3, CountRest
      <4>5. Counted(chunks', b) = Counted(chunks, b) + 1
        BY <1>2, <4>1, <4>2, <4>3, CountRest
      <4>6. \A y : y # p /\ y # b => Counted(chunks', y) = Counted(chunks, y)
        BY <1>2, <4>1, <4>2, <4>3, CountRest
      <4> QED
        BY <3>2, <4>2, <4>4, <4>5, <4>6
    <3> QED
      BY <3>1, <3>2
  <2>4. /\ sent' \in [Calls -> 0..Pieces] /\ sent'[c] = sent[c] + 1
        /\ \A d \in Calls : d # c => sent'[d] = sent[d]
    BY <1>1, <1>2, <2>1 DEF StreamTypes
  <2>5. StreamTypes'
    BY <1>1, <1>4, <2>1, <2>3, <2>4 DEF StreamTypes
  <2>6. ASSUME NEW d \in Calls PROVE Yielded(d)'
    <3>1. CASE d = c
      <4>1. /\ Counted(chunks', Begun(d)) = 1
            /\ Counted(chunks', Part(d)) = sent'[d]
            /\ Counted(chunks', Closed(d)) = 0
        <5>1. Counted(chunks', Begun(d)) = 1
          BY <1>1, <2>3, <3>1 DEF Yielded, b
        <5>2. Counted(chunks', Part(d)) = sent'[d]
          BY <1>1, <2>3, <2>4, <3>1 DEF Yielded, p
        <5>3. Counted(chunks', Closed(d)) = 0
          BY <1>1, <1>3, <2>1, <2>3, <3>1 DEF Yielded
        <5> QED
          BY <5>1, <5>2, <5>3
      <4> QED
        BY <2>1, <3>1, <4>1 DEF Yielded
    <3>2. CASE d # c
      <4>1. /\ Counted(chunks', Begun(d)) = Counted(chunks, Begun(d))
            /\ Counted(chunks', Part(d)) = Counted(chunks, Part(d))
            /\ Counted(chunks', Closed(d)) = Counted(chunks, Closed(d))
        BY <1>3, <2>3, <3>2
      <4> QED
        BY <1>1, <2>1, <2>4, <3>2, <4>1 DEF Yielded
    <3> QED
      BY <3>1, <3>2
  <2> QED
    BY <2>5, <2>6 DEF StreamInv
<1> QED
  BY <1>7, <1>8, <1>9, <1>10

\* Of a call nothing more is yielded when the stream is over, but for the ends an
\* OpenAI stream is closed with.
LEMMA RestStep ==
  ASSUME StreamInv, Stream!FinishReason \/ Stream!StreamEnds \/ Stream!StreamFails \/ Stream!Aborted \/ Stream!Stop
  PROVE  StreamInv'
<1>1. StreamTypes /\ \A d \in Calls : Yielded(d)
  BY DEF StreamInv
<1>2. chunks \in Seq(Chunks) /\ Pieces \in Nat
  BY <1>1, PartsAssumption DEF StreamTypes, PartsAssumption
<1>3. ASSUME NEW x \in Chunks, chunks' = chunks \o <<x>>, ~over, over' = TRUE,
             UNCHANGED <<dialect, block, sent, named, seen, stopReason, early>>,
             \A d : x # Begun(d) /\ x # Part(d) /\ x # Closed(d)
      PROVE  StreamInv'
  <2>1. /\ chunks' \in Seq(Chunks)
        /\ \A y : y # x => Counted(chunks', y) = Counted(chunks, y)
    <3>1. <<x>> \in Seq(Chunks) /\ \A y : y # x => Places(<<x>>, y) = {}
      BY CountOne
    <3>2. chunks' \in Seq(Chunks)
      BY <1>2, <1>3, <3>1
    <3>3. ASSUME NEW y, y # x PROVE Counted(chunks', y) = Counted(chunks, y)
      BY <1>2, <1>3, <3>1, <3>3, CountRest
    <3> QED
      BY <3>2, <3>3
  <2>2. StreamTypes'
    BY <1>1, <1>3, <2>1 DEF StreamTypes
  <2>3. ASSUME NEW d \in Calls PROVE Yielded(d)'
    <3>1. /\ Counted(chunks', Begun(d)) = Counted(chunks, Begun(d))
          /\ Counted(chunks', Part(d)) = Counted(chunks, Part(d))
          /\ Counted(chunks', Closed(d)) = Counted(chunks, Closed(d))
      BY <1>3, <2>1
    <3> QED
      BY <1>1, <1>3, <3>1 DEF Yielded
  <2> QED
    BY <2>2, <2>3 DEF StreamInv
<1>4. ASSUME Stream!FinishReason \/ Stream!Stop
      PROVE  StreamInv'
  <2>1. /\ UNCHANGED <<dialect, block, sent, named, seen, early, chunks, over>>
        /\ stopReason' \in {"end_turn", "tool_use"}
    BY <1>1, <1>4 DEF Stream!FinishReason, Stream!Stop, StreamTypes
  <2>2. StreamTypes'
    BY <1>1, <2>1 DEF StreamTypes
  <2>3. ASSUME NEW d \in Calls PROVE Yielded(d)'
    BY <1>1, <2>1 DEF Yielded
  <2> QED
    BY <2>2, <2>3 DEF StreamInv
<1>5. ASSUME Stream!StreamFails \/ Stream!Aborted
      PROVE  StreamInv'
  <2>1. PICK k \in {"thrown", "aborted"} :
          /\ ~over /\ over' = TRUE /\ chunks' = chunks \o <<Stream!Chunk(k, "none")>>
          /\ UNCHANGED <<dialect, block, sent, named, seen, stopReason, early>>
    BY <1>5 DEF Stream!StreamFails, Stream!Aborted, Stream!Reading, Stream!Yield
  <2>2. /\ Stream!Chunk(k, "none") \in Chunks
        /\ \A d : /\ Stream!Chunk(k, "none") # Begun(d) /\ Stream!Chunk(k, "none") # Part(d)
                  /\ Stream!Chunk(k, "none") # Closed(d)
    BY DEF Begun, Part, Closed, Stream!Chunk, Chunks, ChunkKinds
  <2> QED
    BY <1>3, <2>1, <2>2
<1>6. ASSUME Stream!StreamEnds
      PROVE  StreamInv'
  <2> DEFINE n == Cardinality(seen)
             order == Stream!SetToSeq(seen)
             ends == Stream!ClosedCalls
             x == Stream!Chunk("usage", "none")
             y == Stream!Chunk(stopReason, "none")
  <2>1. /\ ~over /\ over' = TRUE
        /\ early' = (block # "none" \/ \E c \in seen : sent[c] < Pieces)
        /\ chunks' = chunks \o (ends \o <<x, y>>)
        /\ UNCHANGED <<dialect, block, sent, named, seen, stopReason>>
    BY <1>6 DEF Stream!StreamEnds, Stream!Reading, Stream!Yield
  <2>2. /\ x \in Chunks /\ y \in Chunks
        /\ \A d : /\ x # Begun(d) /\ x # Part(d) /\ x # Closed(d)
                  /\ y # Begun(d) /\ y # Part(d) /\ y # Closed(d)
    <3>1. stopReason \in {"end_turn", "tool_use"}
      BY <1>1 DEF StreamTypes
    <3> QED
      BY <3>1 DEF Begun, Part, Closed, Stream!Chunk, Chunks, ChunkKinds
  <2>3. /\ n \in Nat /\ order \in [1..n -> seen]
        /\ \A i, j \in 1..n : order[i] = order[j] => i = j
    BY <1>1, InSequence DEF StreamTypes
  <2>4. /\ ends \in Seq(Chunks)
        /\ dialect = "anthropic" => ends = <<>>
        /\ dialect = "openai" => Len(ends) = n /\ \A i \in 1..n : ends[i] = Closed(order[i])
    <3>1. CASE dialect = "anthropic"
      BY <3>1 DEF Stream!ClosedCalls
    <3>2. CASE dialect = "openai"
      <4>1. ends = [i \in 1..n |-> Closed(order[i])]
        BY <3>2, SameStreamCount DEF Stream!ClosedCalls, Closed
      <4>2. \A i \in 1..n : Closed(order[i]) \in Chunks
        <5>1. \A i \in 1..n : order[i] \in Calls
          BY <1>1, <2>3 DEF StreamTypes
        <5> QED
          BY <5>1 DEF Closed, Stream!Chunk, Chunks, ChunkKinds
      <4> HIDE DEF n, order, ends
      <4>3. ends \in Seq(Chunks) /\ Len(ends) = n
        BY <2>3, <4>1, <4>2
      <4> QED
        BY <3>2, <4>1, <4>3
    <3> QED
      BY <1>1, <3>1, <3>2 DEF StreamTypes
  <2> DEFINE rest == ends \o <<x, y>>
  <2> HIDE DEF n, order, ends, x, y
  <2>5. /\ rest \in Seq(Chunks) /\ chunks \o rest \in Seq(Chunks)
        /\ Len(rest) = Len(ends) + 2 /\ Len(ends) \in Nat
        /\ \A i \in 1..Len(ends) : rest[i] = ends[i]
        /\ rest[Len(ends) + 1] = x /\ rest[Len(ends) + 2] = y
    BY <1>2, <2>2, <2>4
  <2> HIDE DEF rest
  <2>6. \A i \in 1..Len(rest) : i \in 1..Len(ends) \/ rest[i] = x \/ rest[i] = y
    BY <2>5
  <2>7. \A i \in 1..Len(ends) : \E k \in 1..n : i = k /\ dialect = "openai" /\ rest[i] = Closed(order[k])
    BY <1>1, <2>4, <2>5 DEF StreamTypes
  <2>8. ASSUME NEW d
        PROVE  /\ Places(rest, Begun(d)) = {} /\ Places(rest, Part(d)) = {}
               /\ \/ Places(rest, Closed(d)) = {}
                  \/ dialect = "openai" /\ d \in seen /\ \E k : Places(rest, Closed(d)) = {k}
    <3>1. Places(rest, Begun(d)) = {} /\ Places(rest, Part(d)) = {}
      BY <2>2, <2>6, <2>7, ChunksAre DEF Places
    <3>2. ASSUME Places(rest, Closed(d)) # {}
          PROVE  dialect = "openai" /\ d \in seen /\ \E k : Places(rest, Closed(d)) = {k}
      <4>1. PICK i \in 1..Len(rest) : rest[i] = Closed(d)
        BY <3>2 DEF Places
      <4>2. i \in 1..Len(ends)
        BY <2>2, <2>6, <4>1
      <4>3. dialect = "openai" /\ i \in 1..n /\ Closed(order[i]) = Closed(d)
        BY <2>7, <4>1, <4>2
      <4>4. order[i] = d
        BY <4>3, ChunksAre
      <4>5. ASSUME NEW j \in 1..Len(rest), rest[j] = Closed(d) PROVE j = i
        <5>1. j \in 1..Len(ends)
          BY <2>2, <2>6, <4>5
        <5>2. j \in 1..n /\ Closed(order[j]) = Closed(d)
          BY <2>7, <4>5, <5>1
        <5>3. order[j] = d
          BY <5>2, ChunksAre
        <5> QED
          BY <2>3, <4>3, <4>4, <5>2, <5>3
      <4>6. Places(rest, Closed(d)) = {i}
        BY <4>1, <4>5 DEF Places
      <4> QED
        BY <2>3, <4>3, <4>4, <4>6
    <3> QED
      BY <3>1, <3>2
  <2>9. chunks' = chunks \o rest
    BY <2>1 DEF rest
  <2>10. ASSUME NEW d \in Calls PROVE Yielded(d)'
    <3>1. Counted(chunks', Begun(d)) = Counted(chunks, Begun(d)) /\ Counted(chunks', Part(d)) = Counted(chunks, Part(d))
      BY <1>2, <2>5, <2>8, <2>9, CountRest
    <3>2. \/ Counted(chunks', Closed(d)) = Counted(chunks, Closed(d)) /\ Places(rest, Closed(d)) = {}
          \/ dialect = "openai" /\ d \in seen /\ Counted(chunks', Closed(d)) = Counted(chunks, Closed(d)) + 1
      <4>1. CASE Places(rest, Closed(d)) = {}
        BY <1>2, <2>5, <2>9, <4>1, CountRest
      <4>2. CASE Places(rest, Closed(d)) # {}
        <5>1. PICK k : Places(rest, Closed(d)) = {k}
          BY <2>8, <4>2
        <5> QED
          BY <1>2, <2>5, <2>8, <2>9, <4>2, <5>1, CountRest
      <4> QED
        BY <4>1, <4>2
    <3>3. Yielded(d) /\ sent[d] \in 0..Pieces
      BY <1>1 DEF StreamTypes
    <3>4. ~early' /\ d \in seen => sent[d] = Pieces
      <4>1. SUFFICES ASSUME d \in seen, sent[d] # Pieces
                     PROVE  early'
        OBVIOUS
      <4>2. \E c \in seen : sent[c] < Pieces
        BY <1>2, <3>3, <4>1
      <4> QED
        BY <2>1, <4>2
    <3>5. Counted(chunks', Closed(d)) > 0 /\ ~early' => Counted(chunks', Closed(d)) = 1 /\ d \in seen
      <4>1. CASE dialect = "openai"
        BY <2>1, <3>2, <3>3, <4>1 DEF Yielded
      <4>2. CASE dialect = "anthropic"
        BY <2>1, <3>2, <3>3, <4>2 DEF Yielded
      <4> QED
        BY <1>1, <4>1, <4>2 DEF StreamTypes
    <3> QED
      BY <2>1, <3>1, <3>3, <3>4, <3>5 DEF Yielded
  <2>11. StreamTypes'
    BY <1>1, <2>1, <2>5, <2>9 DEF StreamTypes
  <2> QED
    BY <2>10, <2>11 DEF StreamInv
<1> QED
  BY <1>4, <1>5, <1>6

LEMMA StreamMeans == StreamInv => CompleteIsWhole
<1> SUFFICES ASSUME StreamInv, ~early, NEW c \in Calls, Stream!Count("tool_call_end", c) > 0
             PROVE  /\ Stream!Count("tool_call_end", c) = 1
                    /\ Stream!Count("tool_call_start", c) = 1
                    /\ Stream!Count("tool_call_delta", c) = Pieces
  BY DEF CompleteIsWhole, Stream!CompleteIsWhole
<1>1. StreamTypes /\ Yielded(c)
  BY DEF StreamInv
<1>2. DOMAIN chunks = 1..Len(chunks)
  BY <1>1 DEF StreamTypes
<1>3. /\ Stream!Count("tool_call_end", c) = Counted(chunks, Closed(c))
      /\ Stream!Count("tool_call_start", c) = Counted(chunks, Begun(c))
      /\ Stream!Count("tool_call_delta", c) = Counted(chunks, Part(c))
  BY <1>2, SameStreamCount DEF Stream!Count, Counted, Places, Closed, Begun, Part
<1> QED
  BY <1>1, <1>3 DEF Yielded

\* A call that is reported whole is whole, wherever the stream is cut
\* (anthropic.ts, openai-compatible.ts).
THEOREM CallsAreWhole == PartsSpec => []CompleteIsWhole
<1>1. StreamInv /\ [PartsNext]_partsVars => StreamInv'
  <2> SUFFICES ASSUME StreamInv, [PartsNext]_partsVars
               PROVE  StreamInv'
    OBVIOUS
  <2>1. CASE Stream!Next
    BY <2>1, PieceStep, RestStep DEF Stream!Next
  <2>2. CASE UNCHANGED streamVars
    BY <2>2 DEF streamVars, StreamInv, StreamTypes, Yielded
  <2>3. Stream!Next \/ UNCHANGED streamVars
    BY DEF PartsNext, Moves, partsVars
  <2> QED
    BY <2>1, <2>2, <2>3
<1> QED
  BY <1>1, StreamInit, StreamMeans, PTL DEF PartsSpec

LEMMA SameContextCount == \A S : Context!Cardinality(S) = Cardinality(S)
BY DEF Context!Cardinality, Cardinality

\* A set of numbers has a least one.
LEMMA Least ==
  ASSUME NEW T, T \subseteq Nat, T # {}
  PROVE  \E x \in T : \A y \in T : x <= y
<1>1. PICK x \in T : \A y \in T : ~ (<<y, x>> \in OpToRel(<, Nat))
  BY NatLessThanWellFounded, WFMin
<1>2. \A y \in T : ~(y < x)
  BY <1>1 DEF OpToRel
<1> QED
  BY <1>2, SMT

\* Induction, over the set of the numbers for which it holds.
LEMMA Induction ==
  ASSUME NEW S, S \subseteq Nat, 0 \in S, \A n \in S : n + 1 \in S
  PROVE  S = Nat
<1> DEFINE T == Nat \ S
<1>1. SUFFICES ASSUME T # {} PROVE FALSE
  OBVIOUS
<1>2. PICK x \in T : \A y \in T : x <= y
  BY <1>1, Least
<1>3. x - 1 \in S
  BY <1>2
<1> QED
  BY <1>2, <1>3

\* A set of numbers up to n has a greatest one.
LEMMA Greatest ==
  ASSUME NEW n \in Nat, NEW T, T \subseteq 1..n, T # {}
  PROVE  \E x \in T : \A y \in T : y <= x
<1> DEFINE U == {u \in 0..n : \A y \in T : y <= u}
<1>1. U \subseteq Nat /\ n \in U
  OBVIOUS
<1> HIDE DEF U
<1>2. PICK u \in U : \A v \in U : u <= v
  BY <1>1, Least
<1>3. u \in 0..n /\ \A y \in T : y <= u
  BY <1>2 DEF U
<1>4. u \in T
  <2>1. SUFFICES ASSUME u \notin T PROVE FALSE
    OBVIOUS
  <2>2. \A y \in T : y \in 1..n /\ y <= u /\ y # u
    BY <1>3, <2>1
  <2>3. PICK y \in T : TRUE
    OBVIOUS
  <2>4. y \in 1..n /\ y <= u
    BY <2>2
  <2>5. u - 1 \in 0..n
    BY <1>3, <2>4
  <2>6. \A z \in T : z <= u - 1
    BY <1>3, <2>2
  <2>7. u - 1 \in U
    BY <2>5, <2>6 DEF U
  <2> QED
    BY <1>2, <1>3, <2>7
<1> QED
  BY <1>3, <1>4

-----------------------------------------------------------------------------
(* What a model is shown.  The summaries cover the oldest turns, with no     *)
(* gap, because the longest prefix of what may be summarised is an interval. *)

\* The tokens of turns, added one by one.
Adds(f, N, seq, range) ==
  f = [n \in 0..N |-> IF n = 0 THEN 0 ELSE f[n - 1] + (IF n \in range THEN seq[n] ELSE 0)]

LEMMA TokensAdd == \A seq, range : \A N \in Nat : \E upTo : Adds(upTo, N, seq, range)
<1> SUFFICES ASSUME NEW seq, NEW range, NEW N \in Nat PROVE \E upTo : Adds(upTo, N, seq, range)
  OBVIOUS
<1> DEFINE Of(f, n) == IF n = 0 THEN 0 ELSE f[n - 1] + (IF n \in range THEN seq[n] ELSE 0)
           Is(f, m) == f = [n \in 0..m |-> Of(f, n)]
           S == {m \in Nat : \E f : Is(f, m)}
<1>1. 0 \in S
  <2> DEFINE f == [n \in 0..0 |-> 0]
  <2>1. Is(f, 0)
    OBVIOUS
  <2> HIDE DEF f, Is
  <2> QED
    BY <2>1
<1>2. ASSUME NEW m \in S PROVE m + 1 \in S
  <2>1. m \in Nat /\ \E f : Is(f, m)
    OBVIOUS
  <2>2. PICK f : Is(f, m)
    BY <2>1
  <2> DEFINE g == [n \in 0..m + 1 |-> IF n = m + 1 THEN Of(f, m + 1) ELSE f[n]]
  <2>3. ASSUME NEW n \in 0..m + 1 PROVE g[n] = Of(g, n)
    <3>1. CASE n = 0
      BY <2>1, <2>2, <3>1
    <3>2. CASE n # 0
      <4>1. n - 1 \in 0..m /\ n - 1 # m + 1 /\ n - 1 \in 0..m + 1
        BY <2>1, <3>2
      <4>2. g[n - 1] = f[n - 1]
        BY <4>1
      <4>3. CASE n = m + 1
        BY <4>2, <4>3, <3>2
      <4>4. CASE n # m + 1
        <5>1. n \in 0..m
          BY <2>1, <4>4
        <5>2. g[n] = f[n] /\ f[n] = Of(f, n)
          BY <2>2, <4>4, <5>1
        <5> QED
          BY <4>2, <5>2, <3>2
      <4> QED
        BY <4>3, <4>4
    <3> QED
      BY <3>1, <3>2
  <2>4. Is(g, m + 1)
    BY <2>3
  <2>5. m + 1 \in Nat
    BY <2>1
  <2> HIDE DEF g, Is
  <2> QED
    BY <2>4, <2>5
<1>3. S \subseteq Nat
  OBVIOUS
<1> HIDE DEF S
<1>4. S = Nat
  BY <1>1, <1>2, <1>3, Induction
<1>5. PICK f : Is(f, N)
  BY <1>4 DEF S
<1>6. Adds(f, N, seq, range)
  BY <1>5 DEF Adds
<1> QED
  BY <1>6

LEMMA SizeAdds ==
  turns \in Seq(Nat) =>
    \A range : \E upTo :
       /\ upTo \in [0..Len(turns) -> Nat]
       /\ \A n \in 0..Len(turns) :
            upTo[n] = IF n = 0 THEN 0 ELSE upTo[n - 1] + (IF n \in range THEN turns[n] ELSE 0)
       /\ Context!Size(range) = upTo[Len(turns)]
<1> SUFFICES ASSUME turns \in Seq(Nat), NEW range
             PROVE  \E upTo :
                      /\ upTo \in [0..Len(turns) -> Nat]
                      /\ \A n \in 0..Len(turns) :
                           upTo[n] = IF n = 0 THEN 0 ELSE upTo[n - 1] + (IF n \in range THEN turns[n] ELSE 0)
                      /\ Context!Size(range) = upTo[Len(turns)]
  OBVIOUS
<1> DEFINE Of(f, n) == IF n = 0 THEN 0 ELSE f[n - 1] + (IF n \in range THEN turns[n] ELSE 0)
           N == Len(turns)
<1>0. N \in Nat
  OBVIOUS
<1>1. PICK f : Adds(f, N, turns, range)
  BY <1>0, TokensAdd
<1> DEFINE chosen == CHOOSE upTo : upTo = [n \in 0..N |-> Of(upTo, n)]
<1>2. chosen = [n \in 0..N |-> Of(chosen, n)]
  BY <1>1 DEF Adds
<1>3. Context!Size(range) = chosen[N]
  BY DEF Context!Size
<1> HIDE DEF chosen
<1> DEFINE S == {n \in Nat : n <= N => chosen[n] \in Nat}
<1>4. N \in Nat /\ \A n \in 1..N : turns[n] \in Nat
  OBVIOUS
<1>5. 0 \in S
  BY <1>2, <1>4
<1>6. ASSUME NEW n \in S PROVE n + 1 \in S
  <2>1. SUFFICES ASSUME n + 1 <= N PROVE chosen[n + 1] \in Nat
    OBVIOUS
  <2>2. n \in Nat /\ n + 1 \in 1..N /\ n + 1 \in 0..N /\ chosen[n] \in Nat /\ n + 1 # 0 /\ n + 1 - 1 = n
    BY <1>4, <2>1
  <2>3. chosen[n + 1] = chosen[n] + (IF n + 1 \in range THEN turns[n + 1] ELSE 0)
    BY <1>2, <2>2
  <2> QED
    BY <1>4, <2>2, <2>3
<1> HIDE DEF S
<1>7. S = Nat
  BY <1>5, <1>6, Induction DEF S
<1>8. chosen \in [0..N -> Nat]
  <2>1. \A n \in 0..N : chosen[n] \in Nat
    BY <1>4, <1>7 DEF S
  <2>2. chosen = [n \in 0..N |-> chosen[n]]
    BY <1>2
  <2> QED
    BY <2>1, <2>2
<1> QED
  BY <1>2, <1>3, <1>8

\* More turns have no fewer tokens.
LEMMA SizeGrows ==
  turns \in Seq(Nat) =>
    \A A, B : A \subseteq B =>
      Context!Size(A) \in Nat /\ Context!Size(B) \in Nat /\ Context!Size(A) <= Context!Size(B)
<1> SUFFICES ASSUME turns \in Seq(Nat), NEW A, NEW B, A \subseteq B
             PROVE  Context!Size(A) \in Nat /\ Context!Size(B) \in Nat /\ Context!Size(A) <= Context!Size(B)
  OBVIOUS
<1> DEFINE N == Len(turns)
<1>1. PICK f : /\ f \in [0..Len(turns) -> Nat]
               /\ \A n \in 0..Len(turns) : f[n] = IF n = 0 THEN 0 ELSE f[n - 1] + (IF n \in A THEN turns[n] ELSE 0)
               /\ Context!Size(A) = f[Len(turns)]
  BY SizeAdds, Zenon
<1>2. PICK g : /\ g \in [0..Len(turns) -> Nat]
               /\ \A n \in 0..Len(turns) : g[n] = IF n = 0 THEN 0 ELSE g[n - 1] + (IF n \in B THEN turns[n] ELSE 0)
               /\ Context!Size(B) = g[Len(turns)]
  BY SizeAdds, Zenon
<1>3. N \in Nat /\ \A n \in 1..N : turns[n] \in Nat
  OBVIOUS
<1> DEFINE S == {n \in Nat : n <= N => f[n] <= g[n]}
<1>4. 0 \in S
  <2>1. f[0] = 0 /\ g[0] = 0
    BY <1>1, <1>2, <1>3
  <2> QED
    BY <2>1
<1>5. ASSUME NEW n \in S PROVE n + 1 \in S
  <2>1. SUFFICES ASSUME n + 1 <= N PROVE f[n + 1] <= g[n + 1]
    OBVIOUS
  <2>2. n \in Nat /\ n + 1 \in 1..N /\ n + 1 \in 0..N /\ n \in 0..N /\ f[n] <= g[n] /\ n + 1 # 0 /\ n + 1 - 1 = n
    BY <1>3, <2>1
  <2>3. f[n + 1] = f[n] + (IF n + 1 \in A THEN turns[n + 1] ELSE 0)
    BY <1>1, <2>2
  <2>4. g[n + 1] = g[n] + (IF n + 1 \in B THEN turns[n + 1] ELSE 0)
    BY <1>2, <2>2
  <2>5. f[n] \in Nat /\ g[n] \in Nat /\ turns[n + 1] \in Nat
    BY <1>1, <1>2, <1>3, <2>2
  <2> QED
    BY <2>2, <2>3, <2>4, <2>5
<1> HIDE DEF S
<1>6. S = Nat
  BY <1>4, <1>5, Induction DEF S
<1> QED
  BY <1>1, <1>2, <1>3, <1>6 DEF S

\* A summary stands for turn i.
Summed(cs, i) == \E c \in cs : c.from <= i /\ i <= c.to

\* Summaries stand for turns that have ended, leave the newest ones out, leave no
\* gap before them, and no two stand for one turn.
Summaries(cs, last) ==
  /\ \A c \in cs :
       /\ c.from \in Nat /\ c.to \in Nat /\ 1 <= c.from /\ c.from <= c.to
       /\ c.to + RecentRawTurns <= last
       /\ \A i \in 1..c.to : Summed(cs, i)
  /\ \A c, d \in cs : c = d \/ c.to < d.from \/ d.to < c.from

\* What is being summarised comes right after what the summaries stand for.
NextOldest(range, cs, last) ==
  \E a, b \in Nat :
    /\ 1 <= a /\ a <= b /\ range = a..b /\ b + RecentRawTurns <= last
    /\ ~ Summed(cs, a) /\ \A i \in 1..a - 1 : Summed(cs, i)

ContextTypes ==
  /\ turns \in Seq(Sizes) /\ Len(turns) <= MaxTurns /\ open \in BOOLEAN
  /\ open => Len(turns) > 0
  /\ step \in {"idle", "project", "summarise", "record", "answered"}
  /\ step # "idle" => open
  /\ build \in [capacity : Nat, attempt : 0..MaxCompactions, range : SUBSET Nat,
                sent : {"none", "request", "error"}]
  /\ step \in {"summarise", "record"} => build.attempt < MaxCompactions
  /\ crashes \in Nat
  /\ IF step = "record" THEN orphans \in 1..crashes + 1 ELSE orphans \in 0..crashes

ContextInv ==
  /\ ContextTypes
  /\ Summaries(compactions, Context!Ended)
  /\ step \in {"summarise", "record"} => NextOldest(build.range, compactions, Context!Ended)

LEMMA EndedIs == ContextTypes => Context!Ended \in Nat /\ Context!Ended <= Len(turns)
<1> SUFFICES ASSUME ContextTypes PROVE Context!Ended \in Nat /\ Context!Ended <= Len(turns)
  OBVIOUS
<1>1. Len(turns) \in Nat /\ (open => Len(turns) > 0)
  BY DEF ContextTypes
<1> QED
  BY <1>1 DEF Context!Ended

LEMMA SummariesLater ==
  ASSUME NEW cs, NEW m \in Nat, NEW n \in Nat, m <= n, Summaries(cs, m)
  PROVE  Summaries(cs, n)
BY PartsAssumption DEF PartsAssumption, Summaries

LEMMA SummaryAdds ==
  ASSUME NEW cs, NEW last \in Nat, NEW a \in Nat, NEW b \in Nat, NEW t,
         Summaries(cs, last), 1 <= a, a <= b, b + RecentRawTurns <= last,
         ~ Summed(cs, a), \A i \in 1..a - 1 : Summed(cs, i)
  PROVE  Summaries(cs \cup {[from |-> a, to |-> b, tokens |-> t]}, last)
<1> DEFINE new == [from |-> a, to |-> b, tokens |-> t]
           ds == cs \cup {new}
<1>1. new.from = a /\ new.to = b /\ new \in ds
  OBVIOUS
<1>2. \A i : Summed(cs, i) => Summed(ds, i)
  BY DEF Summed
<1>3. \A i \in a..b : Summed(ds, i)
  <2> SUFFICES ASSUME NEW i \in a..b PROVE new.from <= i /\ i <= new.to /\ new \in ds
    BY DEF Summed
  <2> HIDE DEF new, ds
  <2> QED
    BY <1>1
<1>4. \A c \in cs : c.to \in Nat /\ c.to < a
  <2> SUFFICES ASSUME NEW c \in cs PROVE c.to \in Nat /\ c.to < a
    OBVIOUS
  <2>1. c.to \in Nat /\ \A i \in 1..c.to : Summed(cs, i)
    BY DEF Summaries
  <2> QED
    BY <2>1
<1> HIDE DEF new
<1>5. \A i \in 1..b : Summed(ds, i)
  <2> SUFFICES ASSUME NEW i \in 1..b PROVE Summed(ds, i)
    OBVIOUS
  <2>1. i \in 1..a - 1 \/ i \in a..b
    OBVIOUS
  <2> HIDE DEF ds
  <2> QED
    BY <1>2, <1>3, <2>1
<1>6. ASSUME NEW c \in ds
      PROVE  /\ c.from \in Nat /\ c.to \in Nat /\ 1 <= c.from /\ c.from <= c.to
             /\ c.to + RecentRawTurns <= last
             /\ \A i \in 1..c.to : Summed(ds, i)
  <2>1. CASE c \in cs
    <3>1. /\ c.from \in Nat /\ c.to \in Nat /\ 1 <= c.from /\ c.from <= c.to
          /\ c.to + RecentRawTurns <= last
          /\ \A i \in 1..c.to : Summed(cs, i)
      BY <2>1 DEF Summaries
    <3> HIDE DEF ds
    <3> QED
      BY <3>1, <1>2
  <2>2. CASE c = new
    <3> HIDE DEF ds
    <3> QED
      BY <2>2, <1>1, <1>5
  <2> QED
    BY <2>1, <2>2
<1>7. ASSUME NEW c \in ds, NEW d \in ds PROVE c = d \/ c.to < d.from \/ d.to < c.from
  <2>1. CASE c \in cs /\ d \in cs
    BY <2>1 DEF Summaries
  <2>2. CASE c \in cs /\ d = new
    BY <2>2, <1>1, <1>4
  <2>3. CASE c = new /\ d \in cs
    BY <2>3, <1>1, <1>4
  <2>4. CASE c = new /\ d = new
    BY <2>4
  <2> QED
    BY <2>1, <2>2, <2>3, <2>4
<1> HIDE DEF ds
<1>8. Summaries(ds, last)
  BY <1>6, <1>7 DEF Summaries
<1> QED
  BY <1>8 DEF ds, new

\* The turns between two numbers.
LEMMA Between ==
  \A i, n \in Nat : i <= n => Cardinality(i + 1..n) = n - i
<1> SUFFICES ASSUME NEW i \in Nat, NEW n \in Nat, i <= n PROVE Cardinality(i + 1..n) = n - i
  OBVIOUS
<1>1. Cardinality(i + 1..n) = IF i + 1 > n THEN 0 ELSE n - (i + 1) + 1
  BY FS_Interval
<1> QED
  BY <1>1

LEMMA SelectedIs ==
  ASSUME ContextTypes, Summaries(compactions, Context!Ended), Context!Selected # {}
  PROVE  NextOldest(Context!Selected, compactions, Context!Ended)
<1> DEFINE last == Context!Ended
           R == RecentRawTurns
           limit == Context!SummaryHardInput(build.capacity)
<1>1. last \in Nat /\ R \in Nat
  BY EndedIs, PartsAssumption DEF PartsAssumption
<1>2. turns \in Seq(Nat)
  <2>1. turns \in Seq(Sizes) /\ Sizes \subseteq Nat
    BY PartsAssumption DEF PartsAssumption, ContextTypes
  <2>2. Len(turns) \in Nat /\ turns \in [1..Len(turns) -> Sizes]
    BY <2>1
  <2>3. turns \in [1..Len(turns) -> Nat]
    BY <2>1, <2>2
  <2> QED
    BY <2>2, <2>3, SeqDef
<1>3. limit \in Int
  <2>1. build.capacity \in Nat
    BY DEF ContextTypes
  <2> QED
    BY <2>1 DEF Context!SummaryHardInput
<1> HIDE DEF last, limit
<1>4. \A i : Context!Covered(i) <=> Summed(compactions, i)
  BY DEF Context!Covered, Context!Covers, Summed
<1>5. Context!Uncovered = {i \in 1..last : ~ Summed(compactions, i)}
  BY <1>4 DEF Context!Uncovered, last
<1>6. Context!Selected \subseteq Context!Compactable /\ Context!Compactable \subseteq Context!Uncovered
  BY DEF Context!Selected, Context!Compactable
<1>7. Context!Uncovered \subseteq Nat /\ Context!Uncovered # {}
  <2>1. Context!Uncovered \subseteq 1..last
    BY <1>5
  <2>2. Context!Uncovered \subseteq Nat
    BY <1>1, <2>1
  <2>3. PICK x \in Context!Selected : TRUE
    OBVIOUS
  <2>4. x \in Context!Uncovered
    BY <1>6
  <2> QED
    BY <2>2, <2>4
<1>8. PICK a \in Context!Uncovered : \A y \in Context!Uncovered : a <= y
  BY <1>7, Least
<1>9. a \in 1..last /\ ~ Summed(compactions, a)
  BY <1>5, <1>8
<1>10. \A i \in 1..a - 1 : Summed(compactions, i)
  BY <1>1, <1>5, <1>8, <1>9
<1>11. Context!Uncovered = a..last
  <2>1. ASSUME NEW i \in a..last PROVE ~ Summed(compactions, i)
    <3> SUFFICES ASSUME Summed(compactions, i) PROVE FALSE
      OBVIOUS
    <3>1. PICK c \in compactions : c.from <= i /\ i <= c.to
      BY DEF Summed
    <3>2. c.to \in Nat /\ \A j \in 1..c.to : Summed(compactions, j)
      BY DEF Summaries
    <3> QED
      BY <1>1, <1>9, <3>1, <3>2
  <2> QED
    BY <1>1, <1>5, <1>8, <1>9, <2>1
<1>12. Context!Compactable = {i \in a..last : i + R <= last}
  <2>1. ASSUME NEW i \in a..last
        PROVE  Context!Cardinality({j \in Context!Uncovered : j > i}) >= R <=> i + R <= last
    <3>1. {j \in Context!Uncovered : j > i} = i + 1..last
      BY <1>1, <1>9, <1>11
    <3>2. i \in Nat /\ i <= last
      BY <1>1, <1>9
    <3>3. Cardinality(i + 1..last) = last - i
      BY <1>1, <3>2, Between
    <3> QED
      <4>1. Context!Cardinality({j \in Context!Uncovered : j > i}) = Cardinality(i + 1..last)
        BY <3>1, SameContextCount, Zenon
      <4> QED
        BY <1>1, <3>2, <3>3, <4>1
  <2> QED
    BY <1>11, <2>1 DEF Context!Compactable
<1> DEFINE upTo(n) == {i \in Context!Compactable : i <= n}
<1>13. Context!Selected = {i \in Context!Compactable : Context!Size(upTo(i)) <= limit}
  BY DEF Context!Selected, limit
<1>14. Context!Selected \subseteq 1..last
  BY <1>1, <1>6, <1>9, <1>12
<1>15. PICK b \in Context!Selected : \A y \in Context!Selected : y <= b
  BY <1>1, <1>14, Greatest
<1>16. b \in a..last /\ b + R <= last /\ Context!Size(upTo(b)) <= limit
  BY <1>12, <1>13
<1>17. a \in Nat /\ b \in Nat /\ 1 <= a /\ a <= b
  BY <1>1, <1>9, <1>16
<1>18. Context!Selected = a..b
  <2>1. ASSUME NEW i \in a..b PROVE i \in Context!Selected
    <3>1. i \in Context!Compactable
      BY <1>1, <1>12, <1>16, <1>17
    <3>2. upTo(i) \subseteq upTo(b)
      BY <1>1, <1>12, <1>17
    <3>3. Context!Size(upTo(i)) \in Nat /\ Context!Size(upTo(b)) \in Nat
          /\ Context!Size(upTo(i)) <= Context!Size(upTo(b))
      BY <1>2, <3>2, SizeGrows
    <3> HIDE DEF upTo
    <3>4. Context!Size(upTo(i)) <= limit
      BY <1>3, <1>16, <3>3
    <3> QED
      BY <1>13, <3>1, <3>4
  <2>2. \A i \in Context!Selected : i \in a..b
    BY <1>1, <1>6, <1>9, <1>12, <1>15
  <2> QED
    BY <2>1, <2>2
<1> QED
  BY <1>9, <1>10, <1>16, <1>17, <1>18 DEF NextOldest, last

LEMMA ContextStarts == PartsInit => ContextInv
<1> SUFFICES ASSUME PartsInit PROVE ContextInv
  OBVIOUS
<1>1. /\ turns = << >> /\ open = FALSE /\ compactions = {} /\ orphans = 0
      /\ step = "idle" /\ build = Context!NoBuild /\ crashes = 0
  BY DEF PartsInit, Context!Init
<1>2. MaxTurns \in Nat /\ MaxCompactions \in Nat
  BY PartsAssumption DEF PartsAssumption
<1>3. ContextTypes
  <2>1. turns \in Seq(Sizes) /\ Len(turns) = 0
    BY <1>1
  <2>2. build \in [capacity : Nat, attempt : 0..MaxCompactions, range : SUBSET Nat,
                    sent : {"none", "request", "error"}]
    BY <1>1, <1>2 DEF Context!NoBuild
  <2>3. Len(turns) <= MaxTurns
    BY <1>2, <2>1
  <2>4. crashes \in Nat /\ orphans \in 0..crashes
    BY <1>1
  <2> QED
    BY <1>1, <2>1, <2>2, <2>3, <2>4 DEF ContextTypes
<1>4. Summaries(compactions, Context!Ended)
  BY <1>1 DEF Summaries
<1> QED
  BY <1>1, <1>3, <1>4 DEF ContextInv

LEMMA ContextKept == ContextInv /\ UNCHANGED contextVars => ContextInv'
BY DEF contextVars, ContextInv, ContextTypes, Context!Ended

\* Nothing ends a turn twice: what had ended stays so.
LEMMA EndedStays ==
  ASSUME ContextInv, ContextTypes', compactions' = compactions, step' \notin {"summarise", "record"},
         Context!Ended <= Context!Ended'
  PROVE  ContextInv'
<1>1. Context!Ended \in Nat /\ Context!Ended' \in Nat
  BY EndedIs DEF ContextInv, ContextTypes, Context!Ended
<1>2. Summaries(compactions, Context!Ended')
  BY <1>1, SummariesLater DEF ContextInv
<1> QED
  BY <1>2 DEF ContextInv

LEMMA TurnStartsKeepsContext == ContextInv /\ Context!TurnStarts => ContextInv'
<1> SUFFICES ASSUME ContextInv, Context!TurnStarts PROVE ContextInv'
  OBVIOUS
<1>1. PICK n \in Sizes : turns' = Append(turns, n)
  BY DEF Context!TurnStarts
<1>2. turns \in Seq(Sizes) /\ Len(turns) \in Nat
  BY DEF ContextInv, ContextTypes
<1>3. turns' \in Seq(Sizes) /\ Len(turns') = Len(turns) + 1
  BY <1>1, <1>2
<1>4. ContextTypes'
  BY <1>2, <1>3, PartsAssumption DEF PartsAssumption, ContextInv, ContextTypes, Context!TurnStarts
<1>5. Context!Ended' = Context!Ended
  BY <1>2, <1>3 DEF Context!Ended, Context!TurnStarts
<1>6. Context!Ended \in Nat
  BY EndedIs DEF ContextInv
<1> QED
  BY <1>4, <1>5, <1>6, EndedStays DEF Context!TurnStarts

LEMMA BuildStartsKeepsContext == ContextInv /\ Context!BuildStarts => ContextInv'
<1> SUFFICES ASSUME ContextInv, Context!BuildStarts PROVE ContextInv'
  OBVIOUS
<1>1. PICK c \in Capacities : build' = [Context!NoBuild EXCEPT !.capacity = c]
  BY DEF Context!BuildStarts
<1>2. build' \in [capacity : Nat, attempt : 0..MaxCompactions, range : SUBSET Nat,
                  sent : {"none", "request", "error"}]
  BY <1>1, PartsAssumption DEF PartsAssumption, Context!NoBuild
<1>3. ContextTypes'
  BY <1>2 DEF ContextInv, ContextTypes, Context!BuildStarts
<1>4. Context!Ended' = Context!Ended /\ Context!Ended \in Nat
  BY EndedIs DEF ContextInv, Context!Ended, Context!BuildStarts
<1> QED
  BY <1>3, <1>4, EndedStays DEF Context!BuildStarts

LEMMA EndsKeepsContext ==
  ASSUME ContextInv, step # "idle", step # "record", NEW s \in {"request", "error"}, Context!Ends(s)
  PROVE  ContextInv'
<1>1. build' \in [capacity : Nat, attempt : 0..MaxCompactions, range : SUBSET Nat,
                  sent : {"none", "request", "error"}]
  BY DEF ContextInv, ContextTypes, Context!Ends
<1>2. ContextTypes'
  BY <1>1 DEF ContextInv, ContextTypes, Context!Ends
<1>3. Context!Ended' = Context!Ended /\ Context!Ended \in Nat
  BY EndedIs DEF ContextInv, Context!Ended, Context!Ends
<1> QED
  BY <1>2, <1>3, EndedStays DEF Context!Ends

LEMMA ProjectKeepsContext == ContextInv /\ Context!Project => ContextInv'
<1> SUFFICES ASSUME ContextInv, Context!Project PROVE ContextInv'
  OBVIOUS
<1>1. step = "project"
  BY DEF Context!Project
<1>2. \/ Context!Ends("error") \/ Context!Ends("request")
      \/ /\ build.attempt < MaxCompactions
         /\ Context!Selected # {}
         /\ build' = [build EXCEPT !.range = Context!Selected]
         /\ step' = "summarise"
         /\ UNCHANGED <<turns, open, compactions, orphans, crashes>>
  BY DEF Context!Project
<1>3. CASE Context!Ends("error") \/ Context!Ends("request")
  BY <1>1, <1>3, EndsKeepsContext
<1>4. CASE /\ build.attempt < MaxCompactions
           /\ Context!Selected # {}
           /\ build' = [build EXCEPT !.range = Context!Selected]
           /\ step' = "summarise"
           /\ UNCHANGED <<turns, open, compactions, orphans, crashes>>
  <2>1. ContextTypes /\ Summaries(compactions, Context!Ended)
    BY DEF ContextInv
  <2>2. NextOldest(Context!Selected, compactions, Context!Ended)
    BY <2>1, <1>4, SelectedIs
  <2>3. Context!Selected \in SUBSET Nat
    BY <2>2 DEF NextOldest
  <2>4. build' \in [capacity : Nat, attempt : 0..MaxCompactions, range : SUBSET Nat,
                    sent : {"none", "request", "error"}]
        /\ build'.range = Context!Selected /\ build'.attempt = build.attempt
    <3> HIDE DEF Context!Selected
    <3> QED
      BY <2>1, <2>3, <1>4 DEF ContextTypes
  <2>5. ContextTypes'
    BY <2>1, <2>4, <1>1, <1>4 DEF ContextTypes
  <2>6. Context!Ended' = Context!Ended
    BY <1>4 DEF Context!Ended
  <2> QED
    BY <2>1, <2>2, <2>4, <2>5, <2>6, <1>4 DEF ContextInv
<1> QED
  BY <1>2, <1>3, <1>4

LEMMA SummaryWrittenKeepsContext == ContextInv /\ Context!SummaryWritten => ContextInv'
<1> SUFFICES ASSUME ContextInv, Context!SummaryWritten PROVE ContextInv'
  OBVIOUS
<1>1. ContextTypes'
  BY DEF ContextInv, ContextTypes, Context!SummaryWritten
<1>2. Context!Ended' = Context!Ended
  BY DEF Context!Ended, Context!SummaryWritten
<1> QED
  BY <1>1, <1>2 DEF ContextInv, Context!SummaryWritten

LEMMA RecordedKeepsContext == ContextInv /\ Context!Recorded => ContextInv'
<1> SUFFICES ASSUME ContextInv, Context!Recorded PROVE ContextInv'
  OBVIOUS
<1>1. step = "record" /\ ContextTypes /\ Summaries(compactions, Context!Ended)
      /\ NextOldest(build.range, compactions, Context!Ended)
  BY DEF ContextInv, Context!Recorded
<1>2. PICK a \in Nat, b \in Nat :
        /\ 1 <= a /\ a <= b /\ build.range = a..b /\ b + RecentRawTurns <= Context!Ended
        /\ ~ Summed(compactions, a) /\ \A i \in 1..a - 1 : Summed(compactions, i)
  BY <1>1 DEF NextOldest
<1>3. Context!Min(build.range) = a
  <2>1. a \in a..b /\ \A y \in a..b : a =< y
    BY <1>2
  <2>2. \A x \in a..b : (\A y \in a..b : x =< y) => x = a
    BY <1>2
  <2> QED
    BY <2>1, <2>2, <1>2 DEF Context!Min
<1>4. Context!Max(build.range) = b
  <2>1. b \in a..b /\ \A y \in a..b : b >= y
    BY <1>2
  <2>2. \A x \in a..b : (\A y \in a..b : x >= y) => x = b
    BY <1>2
  <2> QED
    BY <2>1, <2>2, <1>2 DEF Context!Max
<1>5. compactions' = compactions \cup {[from |-> a, to |-> b, tokens |-> SummaryTokens]}
  BY <1>3, <1>4 DEF Context!Recorded
<1>6. Context!Ended' = Context!Ended /\ Context!Ended \in Nat
  BY <1>1, EndedIs DEF Context!Ended, Context!Recorded
<1>7. Summaries(compactions', Context!Ended')
  BY <1>1, <1>2, <1>5, <1>6, SummaryAdds
<1>8. build' \in [capacity : Nat, attempt : 0..MaxCompactions, range : SUBSET Nat,
                  sent : {"none", "request", "error"}]
  <2>1. MaxCompactions \in Nat /\ build.attempt \in 0..MaxCompactions /\ build.attempt < MaxCompactions
    BY <1>1, PartsAssumption DEF PartsAssumption, ContextTypes
  <2>2. build.attempt + 1 \in 0..MaxCompactions
    BY <2>1
  <2> QED
    BY <1>1, <2>2 DEF ContextTypes, Context!Recorded
<1>9. ContextTypes'
  BY <1>1, <1>8 DEF ContextTypes, Context!Recorded
<1> QED
  BY <1>7, <1>9 DEF ContextInv, Context!Recorded

\* The end of a turn, however it comes, summarises nothing.
LEMMA IdleKeepsContext ==
  ASSUME ContextInv, step' = "idle", build' = Context!NoBuild, open' = FALSE \/ open' = open,
         UNCHANGED <<turns, compactions, orphans>>,
         (step # "record" /\ crashes' = crashes) \/ crashes' = crashes + 1
  PROVE  ContextInv'
<1>1. MaxCompactions \in Nat
  BY PartsAssumption DEF PartsAssumption
<1>2. ContextTypes
  BY DEF ContextInv
<1>3. build' \in [capacity : Nat, attempt : 0..MaxCompactions, range : SUBSET Nat,
                  sent : {"none", "request", "error"}]
  BY <1>1 DEF Context!NoBuild
<1>4. crashes' \in Nat /\ orphans' \in 0..crashes'
  BY <1>2 DEF ContextTypes
<1>5. ContextTypes'
  <2>1. open' \in BOOLEAN /\ (open' => Len(turns') > 0)
    <3>1. open \in BOOLEAN /\ (open => Len(turns) > 0) /\ turns' = turns
      BY <1>2 DEF ContextTypes
    <3>2. CASE open' = FALSE
      BY <3>2
    <3>3. CASE open' = open
      BY <3>1, <3>3
    <3> QED
      BY <3>2, <3>3
  <2>2. turns' \in Seq(Sizes) /\ Len(turns') <= MaxTurns
    BY <1>2 DEF ContextTypes
  <2> QED
    BY <2>1, <2>2, <1>3, <1>4 DEF ContextTypes
<1>6. Context!Ended <= Context!Ended'
  BY <1>2 DEF ContextTypes, Context!Ended
<1> QED
  BY <1>5, <1>6, EndedStays

LEMMA ContextMoves == ContextInv /\ Context!Next => ContextInv'
<1> SUFFICES ASSUME ContextInv, Context!Next PROVE ContextInv'
  OBVIOUS
<1>1. CASE Context!TurnStarts
  BY <1>1, TurnStartsKeepsContext
<1>2. CASE Context!BuildStarts
  BY <1>2, BuildStartsKeepsContext
<1>3. CASE Context!Project
  BY <1>3, ProjectKeepsContext
<1>4. CASE Context!SummaryFails
  BY <1>4, EndsKeepsContext DEF Context!SummaryFails
<1>5. CASE Context!SummaryWritten
  BY <1>5, SummaryWrittenKeepsContext
<1>6. CASE Context!Recorded
  BY <1>6, RecordedKeepsContext
<1>7. CASE Context!Again
  BY <1>7, IdleKeepsContext DEF Context!Again
<1>8. CASE Context!TurnEnds
  BY <1>8, IdleKeepsContext DEF Context!TurnEnds
<1>9. CASE Context!Crash
  BY <1>9, IdleKeepsContext DEF Context!Crash
<1> QED
  BY <1>1, <1>2, <1>3, <1>4, <1>5, <1>6, <1>7, <1>8, <1>9 DEF Context!Next

LEMMA ContextShown == ContextInv => EachTurnOnce
<1> SUFFICES ASSUME ContextInv PROVE EachTurnOnce
  OBVIOUS
<1>1. ContextTypes /\ Summaries(compactions, Context!Ended)
  BY DEF ContextInv
<1>2. Context!TypeOK
  <2>1. turns \in Context!BoundedSeq(Sizes, MaxTurns)
    <3>1. Len(turns) \in 0..MaxTurns /\ turns \in [1..Len(turns) -> Sizes]
      BY <1>1, PartsAssumption DEF PartsAssumption, ContextTypes
    <3> QED
      BY <3>1 DEF Context!BoundedSeq, Context!SeqOf
  <2>2. orphans \in 0..1 + crashes
    BY <1>1 DEF ContextTypes
  <2>3. build.sent \in {"none", "request", "error"} /\ build.attempt \in 0..MaxCompactions
    BY <1>1 DEF ContextTypes
  <2> QED
    BY <1>1, <2>1, <2>2, <2>3 DEF ContextTypes, Context!TypeOK
<1>3. ASSUME NEW i \in 1..Len(turns)
      PROVE  Context!Cardinality({c \in compactions : Context!Covers(c, i)}) <= 1
  <2> DEFINE those == {c \in compactions : Context!Covers(c, i)}
  <2>1. \A c, d \in those : c = d
    BY <1>1 DEF Summaries, Context!Covers
  <2>2. those = {} \/ \E c \in those : those = {c}
    BY <2>1
  <2>3. Cardinality(those) \in {0, 1}
    BY <2>2, FS_EmptySet, FS_Singleton
  <2> HIDE DEF those
  <2>4. Context!Cardinality(those) = Cardinality(those)
    BY SameContextCount
  <2>5. Context!Cardinality(those) <= 1
    BY <2>3, <2>4
  <2> QED
    BY <2>5 DEF those
<1>4. ASSUME NEW i \in 1..Len(turns), Context!Covered(i) PROVE i + RecentRawTurns <= Context!Ended
  <2>1. PICK c \in compactions : c.from <= i /\ i <= c.to
    BY <1>4 DEF Context!Covered, Context!Covers
  <2>2. c.to \in Nat /\ c.to + RecentRawTurns <= Context!Ended
    BY <1>1 DEF Summaries
  <2>3. RecentRawTurns \in Nat /\ Context!Ended \in Nat
    BY <1>1, EndedIs, PartsAssumption DEF PartsAssumption
  <2> HIDE DEF Context!Ended
  <2> QED
    BY <2>1, <2>2, <2>3
<1> QED
  BY <1>2, <1>3, <1>4 DEF EachTurnOnce, Context!EachTurnOnce

\* Whatever stop, failing model, changed model and crash come between the steps of
\* a build, no two summaries stand for one turn, and neither the open turn nor the
\* newest ended ones are summarised (context-builder.ts).
THEOREM TurnsOnce == PartsSpec => []EachTurnOnce
<1>1. PartsInit => ContextInv
  BY ContextStarts
<1>2. ContextInv /\ [PartsNext]_partsVars => ContextInv'
  <2> SUFFICES ASSUME ContextInv, [PartsNext]_partsVars PROVE ContextInv'
    OBVIOUS
  <2>1. Context!Next \/ UNCHANGED contextVars
    BY DEF PartsNext, Moves, partsVars
  <2> QED
    BY <2>1, ContextKept, ContextMoves
<1>3. ContextInv => EachTurnOnce
  BY ContextShown
<1> QED
  BY <1>1, <1>2, <1>3, PTL DEF PartsSpec

LEMMA SameExplorerCount == \A S : Explorer!Cardinality(S) = Cardinality(S)
BY DEF Explorer!Cardinality, Cardinality

-----------------------------------------------------------------------------
(* Explorations.  What the log of the parent tells, followed by what waits   *)
(* in its queue, is one tale: of every agent a start, and after it at most   *)
(* one end and one answer.                                                   *)

Tellings == {Explorer!Started(c) : c \in Calls} \cup {Explorer!Answer(c) : c \in Calls}
            \cup {Explorer!Ended(c, r) : c \in Calls, r \in Explorer!Reasons}

Has(s, type, c) == \E i \in 1..Len(s) : s[i].type = type /\ s[i].agent = c

Tale(s) ==
  /\ s \in Seq(Tellings)
  /\ \A i, j \in 1..Len(s) : i < j /\ s[i].agent = s[j].agent => s[i].type # s[j].type
  /\ \A i \in 1..Len(s) : s[i].type # "start" => \E k \in 1..i - 1 : s[k] = Explorer!Started(s[i].agent)

\* What a record is, by its type.
LEMMA TellingIs ==
  ASSUME NEW x \in Tellings
  PROVE  /\ x.agent \in Calls /\ x.type \in {"start", "answer", "end"} /\ x \in Explorer!Record
         /\ x.type = "start" => x = Explorer!Started(x.agent)
         /\ x.type = "answer" => x = Explorer!Answer(x.agent)
         /\ x.type = "end" => \E r \in Explorer!Reasons : x = Explorer!Ended(x.agent, r)
<1>1. CASE \E c \in Calls : x = Explorer!Started(c)
  BY <1>1 DEF Explorer!Started, Explorer!Record
<1>2. CASE \E c \in Calls : x = Explorer!Answer(c)
  BY <1>2 DEF Explorer!Answer, Explorer!Record
<1>3. CASE \E c \in Calls, r \in Explorer!Reasons : x = Explorer!Ended(c, r)
  BY <1>3 DEF Explorer!Ended, Explorer!Record
<1> QED
  BY <1>1, <1>2, <1>3 DEF Tellings

LEMMA AreTellings ==
  ASSUME NEW c \in Calls, NEW r \in Explorer!Reasons
  PROVE  /\ Explorer!Started(c) \in Tellings /\ Explorer!Answer(c) \in Tellings
         /\ Explorer!Ended(c, r) \in Tellings
         /\ Explorer!Started(c).type = "start" /\ Explorer!Started(c).agent = c
         /\ Explorer!Answer(c).type = "answer" /\ Explorer!Answer(c).agent = c
         /\ Explorer!Ended(c, r).type = "end" /\ Explorer!Ended(c, r).agent = c
BY DEF Tellings, Explorer!Started, Explorer!Answer, Explorer!Ended

\* One more record.
LEMMA HasMore ==
  ASSUME NEW s \in Seq(Tellings), NEW x \in Tellings
  PROVE  /\ Append(s, x) \in Seq(Tellings)
         /\ \A t, c : Has(Append(s, x), t, c) <=> Has(s, t, c) \/ (x.type = t /\ x.agent = c)
<1> DEFINE u == Append(s, x)
<1>1. /\ u \in Seq(Tellings) /\ Len(u) = Len(s) + 1 /\ Len(s) \in Nat
      /\ \A i \in 1..Len(s) : u[i] = s[i]
      /\ u[Len(s) + 1] = x
  OBVIOUS
<1> HIDE DEF u
<1>2. ASSUME NEW t, NEW c
      PROVE  Has(u, t, c) <=> Has(s, t, c) \/ (x.type = t /\ x.agent = c)
  <2>1. \A i \in 1..Len(u) : i \in 1..Len(s) \/ i = Len(s) + 1
    BY <1>1
  <2>2. \A i \in 1..Len(s) : i \in 1..Len(u)
    BY <1>1
  <2>3. Len(s) + 1 \in 1..Len(u)
    BY <1>1
  <2> QED
    BY <1>1, <2>1, <2>2, <2>3 DEF Has
<1> QED
  BY <1>1, <1>2 DEF u

LEMMA TaleGrows ==
  ASSUME NEW s, Tale(s), NEW x \in Tellings, ~Has(s, x.type, x.agent),
         x.type # "start" => Has(s, "start", x.agent)
  PROVE  Tale(Append(s, x))
<1> DEFINE u == Append(s, x)
<1>1. s \in Seq(Tellings)
  BY DEF Tale
<1>2. /\ u \in Seq(Tellings) /\ Len(u) = Len(s) + 1 /\ Len(s) \in Nat
      /\ \A i \in 1..Len(s) : u[i] = s[i]
      /\ u[Len(s) + 1] = x
  BY <1>1
<1>3. \A i \in 1..Len(s) : s[i] \in Tellings
  BY <1>1
<1> HIDE DEF u
<1>4. ASSUME NEW i \in 1..Len(u), NEW j \in 1..Len(u), i < j, u[i].agent = u[j].agent
      PROVE  u[i].type # u[j].type
  <2>1. i \in 1..Len(s)
    BY <1>2, <1>4
  <2>2. CASE j \in 1..Len(s)
    BY <1>2, <1>4, <2>1, <2>2 DEF Tale
  <2>3. CASE j = Len(s) + 1
    BY <1>2, <1>4, <2>1, <2>3 DEF Has
  <2> QED
    BY <1>2, <2>2, <2>3
<1>5. ASSUME NEW i \in 1..Len(u), u[i].type # "start"
      PROVE  \E k \in 1..i - 1 : u[k] = Explorer!Started(u[i].agent)
  <2>1. CASE i \in 1..Len(s)
    <3>1. PICK k \in 1..i - 1 : s[k] = Explorer!Started(s[i].agent)
      BY <1>2, <1>5, <2>1 DEF Tale
    <3>2. k \in 1..Len(s)
      BY <2>1, <1>2
    <3> QED
      BY <1>2, <2>1, <3>1, <3>2
  <2>2. CASE i = Len(s) + 1
    <3>1. PICK k \in 1..Len(s) : s[k].type = "start" /\ s[k].agent = x.agent
      BY <1>2, <1>5, <2>2 DEF Has
    <3>2. s[k] = Explorer!Started(x.agent)
      BY <1>3, <3>1, TellingIs
    <3>3. k \in 1..i - 1
      BY <1>2, <2>2
    <3> QED
      BY <1>2, <2>2, <3>2, <3>3
  <2> QED
    BY <1>2, <2>1, <2>2
<1> QED
  BY <1>2, <1>4, <1>5 DEF Tale, u

\* Of a tale that is told in two parts, the first is a tale, and what follows a
\* start in the first part has its start there.
LEMMA TaleParts ==
  ASSUME NEW a \in Seq(Tellings), NEW b \in Seq(Tellings), Tale(a \o b)
  PROVE  /\ Tale(a)
         /\ \A c : Has(a, "end", c) \/ Has(a, "answer", c) => Has(a, "start", c) /\ ~Has(b, "start", c)
<1> DEFINE s == a \o b
<1>1. /\ s \in Seq(Tellings) /\ Len(s) = Len(a) + Len(b) /\ Len(a) \in Nat /\ Len(b) \in Nat
      /\ \A i \in 1..Len(a) : s[i] = a[i] /\ i \in 1..Len(s)
      /\ \A i \in 1..Len(b) : s[Len(a) + i] = b[i] /\ Len(a) + i \in 1..Len(s)
  OBVIOUS
<1>2. Tale(s)
  OBVIOUS
<1> HIDE DEF s
<1>3. Tale(a)
  <2>1. \A i, j \in 1..Len(a) : i < j /\ a[i].agent = a[j].agent => a[i].type # a[j].type
    BY <1>1, <1>2 DEF Tale
  <2>2. ASSUME NEW i \in 1..Len(a), a[i].type # "start"
        PROVE  \E k \in 1..i - 1 : a[k] = Explorer!Started(a[i].agent)
    <3>1. s[i] = a[i] /\ i \in 1..Len(s)
      BY <1>1
    <3>2. PICK k \in 1..i - 1 : s[k] = Explorer!Started(s[i].agent)
      BY <1>2, <2>2, <3>1 DEF Tale
    <3>3. k \in 1..Len(a)
      BY <1>1
    <3> QED
      BY <1>1, <3>1, <3>2, <3>3
  <2> QED
    BY <2>1, <2>2 DEF Tale
<1>4. ASSUME NEW c, Has(a, "end", c) \/ Has(a, "answer", c)
      PROVE  Has(a, "start", c) /\ ~Has(b, "start", c)
  <2>1. PICK i \in 1..Len(a) : a[i].type # "start" /\ a[i].agent = c
    BY <1>4 DEF Has
  <2>2. PICK k \in 1..i - 1 : a[k] = Explorer!Started(c)
    BY <1>3, <2>1 DEF Tale
  <2>3. k \in 1..Len(a) /\ a[k].type = "start" /\ a[k].agent = c
    BY <1>1, <2>2 DEF Explorer!Started
  <2>4. ASSUME NEW j \in 1..Len(b), b[j].type = "start", b[j].agent = c
        PROVE  FALSE
    <3>1. s[k] = a[k] /\ s[Len(a) + j] = b[j] /\ k < Len(a) + j /\ k \in 1..Len(s) /\ Len(a) + j \in 1..Len(s)
      BY <1>1, <2>3
    <3>2. s[k].agent = s[Len(a) + j].agent /\ s[k].type = s[Len(a) + j].type
      BY <2>3, <2>4, <3>1
    <3> HIDE DEF Has
    <3> QED
      BY <1>2, <3>1, <3>2 DEF Tale
  <2> QED
    BY <2>3, <2>4 DEF Has
<1> QED
  BY <1>3, <1>4

LEMMA HasParts ==
  ASSUME NEW a \in Seq(Tellings), NEW b \in Seq(Tellings)
  PROVE  \A t, c : Has(a \o b, t, c) <=> Has(a, t, c) \/ Has(b, t, c)
<1> DEFINE s == a \o b
<1>1. /\ Len(s) = Len(a) + Len(b) /\ Len(a) \in Nat /\ Len(b) \in Nat
      /\ \A i \in 1..Len(a) : s[i] = a[i]
      /\ \A i \in 1..Len(b) : s[Len(a) + i] = b[i]
  OBVIOUS
<1> HIDE DEF s
<1> SUFFICES ASSUME NEW t, NEW c
             PROVE  Has(s, t, c) <=> Has(a, t, c) \/ Has(b, t, c)
  BY DEF s
<1>2. ASSUME Has(s, t, c) PROVE Has(a, t, c) \/ Has(b, t, c)
  <2>1. PICK i \in 1..Len(s) : s[i].type = t /\ s[i].agent = c
    BY <1>2 DEF Has
  <2>2. CASE i \in 1..Len(a)
    BY <1>1, <2>1, <2>2 DEF Has
  <2>3. CASE i - Len(a) \in 1..Len(b)
    <3>1. s[Len(a) + (i - Len(a))] = b[i - Len(a)] /\ Len(a) + (i - Len(a)) = i
      BY <1>1, <2>3
    <3> QED
      BY <2>1, <2>3, <3>1 DEF Has
  <2> QED
    BY <1>1, <2>2, <2>3
<1>3. ASSUME Has(a, t, c) PROVE Has(s, t, c)
  <2>1. PICK i \in 1..Len(a) : a[i].type = t /\ a[i].agent = c
    BY <1>3 DEF Has
  <2>2. i \in 1..Len(s) /\ s[i] = a[i]
    BY <1>1
  <2> QED
    BY <2>1, <2>2 DEF Has
<1>4. ASSUME Has(b, t, c) PROVE Has(s, t, c)
  <2>1. PICK i \in 1..Len(b) : b[i].type = t /\ b[i].agent = c
    BY <1>4 DEF Has
  <2>2. Len(a) + i \in 1..Len(s) /\ s[Len(a) + i] = b[i]
    BY <1>1
  <2> QED
    BY <2>1, <2>2 DEF Has
<1> QED
  BY <1>2, <1>3, <1>4

\* What the set of the records holds.
LEMMA HasTold ==
  ASSUME NEW s \in Seq(Tellings), NEW c \in Calls
  PROVE  /\ Explorer!Started(c) \in Explorer!ToSet(s) <=> Has(s, "start", c)
         /\ Explorer!Answer(c) \in Explorer!ToSet(s) <=> Has(s, "answer", c)
         /\ (\E r \in Explorer!Reasons : Explorer!Ended(c, r) \in Explorer!ToSet(s)) <=> Has(s, "end", c)
<1>1. DOMAIN s = 1..Len(s) /\ \A i \in 1..Len(s) : s[i] \in Tellings
  OBVIOUS
<1>2. \A x : x \in Explorer!ToSet(s) <=> \E i \in 1..Len(s) : s[i] = x
  BY <1>1 DEF Explorer!ToSet
<1>3. \A i \in 1..Len(s) : s[i].type = "start" => s[i] = Explorer!Started(s[i].agent)
  BY <1>1, TellingIs
<1>4. \A i \in 1..Len(s) : s[i].type = "answer" => s[i] = Explorer!Answer(s[i].agent)
  BY <1>1, TellingIs
<1>5. \A i \in 1..Len(s) : s[i].type = "end" => \E r \in Explorer!Reasons : s[i] = Explorer!Ended(s[i].agent, r)
  BY <1>1, TellingIs
<1>6. Explorer!Started(c).type = "start" /\ Explorer!Started(c).agent = c
  BY DEF Explorer!Started
<1>7. Explorer!Answer(c).type = "answer" /\ Explorer!Answer(c).agent = c
  BY DEF Explorer!Answer
<1>8. \A r \in Explorer!Reasons : Explorer!Ended(c, r).type = "end" /\ Explorer!Ended(c, r).agent = c
  BY DEF Explorer!Ended
<1>9. Explorer!Started(c) \in Explorer!ToSet(s) <=> Has(s, "start", c)
  BY <1>2, <1>3, <1>6 DEF Has
<1>10. Explorer!Answer(c) \in Explorer!ToSet(s) <=> Has(s, "answer", c)
  BY <1>2, <1>4, <1>7 DEF Has
<1>11. (\E r \in Explorer!Reasons : Explorer!Ended(c, r) \in Explorer!ToSet(s)) <=> Has(s, "end", c)
  BY <1>2, <1>5, <1>8 DEF Has
<1> QED
  BY <1>9, <1>10, <1>11
-----------------------------------------------------------------------------
TypesHold ==
  /\ explores \in [Calls -> {"none", "starting", "exploring", "closing", "ending", "over"}]
  /\ why \in [Calls -> Explorer!Reasons \cup {"-"}]
  /\ parentTurn \in Calls \cup {"none"} /\ aborts \subseteq Calls /\ late \subseteq Calls
  /\ found \subseteq Calls /\ up \in BOOLEAN /\ repair \subseteq Calls /\ deaths \in 0..MaxCrashes

Told ==
  /\ records \in Seq(Tellings) /\ queue \in Seq(Tellings) /\ Tale(records \o queue)

\* Where each call is, and what is told of it.
Placed ==
  \A c \in Calls :
    /\ Has(records, "start", c) \/ Has(queue, "start", c) => explores[c] # "none"
    /\ explores[c] = "starting" => Has(records, "start", c) \/ Has(queue, "start", c)
    /\ explores[c] \in {"exploring", "closing", "ending"} => Has(records, "start", c)
    /\ Has(records, "end", c) \/ Has(queue, "end", c) => explores[c] \in {"ending", "over"}
    /\ Has(records, "answer", c) \/ Has(queue, "answer", c) => c \in aborts \/ explores[c] = "over"
    /\ parentTurn = c => Has(records, "start", c) \/ Has(queue, "start", c)
    /\ Has(queue, "start", c) => parentTurn = c
    /\ explores[c] = "closing" => why[c] \in Explorer!Reasons

\* What a crash leaves, and what the repair has still to end.
Repairing ==
  /\ ~up => queue = <<>> /\ parentTurn = "none" /\ repair = {}
             /\ \A c \in Calls : explores[c] \in {"none", "over"}
  /\ \A c \in repair : /\ Has(records, "start", c) /\ explores[c] = "over"
                        /\ ~Has(records, "end", c) /\ ~Has(queue, "end", c)

\* At most one exploration is begun in the tale and not ended in the log.
OneOpen ==
  \A c, d \in Calls :
    /\ Has(records, "start", c) \/ Has(queue, "start", c)
    /\ Has(records, "start", d) \/ Has(queue, "start", d)
    /\ ~Has(records, "end", c) /\ ~Has(records, "end", d)
    => c = d

ExploreInv == TypesHold /\ Told /\ Placed /\ Repairing /\ OneOpen

LEMMA EmptyTale ==
  ASSUME NEW s, s = <<>>
  PROVE  s \in Seq(Tellings) /\ s \o s = s /\ Tale(s) /\ \A t, c : ~Has(s, t, c)
BY DEF Tale, Has

LEMMA ExploreInit == PartsInit => ExploreInv
<1> SUFFICES ASSUME PartsInit
             PROVE  ExploreInv
  OBVIOUS
<1>1. Explorer!Init
  BY DEF PartsInit
<1>2. records = <<>> /\ queue = <<>>
  BY <1>1 DEF Explorer!Init
<1>3. Told /\ (\A t, c : ~Has(records, t, c) /\ ~Has(queue, t, c))
  BY <1>2, EmptyTale DEF Told
<1>4. TypesHold /\ Repairing
  BY <1>1, PartsAssumption DEF Explorer!Init, TypesHold, Repairing, PartsAssumption
<1>5. Placed
  BY <1>1, <1>3, PartsAssumption DEF Explorer!Init, Placed, PartsAssumption
<1> QED
  BY <1>3, <1>4, <1>5 DEF ExploreInv, OneOpen

\* A record takes its place in the queue.
LEMMA Queues ==
  ASSUME Told, NEW x \in Tellings, queue' = Append(queue, x), records' = records,
         ~Has(records, x.type, x.agent), ~Has(queue, x.type, x.agent),
         x.type # "start" => Has(records, "start", x.agent) \/ Has(queue, "start", x.agent)
  PROVE  /\ Told'
         /\ \A t, c : Has(records', t, c) <=> Has(records, t, c)
         /\ \A t, c : Has(queue', t, c) <=> Has(queue, t, c) \/ (x.type = t /\ x.agent = c)
<1>1. records \in Seq(Tellings) /\ queue \in Seq(Tellings) /\ Tale(records \o queue)
  BY DEF Told
<1>2. /\ queue' \in Seq(Tellings)
      /\ \A t, c : Has(queue', t, c) <=> Has(queue, t, c) \/ (x.type = t /\ x.agent = c)
  BY <1>1, HasMore
<1>3. records' \o queue' = Append(records \o queue, x)
  BY <1>1
<1>4. \A t, c : Has(records \o queue, t, c) <=> Has(records, t, c) \/ Has(queue, t, c)
  BY <1>1, HasParts
<1>5. Tale(Append(records \o queue, x))
  BY <1>1, <1>4, TaleGrows
<1> QED
  BY <1>1, <1>2, <1>3, <1>5 DEF Told

\* The queue is worked off.
LEMMA Stores ==
  ASSUME Told, queue # <<>>, records' = Append(records, Head(queue)), queue' = Tail(queue)
  PROVE  /\ Told'
         /\ \A t, c : Has(records', t, c) \/ Has(queue', t, c) <=> Has(records, t, c) \/ Has(queue, t, c)
         /\ \A t, c : Has(records, t, c) => Has(records', t, c)
         /\ \A t, c : Has(queue', t, c) => Has(queue, t, c)
<1>1. records \in Seq(Tellings) /\ queue \in Seq(Tellings) /\ Tale(records \o queue)
  BY DEF Told
<1>2. /\ Head(queue) \in Tellings /\ queue' \in Seq(Tellings)
      /\ records' \in Seq(Tellings)
  BY <1>1
<1>3. records' \o queue' = records \o queue
  BY <1>1
<1>4. \A t, c : Has(records \o queue, t, c) <=> Has(records, t, c) \/ Has(queue, t, c)
  BY <1>1, HasParts
<1>5. \A t, c : Has(records' \o queue', t, c) <=> Has(records', t, c) \/ Has(queue', t, c)
  BY <1>2, HasParts
<1>6. \A t, c : Has(records, t, c) => Has(records', t, c)
  BY <1>1, <1>2, HasMore
<1>7. \A i \in 1..Len(queue') : queue'[i] = queue[i + 1] /\ i + 1 \in 1..Len(queue)
  BY <1>1
<1>8. \A t, c : Has(queue', t, c) => Has(queue, t, c)
  BY <1>7 DEF Has
<1> QED
  BY <1>1, <1>2, <1>3, <1>4, <1>5, <1>6, <1>8 DEF Told

\* What is stored of an agent has its start stored before.
LEMMA StoredStarts ==
  ASSUME Told
  PROVE  \A c : Has(records, "end", c) \/ Has(records, "answer", c)
                  => Has(records, "start", c) /\ ~Has(queue, "start", c)
BY TaleParts DEF Told

\* Who is shown as running.
LEMMA RunningIs ==
  ASSUME Told
  PROVE  Explorer!Running = {c \in Calls : Has(records, "start", c) /\ ~Has(records, "end", c)}
<1>1. records \in Seq(Tellings)
  BY DEF Told
<1>2. \A c \in Calls :
        /\ Explorer!Started(c) \in Explorer!ToSet(records) <=> Has(records, "start", c)
        /\ (\A r \in Explorer!Reasons : Explorer!Ended(c, r) \notin Explorer!ToSet(records))
             <=> ~Has(records, "end", c)
  BY <1>1, HasTold
<1> QED
  BY <1>2 DEF Explorer!Running

\* A step of a call.
LEMMA CallStep ==
  ASSUME ExploreInv, NEW c \in Calls, Explorer!Step(c)
  PROVE  ExploreInv'
<1>1. TypesHold /\ Told /\ Placed /\ Repairing /\ OneOpen
  BY DEF ExploreInv
<1>2. c # "none"
  BY PartsAssumption DEF PartsAssumption
<1>3. records \in Seq(Tellings)
  BY <1>1 DEF Told
<1>4. /\ Explorer!Started(c) \in Explorer!ToSet(records) <=> Has(records, "start", c)
      /\ Explorer!Answer(c) \in Explorer!ToSet(records) <=> Has(records, "answer", c)
  BY <1>3, HasTold
<1> DEFINE s == Explorer!Started(c)
           a == Explorer!Answer(c)
<1>5. /\ s \in Tellings /\ s.type = "start" /\ s.agent = c
      /\ a \in Tellings /\ a.type = "answer" /\ a.agent = c
  BY AreTellings DEF Explorer!Reasons
<1>6. \A r \in Explorer!Reasons :
        /\ Explorer!Ended(c, r) \in Tellings
        /\ Explorer!Ended(c, r).type = "end" /\ Explorer!Ended(c, r).agent = c
  BY AreTellings
<1> HIDE DEF s, a
<1>7. ASSUME Explorer!Explore(c), Explorer!Running # {}
      PROVE  ExploreInv'
  <2>1. /\ explores' = [explores EXCEPT ![c] = "over"] /\ explores[c] = "none"
        /\ UNCHANGED <<records, queue, why, parentTurn, aborts, late, found, up, repair, deaths>> /\ up
    BY <1>7 DEF Explorer!Explore
  <2>2. TypesHold' /\ Told' /\ OneOpen'
    BY <1>1, <2>1 DEF TypesHold, Told, OneOpen
  <2>3. Placed'
    BY <1>1, <2>1 DEF TypesHold, Placed
  <2>4. Repairing'
    BY <1>1, <2>1 DEF TypesHold, Repairing
  <2> QED
    BY <2>2, <2>3, <2>4 DEF ExploreInv
<1>8. ASSUME Explorer!Explore(c), Explorer!Running = {}
      PROVE  ExploreInv'
  <2>1. /\ explores' = [explores EXCEPT ![c] = "starting"] /\ explores[c] = "none" /\ up
        /\ parentTurn = "none" /\ parentTurn' = c /\ queue' = Append(queue, s)
        /\ UNCHANGED <<records, why, aborts, late, found, up, repair, deaths>>
    BY <1>8 DEF Explorer!Explore, s
  <2>2. ~Has(records, "start", c) /\ ~Has(queue, "start", c)
    BY <1>1, <2>1 DEF Placed
  <2>3. /\ Told'
        /\ \A t, d : Has(records', t, d) <=> Has(records, t, d)
        /\ \A t, d : Has(queue', t, d) <=> Has(queue, t, d) \/ ("start" = t /\ c = d)
    BY <1>1, <1>5, <2>1, <2>2, Queues
  <2>4. \A d \in Calls : ~Has(queue, "start", d) /\ (Has(records, "start", d) => Has(records, "end", d))
    BY <1>1, <1>8, <2>1, PartsAssumption, RunningIs DEF Placed, PartsAssumption
  <2>5. TypesHold'
    BY <1>1, <2>1 DEF TypesHold
  <2>6. Placed'
    BY <1>1, <2>1, <2>3, <2>4 DEF TypesHold, Placed
  <2>7. Repairing'
    BY <1>1, <2>1, <2>3 DEF TypesHold, Repairing
  <2>8. OneOpen'
    BY <2>3, <2>4 DEF OneOpen
  <2> QED
    BY <2>3, <2>5, <2>6, <2>7, <2>8 DEF ExploreInv
<1>9. ASSUME Explorer!Begins(c)
      PROVE  ExploreInv'
  <2>1. /\ explores' = [explores EXCEPT ![c] = "exploring"] /\ explores[c] = "starting" /\ up
        /\ Has(records, "start", c)
        /\ UNCHANGED <<records, queue, why, parentTurn, aborts, late, found, up, repair, deaths>>
    BY <1>4, <1>9 DEF Explorer!Begins
  <2>2. TypesHold' /\ Told' /\ OneOpen'
    BY <1>1, <2>1 DEF TypesHold, Told, OneOpen
  <2>3. Placed'
    BY <1>1, <2>1 DEF TypesHold, Placed
  <2>4. Repairing'
    BY <1>1, <2>1 DEF TypesHold, Repairing
  <2> QED
    BY <2>2, <2>3, <2>4 DEF ExploreInv
<1>10. ASSUME Explorer!TimesOut(c)
       PROVE  ExploreInv'
  BY <1>1, <1>10 DEF Explorer!TimesOut, ExploreInv, TypesHold, Told, Placed, Repairing, OneOpen
<1>11. ASSUME Explorer!Stop(c)
       PROVE  ExploreInv'
  <2>1. /\ up /\ parentTurn = c /\ c \notin aborts /\ explores[c] # "over" /\ aborts' = aborts \cup {c}
        /\ queue' = Append(queue, a)
        /\ UNCHANGED <<records, explores, why, parentTurn, late, found, up, repair, deaths>>
    BY <1>11 DEF Explorer!Stop, a
  <2>2. /\ ~Has(records, "answer", c) /\ ~Has(queue, "answer", c)
        /\ Has(records, "start", c) \/ Has(queue, "start", c)
    BY <1>1, <2>1 DEF Placed
  <2>3. /\ Told'
        /\ \A t, d : Has(records', t, d) <=> Has(records, t, d)
        /\ \A t, d : Has(queue', t, d) <=> Has(queue, t, d) \/ ("answer" = t /\ c = d)
    BY <1>1, <1>5, <2>1, <2>2, Queues
  <2>4. TypesHold' /\ OneOpen'
    BY <1>1, <2>1, <2>3 DEF TypesHold, OneOpen
  <2>5. Placed'
    BY <1>1, <2>1, <2>3 DEF TypesHold, Placed
  <2>6. Repairing'
    BY <1>1, <2>1, <2>3 DEF Repairing
  <2> QED
    BY <2>3, <2>4, <2>5, <2>6 DEF ExploreInv
<1>12. ASSUME Explorer!GoesOn(c)
       PROVE  ExploreInv'
  <2>1. /\ up /\ parentTurn = c /\ Has(records, "answer", c) /\ parentTurn' = "none"
        /\ UNCHANGED <<records, queue, explores, why, aborts, late, found, up, repair, deaths>>
    BY <1>4, <1>12 DEF Explorer!GoesOn
  <2>2. ~Has(queue, "start", c)
    BY <1>1, <2>1, StoredStarts
  <2>3. TypesHold' /\ Told' /\ OneOpen'
    BY <1>1, <2>1 DEF TypesHold, Told, OneOpen
  <2>4. Placed'
    BY <1>1, <2>1, <2>2, PartsAssumption DEF TypesHold, Placed, PartsAssumption
  <2>5. Repairing'
    BY <1>1, <2>1 DEF Repairing
  <2> QED
    BY <2>3, <2>4, <2>5 DEF ExploreInv
<1>13. ASSUME Explorer!ChildEnds(c)
       PROVE  ExploreInv'
  <2>1. PICK well \in BOOLEAN : why' = [why EXCEPT ![c] = Explorer!EndReason(c, well)]
    BY <1>13 DEF Explorer!ChildEnds
  <2>2. Explorer!EndReason(c, well) \in Explorer!Reasons
    BY DEF Explorer!EndReason, Explorer!Reasons
  <2>3. /\ explores' = [explores EXCEPT ![c] = "closing"] /\ explores[c] = "exploring" /\ up
        /\ UNCHANGED <<records, queue, parentTurn, aborts, late, found, up, repair, deaths>>
    BY <1>13 DEF Explorer!ChildEnds
  <2>4. /\ why' \in [Calls -> Explorer!Reasons \cup {"-"}] /\ why'[c] \in Explorer!Reasons
        /\ \A d \in Calls : d # c => why'[d] = why[d]
    BY <1>1, <2>1, <2>2 DEF TypesHold
  <2>5. TypesHold' /\ Told' /\ OneOpen'
    BY <1>1, <2>3, <2>4 DEF TypesHold, Told, OneOpen
  <2>6. Placed'
    BY <1>1, <2>3, <2>4 DEF TypesHold, Placed
  <2>7. Repairing'
    BY <1>1, <2>3 DEF TypesHold, Repairing
  <2> QED
    BY <2>5, <2>6, <2>7 DEF ExploreInv
<1>14. ASSUME Explorer!ChildClosed(c)
       PROVE  ExploreInv'
  <2>1. why[c] \in Explorer!Reasons /\ explores[c] = "closing"
    BY <1>1, <1>14 DEF Explorer!ChildClosed, Placed
  <2> DEFINE x == Explorer!Ended(c, why[c])
  <2>2. x \in Tellings /\ x.type = "end" /\ x.agent = c
    BY <1>6, <2>1
  <2>3. /\ explores' = [explores EXCEPT ![c] = "ending"] /\ up /\ queue' = Append(queue, x)
        /\ UNCHANGED <<records, why, parentTurn, aborts, late, found, up, repair, deaths>>
    BY <1>14 DEF Explorer!ChildClosed
  <2> HIDE DEF x
  <2>4. ~Has(records, "end", c) /\ ~Has(queue, "end", c) /\ Has(records, "start", c) /\ c \notin repair
    BY <1>1, <2>1 DEF Placed, Repairing
  <2>5. /\ Told'
        /\ \A t, d : Has(records', t, d) <=> Has(records, t, d)
        /\ \A t, d : Has(queue', t, d) <=> Has(queue, t, d) \/ ("end" = t /\ c = d)
    BY <1>1, <2>2, <2>3, <2>4, Queues
  <2>6. TypesHold' /\ OneOpen'
    BY <1>1, <2>3, <2>5 DEF TypesHold, OneOpen
  <2>7. Placed'
    BY <1>1, <2>1, <2>3, <2>5 DEF TypesHold, Placed
  <2>8. Repairing'
    BY <1>1, <2>3, <2>4, <2>5 DEF TypesHold, Repairing
  <2> QED
    BY <2>5, <2>6, <2>7, <2>8 DEF ExploreInv
<1>15. ASSUME Explorer!Injects(c)
       PROVE  ExploreInv'
  <2>1. /\ up /\ explores[c] = "ending"
        /\ explores' = [explores EXCEPT ![c] = "over"] /\ found' = found \cup {c}
        /\ UNCHANGED <<records, why, parentTurn, aborts, late, up, repair, deaths>>
    BY <1>15 DEF Explorer!Injects
  <2>2. Has(records, "start", c)
    BY <1>1, <2>1 DEF Placed
  <2>3. TypesHold'
    BY <1>1, <2>1 DEF TypesHold
  <2>4. CASE c \in aborts
    <3>1. queue' = queue
      BY <1>15, <2>4 DEF Explorer!Injects
    <3>2. Told' /\ OneOpen'
      BY <1>1, <2>1, <3>1 DEF Told, OneOpen
    <3>3. Placed'
      BY <1>1, <2>1, <2>2, <3>1 DEF TypesHold, Placed
    <3>4. Repairing'
      BY <1>1, <2>1, <3>1 DEF TypesHold, Repairing
    <3> QED
      BY <2>3, <3>2, <3>3, <3>4 DEF ExploreInv
  <2>5. CASE c \notin aborts
    <3>1. queue' = Append(queue, a)
      BY <1>15, <2>5 DEF Explorer!Injects, a
    <3>2. ~Has(records, "answer", c) /\ ~Has(queue, "answer", c)
      BY <1>1, <2>1, <2>5 DEF Placed
    <3>3. /\ Told'
          /\ \A t, d : Has(records', t, d) <=> Has(records, t, d)
          /\ \A t, d : Has(queue', t, d) <=> Has(queue, t, d) \/ ("answer" = t /\ c = d)
      BY <1>1, <1>5, <2>1, <2>2, <3>1, <3>2, Queues
    <3>4. OneOpen'
      BY <1>1, <3>3 DEF OneOpen
    <3>5. Placed'
      BY <1>1, <2>1, <2>2, <3>3 DEF TypesHold, Placed
    <3>6. Repairing'
      BY <1>1, <2>1, <3>3 DEF TypesHold, Repairing
    <3> QED
      BY <2>3, <3>3, <3>4, <3>5, <3>6 DEF ExploreInv
  <2> QED
    BY <2>4, <2>5
<1>16. ASSUME Explorer!Recover(c)
       PROVE  ExploreInv'
  <2> DEFINE x == Explorer!Ended(c, "interrupted")
  <2>1. x \in Tellings /\ x.type = "end" /\ x.agent = c
    BY <1>6 DEF Explorer!Reasons
  <2>2. /\ up /\ c \in repair /\ repair' = repair \ {c} /\ queue' = Append(queue, x)
        /\ UNCHANGED <<records, explores, why, parentTurn, aborts, late, found, up, deaths>>
    BY <1>16 DEF Explorer!Recover
  <2> HIDE DEF x
  <2>3. /\ ~Has(records, "end", c) /\ ~Has(queue, "end", c) /\ Has(records, "start", c)
        /\ explores[c] = "over"
    BY <1>1, <2>2 DEF Repairing
  <2>4. /\ Told'
        /\ \A t, d : Has(records', t, d) <=> Has(records, t, d)
        /\ \A t, d : Has(queue', t, d) <=> Has(queue, t, d) \/ ("end" = t /\ c = d)
    BY <1>1, <2>1, <2>2, <2>3, Queues
  <2>5. TypesHold' /\ OneOpen'
    BY <1>1, <2>2, <2>4 DEF TypesHold, OneOpen
  <2>6. Placed'
    BY <1>1, <2>2, <2>3, <2>4 DEF TypesHold, Placed
  <2>7. Repairing'
    BY <1>1, <2>2, <2>4 DEF TypesHold, Repairing
  <2> QED
    BY <2>4, <2>5, <2>6, <2>7 DEF ExploreInv
<1> QED
  BY <1>7, <1>8, <1>9, <1>10, <1>11, <1>12, <1>13, <1>14, <1>15, <1>16 DEF Explorer!Step

LEMMA ExploreStep ==
  ASSUME ExploreInv, Explorer!Next
  PROVE  ExploreInv'
<1>1. TypesHold /\ Told /\ Placed /\ Repairing /\ OneOpen
  BY DEF ExploreInv
<1>2. ASSUME Explorer!Records
      PROVE  ExploreInv'
  <2>1. /\ up /\ queue # <<>> /\ records' = Append(records, Head(queue)) /\ queue' = Tail(queue)
        /\ UNCHANGED <<explores, why, parentTurn, aborts, late, found, up, repair, deaths>>
    BY <1>2 DEF Explorer!Records
  <2>2. /\ Told'
        /\ \A t, c : Has(records', t, c) \/ Has(queue', t, c) <=> Has(records, t, c) \/ Has(queue, t, c)
        /\ \A t, c : Has(records, t, c) => Has(records', t, c)
        /\ \A t, c : Has(queue', t, c) => Has(queue, t, c)
    BY <1>1, <2>1, Stores
  <2>3. TypesHold' /\ OneOpen'
    BY <1>1, <2>1, <2>2 DEF TypesHold, OneOpen
  <2>4. Placed'
    BY <1>1, <2>1, <2>2 DEF TypesHold, Placed
  <2>5. Repairing'
    BY <1>1, <2>1, <2>2 DEF Repairing
  <2> QED
    BY <2>2, <2>3, <2>4, <2>5 DEF ExploreInv
<1>3. ASSUME Explorer!Crash
      PROVE  ExploreInv'
  <2>1. /\ up' = FALSE /\ queue' = <<>> /\ parentTurn' = "none" /\ repair' = {}
        /\ explores' = [c \in Calls |-> IF explores[c] = "none" THEN "none" ELSE "over"]
        /\ deaths < MaxCrashes /\ deaths' = deaths + 1
        /\ UNCHANGED <<records, why, aborts, late, found>>
    BY <1>3 DEF Explorer!Crash
  <2>2. records \in Seq(Tellings) /\ queue \in Seq(Tellings) /\ Tale(records \o queue)
    BY <1>1 DEF Told
  <2>3. Tale(records) /\ records \o <<>> = records /\ <<>> \in Seq(Tellings)
    BY <2>2, TaleParts
  <2>4. Told' /\ \A t, c : ~Has(queue', t, c) /\ (Has(records', t, c) <=> Has(records, t, c))
    BY <2>1, <2>2, <2>3, EmptyTale DEF Told
  <2>5. TypesHold'
    <3>1. deaths' \in 0..MaxCrashes
      BY <1>1, <2>1, PartsAssumption DEF TypesHold, PartsAssumption
    <3>2. explores' \in [Calls -> {"none", "starting", "exploring", "closing", "ending", "over"}]
      BY <2>1
    <3> QED
      BY <1>1, <2>1, <3>1, <3>2 DEF TypesHold
  <2>8. OneOpen'
    BY <1>1, <2>4 DEF OneOpen
  <2>6. Placed'
    BY <1>1, <2>1, <2>4, PartsAssumption DEF TypesHold, Placed, PartsAssumption
  <2>7. Repairing'
    BY <1>1, <2>1, <2>4 DEF TypesHold, Repairing
  <2> QED
    BY <2>8, <2>4, <2>5, <2>6, <2>7 DEF ExploreInv
<1>4. ASSUME Explorer!Restart
      PROVE  ExploreInv'
  <2>1. /\ ~up /\ up' = TRUE /\ repair' = Explorer!Running
        /\ UNCHANGED <<records, queue, explores, why, parentTurn, aborts, late, found, deaths>>
    BY <1>4 DEF Explorer!Restart
  <2>2. repair' = {c \in Calls : Has(records, "start", c) /\ ~Has(records, "end", c)}
    BY <1>1, <2>1, RunningIs
  <2>3. queue = <<>> /\ \A t, c : ~Has(queue, t, c)
    BY <1>1, <2>1, EmptyTale DEF Repairing
  <2>4. TypesHold' /\ Told' /\ Placed' /\ OneOpen'
    BY <1>1, <2>1, <2>2 DEF TypesHold, Told, Placed, OneOpen
  <2>5. Repairing'
    <3>1. \A c \in repair' : Has(records, "start", c) /\ ~Has(records, "end", c) /\ explores[c] = "over"
      BY <1>1, <2>1, <2>2 DEF Placed, Repairing
    <3> QED
      BY <2>1, <2>3, <3>1 DEF Repairing
  <2> QED
    BY <2>4, <2>5 DEF ExploreInv
<1> QED
  BY <1>2, <1>3, <1>4, CallStep DEF Explorer!Next

LEMMA ExploreMeans == ExploreInv => OneEnd
<1> SUFFICES ASSUME ExploreInv
             PROVE  OneEnd
  OBVIOUS
<1>1. TypesHold /\ Told /\ Placed /\ OneOpen
  BY DEF ExploreInv
<1>2. records \in Seq(Tellings) /\ queue \in Seq(Tellings) /\ Tale(records \o queue)
  BY <1>1 DEF Told
<1>3. Explorer!TypeOK
  <2>1. Tellings \subseteq Explorer!Record
    BY TellingIs
  <2>2. records \in Seq(Explorer!Record) /\ queue \in Seq(Explorer!Record)
    BY <1>2, <2>1, SeqMonotonic
  <2> QED
    BY <1>1, <2>2 DEF TypesHold, Explorer!TypeOK
<1>4. Explorer!Serial
  <2>1. \A c, d \in Explorer!Running : c = d
    BY <1>1, RunningIs DEF OneOpen
  <2>2. Explorer!Running = {} \/ \E c : Explorer!Running = {c}
    BY <2>1
  <2>3. Cardinality(Explorer!Running) \in {0, 1}
    BY <2>2, FS_EmptySet, FS_Singleton
  <2> QED
    BY <2>3, SameExplorerCount DEF Explorer!Serial
<1>5. Explorer!OneEnd
  <2>1. Tale(records)
    BY <1>2, TaleParts
  <2>2. DOMAIN records = 1..Len(records) /\ \A i \in 1..Len(records) : records[i] \in Tellings
    BY <1>2
  <2> QED
    BY <2>1, <2>2 DEF Tale, Explorer!OneEnd
<1> QED
  BY <1>3, <1>4, <1>5 DEF OneEnd

\* The log tells of one exploration at a time and of one end of each, whatever
\* stop, deadline, crash and repair come together (subagent.ts).
THEOREM ExplorationsCorrect == PartsSpec => []OneEnd
<1>1. ExploreInv /\ [PartsNext]_partsVars => ExploreInv'
  <2> SUFFICES ASSUME ExploreInv, [PartsNext]_partsVars
               PROVE  ExploreInv'
    OBVIOUS
  <2>1. CASE Explorer!Next
    BY <2>1, ExploreStep
  <2>2. CASE UNCHANGED explorerVars
    BY <2>2 DEF explorerVars, ExploreInv, TypesHold, Told, Placed, Repairing, OneOpen
  <2>3. Explorer!Next \/ UNCHANGED explorerVars
    BY DEF PartsNext, Moves, partsVars
  <2> QED
    BY <2>1, <2>2, <2>3
<1> QED
  BY <1>1, ExploreInit, ExploreMeans, PTL DEF PartsSpec

LEMMA SameTerminalsCount == \A S : Terminals!Cardinality(S) = Cardinality(S)
BY DEF Terminals!Cardinality, Cardinality

-----------------------------------------------------------------------------
(* Terminals.  What a terminal has told last is what its command is: that   *)
(* is why the next event fits, whoever reports it.                          *)

Story(s) ==
  /\ s \in Seq(Terminals!Events)
  /\ \A k \in 1..Len(s) :
       /\ s[k].type = "opened" <=> k = 1
       /\ s[k].type = "started" => s[k - 1].type \in {"opened", "finished"}
       /\ s[k].type = "finished" => s[k - 1].type = "started" /\ s[k - 1].run = s[k].run
       /\ s[k].type = "closed" => k = Len(s) /\ s[k - 1].type # "started"

\* The event e fits after the event l.
Fits(l, e) ==
  \/ e.type = "started" /\ l.type \in {"opened", "finished"}
  \/ e.type = "finished" /\ l.type = "started" /\ l.run = e.run
  \/ e.type = "closed" /\ l.type \in {"opened", "finished"}

LEMMA StoryBegins ==
  ASSUME NEW e \in Terminals!Events, e.type = "opened"
  PROVE  Story(<<>> \o <<e>>) /\ <<>> \o <<e>> # <<>> /\ Len(<<>> \o <<e>>) = 1 /\ (<<>> \o <<e>>)[1] = e
<1>1. <<>> \o <<e>> = <<e>> /\ <<e>> \in Seq(Terminals!Events) /\ Len(<<e>>) = 1 /\ <<e>>[1] = e
  OBVIOUS
<1> QED
  BY <1>1 DEF Story

LEMMA StoryGoesOn ==
  ASSUME NEW s, Story(s), s # <<>>, NEW e \in Terminals!Events, Fits(s[Len(s)], e)
  PROVE  /\ Story(s \o <<e>>) /\ s \o <<e>> # <<>>
         /\ (s \o <<e>>)[Len(s \o <<e>>)] = e
<1> DEFINE u == s \o <<e>>
<1>1. s \in Seq(Terminals!Events)
  BY DEF Story
<1>2. /\ u \in Seq(Terminals!Events) /\ Len(u) = Len(s) + 1 /\ Len(s) \in Nat /\ Len(s) > 0
      /\ \A k \in 1..Len(s) : u[k] = s[k]
      /\ u[Len(s) + 1] = e
  BY <1>1
<1>3. u # <<>>
  BY <1>2
<1> HIDE DEF u
<1>4. s[Len(s)].type # "closed"
  BY DEF Fits
<1>5. ASSUME NEW k \in 1..Len(u)
      PROVE  /\ u[k].type = "opened" <=> k = 1
             /\ u[k].type = "started" => u[k - 1].type \in {"opened", "finished"}
             /\ u[k].type = "finished" => u[k - 1].type = "started" /\ u[k - 1].run = u[k].run
             /\ u[k].type = "closed" => k = Len(u) /\ u[k - 1].type # "started"
  <2>1. CASE k \in 1..Len(s)
    <3>1. u[k] = s[k] /\ (k > 1 => u[k - 1] = s[k - 1])
      BY <1>2, <2>1
    <3>2. s[k].type # "closed"
      BY <1>4, <2>1 DEF Story
    <3> QED
      BY <2>1, <3>1, <3>2 DEF Story
  <2>2. CASE k = Len(s) + 1
    <3>1. u[k] = e /\ u[k - 1] = s[Len(s)] /\ k # 1 /\ k = Len(u)
      BY <1>2, <2>2
    <3> QED
      BY <3>1 DEF Fits
  <2> QED
    BY <1>2, <2>1, <2>2
<1> QED
  BY <1>2, <1>3, <1>5 DEF Story, u

-----------------------------------------------------------------------------
TerminalTypes ==
  /\ terminals \subseteq Ids /\ IsFiniteSet(terminals) /\ Cardinality(terminals) <= MaxSessions
  /\ pty \in [Ids -> Runs \cup {None}] /\ timer \in [Ids -> Runs \cup {None}]
  /\ reason \in [Ids -> {"-", "timeout"}]
  /\ armed \subseteq Runs
  /\ proc \in [Runs -> {"none", "spawning", "refused", "alive", "killed", "gone", "reaped"}]
  /\ of \in [Runs -> Ids \cup {None}]
  /\ feed \in [Ids -> Seq(Terminals!Events)]
  /\ closing \in BOOLEAN

\* What a terminal has told, its command, and whether it is open.
Telling(i) ==
  /\ Story(feed[i])
  /\ feed[i] = <<>> => i \notin terminals /\ pty[i] = None
  /\ i \in terminals /\ pty[i] = None => feed[i][Len(feed[i])].type \in {"opened", "finished"}
  /\ i \in terminals /\ pty[i] # None => /\ feed[i][Len(feed[i])].type = "started"
                                         /\ feed[i][Len(feed[i])].run = pty[i]

\* A process, from its spawn on, is that of its terminal as long as that is open.
Owned(r) ==
  /\ proc[r] # "none" => of[r] \in Ids /\ feed[of[r]] # <<>>
  /\ proc[r] \in {"alive", "killed", "gone"} /\ of[r] \in terminals => pty[of[r]] = r
  /\ proc[r] = "alive" => of[r] \in terminals
  /\ proc[r] = "spawning" => of[r] \in terminals /\ pty[of[r]] = None

TerminalInv ==
  /\ TerminalTypes
  /\ \A i \in Ids : Telling(i)
  /\ \A r \in Runs : Owned(r)
  /\ \A r, q \in Runs : proc[r] = "spawning" /\ proc[q] = "spawning" => r = q

LEMMA TerminalInit == PartsInit => TerminalInv
<1> SUFFICES ASSUME PartsInit
             PROVE  TerminalInv
  OBVIOUS
<1>1. Terminals!Init
  BY DEF PartsInit
<1>2. <<>> \in Seq(Terminals!Events) /\ Story(<<>>)
  BY DEF Story
<1>3. IsFiniteSet({}) /\ Cardinality({}) = 0 /\ MaxSessions \in Nat
  BY FS_EmptySet, PartsAssumption DEF PartsAssumption
<1>4. TerminalTypes
  <2>1. IsFiniteSet(terminals) /\ Cardinality(terminals) <= MaxSessions
    BY <1>1, <1>3 DEF Terminals!Init
  <2>2. feed \in [Ids -> Seq(Terminals!Events)]
    BY <1>1, <1>2 DEF Terminals!Init
  <2> QED
    BY <1>1, <2>1, <2>2 DEF Terminals!Init, TerminalTypes
<1> QED
  BY <1>1, <1>2, <1>4 DEF Terminals!Init, TerminalInv, Telling, Owned

\* An event of a command or a terminal.
LEMMA EventsAre ==
  /\ \A r \in Runs : /\ Terminals!Ev("started", r, "-") \in Terminals!Events
                     /\ Terminals!Ev("started", r, "-").type = "started"
                     /\ Terminals!Ev("started", r, "-").run = r
  /\ \A r \in Runs, end \in {"exited", "timeout", "killed"} :
       /\ Terminals!Ev("finished", r, end) \in Terminals!Events
       /\ Terminals!Ev("finished", r, end).type = "finished"
       /\ Terminals!Ev("finished", r, end).run = r
  /\ \A end \in {"killed", "idle_timeout"} :
       /\ Terminals!Ev("closed", None, end) \in Terminals!Events
       /\ Terminals!Ev("closed", None, end).type = "closed"
  /\ Terminals!Ev("opened", None, "-") \in Terminals!Events
  /\ Terminals!Ev("opened", None, "-").type = "opened"
BY DEF Terminals!Ev, Terminals!Events

\* What a step adds to the events of one terminal.
LEMMA Emits ==
  ASSUME TerminalTypes, NEW i \in Ids, NEW events, Terminals!Emit(i, events)
  PROVE  /\ feed'[i] = feed[i] \o events
         /\ \A j \in Ids : j # i => feed'[j] = feed[j]
         /\ feed[i] \o events \in Seq(Terminals!Events) => feed' \in [Ids -> Seq(Terminals!Events)]
BY DEF TerminalTypes, Terminals!Emit

\* A process that is told to go.
LEMMA Kills ==
  ASSUME TerminalTypes, NEW r \in Runs
  PROVE  /\ Terminals!Killed(proc, r)
              \in [Runs -> {"none", "spawning", "refused", "alive", "killed", "gone", "reaped"}]
         /\ Terminals!Killed(proc, r)[r] = IF proc[r] = "alive" THEN "killed" ELSE proc[r]
         /\ \A q \in Runs : q # r => Terminals!Killed(proc, r)[q] = proc[q]
BY DEF TerminalTypes, Terminals!Killed

\* A terminal is opened.
LEMMA OpenStep ==
  ASSUME TerminalInv, NEW i \in Ids, Terminals!Open(i)
  PROVE  TerminalInv'
<1>1. TerminalTypes /\ (\A j \in Ids : Telling(j)) /\ (\A r \in Runs : Owned(r))
  BY DEF TerminalInv
<1>2. /\ feed[i] = <<>> /\ Terminals!Cardinality(terminals) < MaxSessions
      /\ terminals' = terminals \cup {i}
      /\ Terminals!Emit(i, <<Terminals!Ev("opened", None, "-")>>)
      /\ UNCHANGED <<pty, reason, timer, armed, proc, of, closing>>
  BY DEF Terminals!Open
<1> DEFINE e == Terminals!Ev("opened", None, "-")
<1>3. e \in Terminals!Events /\ e.type = "opened"
  BY EventsAre
<1>4. /\ feed'[i] = <<>> \o <<e>>
      /\ \A j \in Ids : j # i => feed'[j] = feed[j]
      /\ <<>> \o <<e>> \in Seq(Terminals!Events) => feed' \in [Ids -> Seq(Terminals!Events)]
  BY <1>1, <1>2, Emits
<1> HIDE DEF e
<1>5. /\ Story(feed'[i]) /\ feed'[i] # <<>> /\ feed'[i][Len(feed'[i])] = e
  BY <1>3, <1>4, StoryBegins
<1>6. feed' \in [Ids -> Seq(Terminals!Events)]
  BY <1>4, <1>5 DEF Story
<1>7. /\ terminals' \subseteq Ids /\ IsFiniteSet(terminals') /\ Cardinality(terminals') <= MaxSessions
  <2>1. IsFiniteSet(terminals) /\ Cardinality(terminals) \in Nat /\ Cardinality(terminals) < MaxSessions
    BY <1>1, <1>2, SameTerminalsCount, FS_CardinalityType DEF TerminalTypes
  <2>2. MaxSessions \in Nat
    BY PartsAssumption DEF PartsAssumption
  <2>3. IsFiniteSet(terminals') /\ Cardinality(terminals') \in {Cardinality(terminals), Cardinality(terminals) + 1}
    BY <1>2, <2>1, FS_AddElement
  <2> QED
    BY <1>1, <1>2, <2>1, <2>2, <2>3 DEF TerminalTypes
<1>8. TerminalTypes'
  BY <1>1, <1>2, <1>6, <1>7 DEF TerminalTypes
<1>9. ASSUME NEW j \in Ids PROVE Telling(j)'
  BY <1>1, <1>2, <1>3, <1>4, <1>5 DEF Telling
<1>10. ASSUME NEW r \in Runs PROVE Owned(r)'
  <2>1. Owned(r)
    BY <1>1
  <2>2. proc[r] # "none" => of[r] # i
    BY <1>2, <2>1 DEF Owned
  <2> QED
    BY <1>2, <1>4, <1>5, <2>1, <2>2 DEF Owned
<1> QED
  BY <1>2, <1>8, <1>9, <1>10 DEF TerminalInv

\* A terminal is left: by close() or by the idle timeout.
LEMMA LeaveStep ==
  ASSUME TerminalInv, NEW i \in Ids, i \in terminals, NEW end \in {"killed", "idle_timeout"},
         Terminals!Quiet, Terminals!Leave(i, end)
  PROVE  TerminalInv'
<1>1. TerminalTypes /\ (\A j \in Ids : Telling(j)) /\ (\A r \in Runs : Owned(r))
  BY DEF TerminalInv
<1>2. /\ terminals' = terminals \ {i} /\ armed' = armed \ {timer[i]} /\ timer' = [timer EXCEPT ![i] = None]
      /\ pty' = [pty EXCEPT ![i] = None]
      /\ proc' = IF pty[i] = None THEN proc ELSE Terminals!Killed(proc, pty[i])
      /\ Terminals!Emit(i, (IF pty[i] = None THEN <<>> ELSE <<Terminals!Ev("finished", pty[i], "killed")>>)
                             \o <<Terminals!Ev("closed", None, end)>>)
      /\ UNCHANGED <<reason, of, closing>>
  BY DEF Terminals!Leave
<1>3. \A r \in Runs : proc[r] # "spawning"
  BY DEF Terminals!Quiet
<1> DEFINE f == Terminals!Ev("finished", pty[i], "killed")
           c == Terminals!Ev("closed", None, end)
           events == (IF pty[i] = None THEN <<>> ELSE <<f>>) \o <<c>>
<1>4. c \in Terminals!Events /\ c.type = "closed"
  BY EventsAre
<1>5. pty[i] # None => pty[i] \in Runs /\ f \in Terminals!Events /\ f.type = "finished" /\ f.run = pty[i]
  <2>1. pty[i] # None => pty[i] \in Runs
    BY <1>1 DEF TerminalTypes
  <2> QED
    BY <2>1, EventsAre
<1>6. /\ feed'[i] = feed[i] \o events
      /\ \A j \in Ids : j # i => feed'[j] = feed[j]
      /\ feed[i] \o events \in Seq(Terminals!Events) => feed' \in [Ids -> Seq(Terminals!Events)]
  BY <1>1, <1>2, Emits
<1> HIDE DEF f, c
<1>7. Telling(i) /\ Story(feed[i]) /\ feed[i] # <<>> /\ feed[i] \in Seq(Terminals!Events)
  BY <1>1 DEF Telling, Story
<1>8. Story(feed'[i]) /\ feed'[i] # <<>>
  <2>1. CASE pty[i] = None
    <3>1. events = <<c>>
      BY <1>4, <2>1
    <3>2. Fits(feed[i][Len(feed[i])], c)
      BY <1>4, <1>7, <2>1 DEF Telling, Fits
    <3> QED
      BY <1>4, <1>6, <1>7, <3>1, <3>2, StoryGoesOn
  <2>2. CASE pty[i] # None
    <3>1. Fits(feed[i][Len(feed[i])], f)
      BY <1>5, <1>7, <2>2 DEF Telling, Fits
    <3> DEFINE s == feed[i] \o <<f>>
    <3>2. Story(s) /\ s # <<>> /\ s[Len(s)] = f
      BY <1>5, <1>7, <2>2, <3>1, StoryGoesOn
    <3>3. feed[i] \o events = s \o <<c>>
      BY <1>4, <1>5, <1>7, <2>2
    <3> HIDE DEF s
    <3>4. Fits(f, c)
      BY <1>4, <1>5, <2>2 DEF Fits
    <3> QED
      BY <1>4, <1>6, <3>2, <3>3, <3>4, StoryGoesOn
  <2> QED
    BY <2>1, <2>2
<1> HIDE DEF events
<1>9. /\ proc' \in [Runs -> {"none", "spawning", "refused", "alive", "killed", "gone", "reaped"}]
      /\ \A r \in Runs : /\ proc'[r] = proc[r] \/ (proc[r] = "alive" /\ proc'[r] = "killed")
                         /\ r = pty[i] => proc'[r] # "alive"
  <2>1. CASE pty[i] = None
    <3>1. \A r \in Runs : r # None
      BY PartsAssumption DEF PartsAssumption
    <3> QED
      BY <1>1, <1>2, <2>1, <3>1 DEF TerminalTypes
  <2>2. CASE pty[i] # None
    BY <1>1, <1>2, <1>5, <2>2, Kills
  <2> QED
    BY <2>1, <2>2
<1>10. /\ pty' \in [Ids -> Runs \cup {None}] /\ timer' \in [Ids -> Runs \cup {None}]
       /\ pty'[i] = None /\ \A j \in Ids : j # i => pty'[j] = pty[j]
  BY <1>1, <1>2 DEF TerminalTypes
<1>11. TerminalTypes'
  <2>1. IsFiniteSet(terminals') /\ Cardinality(terminals') <= MaxSessions
    <3>1. IsFiniteSet(terminals) /\ terminals' \subseteq terminals /\ Cardinality(terminals) <= MaxSessions
      BY <1>1, <1>2 DEF TerminalTypes
    <3>2. IsFiniteSet(terminals') /\ Cardinality(terminals') <= Cardinality(terminals)
      BY <3>1, FS_Subset
    <3>3. Cardinality(terminals) \in Nat /\ Cardinality(terminals') \in Nat /\ MaxSessions \in Nat
      BY <3>1, <3>2, FS_CardinalityType, PartsAssumption DEF PartsAssumption
    <3> QED
      BY <3>1, <3>2, <3>3
  <2>2. feed' \in [Ids -> Seq(Terminals!Events)]
    BY <1>6, <1>8 DEF Story
  <2>3. terminals' \subseteq Ids /\ armed' \subseteq Runs
    BY <1>1, <1>2 DEF TerminalTypes
  <2> QED
    BY <1>1, <1>2, <1>9, <1>10, <2>1, <2>2, <2>3 DEF TerminalTypes
<1>12. ASSUME NEW j \in Ids PROVE Telling(j)'
  <2>1. CASE j = i
    BY <1>2, <1>8, <2>1 DEF Telling
  <2>2. CASE j # i
    BY <1>1, <1>2, <1>6, <1>10, <2>2 DEF Telling
  <2> QED
    BY <2>1, <2>2
<1>13. ASSUME NEW r \in Runs PROVE Owned(r)'
  <2>1. Owned(r) /\ proc[r] # "spawning"
    BY <1>1, <1>3
  <2>2. of'[r] = of[r] /\ (proc'[r] = proc[r] \/ (proc[r] = "alive" /\ proc'[r] = "killed"))
    BY <1>2, <1>9
  <2>3. CASE proc[r] = "none"
    BY <2>2, <2>3 DEF Owned
  <2>4. CASE proc[r] # "none" /\ of[r] = i
    <3>1. proc[r] = "alive" => pty[i] = r
      BY <2>1, <2>4 DEF Owned
    <3>2. proc'[r] # "alive"
      BY <1>9, <2>2, <3>1
    <3> QED
      BY <1>2, <1>8, <2>1, <2>2, <2>4, <3>2 DEF Owned
  <2>5. CASE proc[r] # "none" /\ of[r] # i
    BY <1>2, <1>6, <1>10, <2>1, <2>2, <2>5 DEF Owned
  <2> QED
    BY <2>3, <2>4, <2>5
<1>14. \A r \in Runs : proc'[r] # "spawning"
  BY <1>3, <1>9
<1> QED
  BY <1>11, <1>12, <1>13, <1>14 DEF TerminalInv

\* A process of the terminals gets on.
LEMMA RunStep ==
  ASSUME TerminalInv, NEW r \in Runs,
         Terminals!OfRun(r) \/ \E i \in Ids : Terminals!Run(r, i)
  PROVE  TerminalInv'
<1>1. /\ TerminalTypes /\ (\A j \in Ids : Telling(j)) /\ (\A q \in Runs : Owned(q))
      /\ \A p, q \in Runs : proc[p] = "spawning" /\ proc[q] = "spawning" => p = q
  BY DEF TerminalInv
<1>2. None \notin Ids /\ r # None
  BY PartsAssumption DEF PartsAssumption
<1> DEFINE States == {"none", "spawning", "refused", "alive", "killed", "gone", "reaped"}
<1>3. ASSUME NEW i \in Ids, Terminals!Run(r, i)
      PROVE  TerminalInv'
  <2>1. /\ \A q \in Runs : proc[q] # "spawning"
        /\ proc[r] = "none" /\ i \in terminals /\ pty[i] = None
        /\ proc' = [proc EXCEPT ![r] = "spawning"] /\ of' = [of EXCEPT ![r] = i]
        /\ UNCHANGED <<terminals, pty, reason, timer, armed, feed, closing>>
    BY <1>3 DEF Terminals!Run, Terminals!Quiet
  <2>2. /\ proc' \in [Runs -> States] /\ of' \in [Runs -> Ids \cup {None}]
        /\ proc'[r] = "spawning" /\ of'[r] = i
        /\ \A q \in Runs : q # r => proc'[q] = proc[q] /\ of'[q] = of[q]
    BY <1>1, <2>1 DEF TerminalTypes
  <2>3. TerminalTypes'
    BY <1>1, <2>1, <2>2 DEF TerminalTypes
  <2>4. ASSUME NEW j \in Ids PROVE Telling(j)'
    BY <1>1, <2>1 DEF Telling
  <2>5. ASSUME NEW q \in Runs PROVE Owned(q)'
    <3>1. CASE q = r
      <4>1. feed[i] # <<>>
        BY <1>1, <2>1 DEF Telling
      <4> QED
        BY <2>1, <2>2, <3>1, <4>1 DEF Owned
    <3>2. CASE q # r
      BY <1>1, <2>1, <2>2, <3>2 DEF Owned
    <3> QED
      BY <3>1, <3>2
  <2>6. \A p, q \in Runs : proc'[p] = "spawning" /\ proc'[q] = "spawning" => p = q
    BY <2>1, <2>2
  <2> QED
    BY <2>3, <2>4, <2>5, <2>6 DEF TerminalInv
<1>4. ASSUME Terminals!SpawnFails(r)
      PROVE  TerminalInv'
  <2>1. /\ proc[r] = "spawning" /\ proc' = [proc EXCEPT ![r] = "refused"]
        /\ UNCHANGED <<terminals, pty, reason, timer, armed, of, feed, closing>>
    BY <1>4 DEF Terminals!SpawnFails
  <2>2. /\ proc' \in [Runs -> States] /\ proc'[r] = "refused"
        /\ \A q \in Runs : q # r => proc'[q] = proc[q]
    BY <1>1, <2>1 DEF TerminalTypes
  <2>3. TerminalTypes'
    BY <1>1, <2>1, <2>2 DEF TerminalTypes
  <2>4. ASSUME NEW j \in Ids PROVE Telling(j)'
    BY <1>1, <2>1 DEF Telling
  <2>5. ASSUME NEW q \in Runs PROVE Owned(q)'
    BY <1>1, <2>1, <2>2 DEF Owned
  <2>6. \A p, q \in Runs : proc'[p] = "spawning" /\ proc'[q] = "spawning" => p = q
    BY <1>1, <2>1, <2>2
  <2> QED
    BY <2>3, <2>4, <2>5, <2>6 DEF TerminalInv
<1>5. ASSUME Terminals!Spawned(r)
      PROVE  TerminalInv'
  <2> DEFINE i == of[r]
             e == Terminals!Ev("started", r, "-")
  <2>1. /\ proc[r] = "spawning" /\ proc' = [proc EXCEPT ![r] = "alive"]
        /\ pty' = [pty EXCEPT ![i] = r] /\ reason' = [reason EXCEPT ![i] = "-"]
        /\ timer' = [timer EXCEPT ![i] = r] /\ armed' = armed \cup {r}
        /\ Terminals!Emit(i, <<e>>)
        /\ UNCHANGED <<terminals, of, closing>>
    BY <1>5 DEF Terminals!Spawned
  <2>2. i \in terminals /\ pty[i] = None /\ i \in Ids
    BY <1>1, <2>1 DEF Owned, TerminalTypes
  <2>3. e \in Terminals!Events /\ e.type = "started" /\ e.run = r
    BY EventsAre
  <2>4. /\ feed'[i] = feed[i] \o <<e>>
        /\ \A j \in Ids : j # i => feed'[j] = feed[j]
        /\ feed[i] \o <<e>> \in Seq(Terminals!Events) => feed' \in [Ids -> Seq(Terminals!Events)]
    BY <1>1, <2>1, <2>2, Emits
  <2>5. /\ proc' \in [Runs -> States] /\ proc'[r] = "alive"
        /\ \A q \in Runs : q # r => proc'[q] = proc[q]
    BY <1>1, <2>1 DEF TerminalTypes
  <2>6. /\ pty' \in [Ids -> Runs \cup {None}] /\ timer' \in [Ids -> Runs \cup {None}]
        /\ reason' \in [Ids -> {"-", "timeout"}]
        /\ pty'[i] = r /\ \A j \in Ids : j # i => pty'[j] = pty[j]
    BY <1>1, <2>1, <2>2 DEF TerminalTypes
  <2> HIDE DEF i, e
  <2>7. Telling(i) /\ feed[i] # <<>>
    BY <1>1, <2>2 DEF Telling
  <2>8. Story(feed'[i]) /\ feed'[i] # <<>> /\ feed'[i][Len(feed'[i])] = e
    <3>1. Fits(feed[i][Len(feed[i])], e)
      BY <2>2, <2>3, <2>7 DEF Telling, Fits
    <3> QED
      BY <2>3, <2>4, <2>7, <3>1, StoryGoesOn DEF Telling
  <2>9. TerminalTypes'
    <3>1. feed' \in [Ids -> Seq(Terminals!Events)]
      BY <2>4, <2>8 DEF Story
    <3> QED
      BY <1>1, <2>1, <2>5, <2>6, <3>1 DEF TerminalTypes
  <2>10. ASSUME NEW j \in Ids PROVE Telling(j)'
    <3>1. CASE j = i
      BY <1>2, <2>3, <2>6, <2>8, <3>1 DEF Telling
    <3>2. CASE j # i
      BY <1>1, <2>1, <2>4, <2>6, <3>2 DEF Telling
    <3> QED
      BY <3>1, <3>2
  <2>11. ASSUME NEW q \in Runs PROVE Owned(q)'
    <3>1. CASE q = r
      BY <2>1, <2>2, <2>5, <2>6, <2>8, <3>1 DEF Owned, i
    <3>2. CASE q # r
      <4>1. Owned(q) /\ proc[q] # "spawning" /\ proc'[q] = proc[q] /\ of'[q] = of[q]
        BY <1>1, <2>1, <2>5, <3>2
      <4>2. proc[q] \in {"alive", "killed", "gone"} /\ of[q] \in terminals => of[q] # i
        BY <1>2, <2>2, <4>1, PartsAssumption DEF Owned, PartsAssumption
      <4>3. CASE of[q] = i
        BY <2>1, <2>2, <2>8, <4>1, <4>2, <4>3 DEF Owned
      <4>4. CASE of[q] # i
        BY <2>1, <2>4, <2>6, <4>1, <4>4 DEF Owned
      <4> QED
        BY <4>3, <4>4
    <3> QED
      BY <3>1, <3>2
  <2>12. \A q \in Runs : proc'[q] # "spawning"
    BY <1>1, <2>1, <2>5
  <2> QED
    BY <2>9, <2>10, <2>11, <2>12 DEF TerminalInv
<1>6. ASSUME Terminals!CommandTimeout(r)
      PROVE  TerminalInv'
  <2>1. /\ armed' = armed \ {r}
        /\ UNCHANGED <<terminals, pty, timer, of, feed, closing>>
        /\ \A q \in Runs : proc[q] # "spawning"
    BY <1>6 DEF Terminals!CommandTimeout, Terminals!Quiet
  <2>2. /\ proc' \in [Runs -> States] /\ reason' \in [Ids -> {"-", "timeout"}]
        /\ \A q \in Runs : proc'[q] = proc[q] \/ (proc[q] = "alive" /\ proc'[q] = "killed")
    <3>1. CASE of[r] \in terminals /\ pty[of[r]] = r
      <4>1. reason' = [reason EXCEPT ![of[r]] = "timeout"] /\ proc' = Terminals!Killed(proc, r)
        BY <1>6, <3>1 DEF Terminals!CommandTimeout
      <4> QED
        BY <1>1, <4>1, Kills DEF TerminalTypes
    <3>2. CASE ~(of[r] \in terminals /\ pty[of[r]] = r)
      BY <1>1, <1>6, <3>2 DEF Terminals!CommandTimeout, TerminalTypes
    <3> QED
      BY <3>1, <3>2
  <2>3. TerminalTypes'
    BY <1>1, <2>1, <2>2 DEF TerminalTypes
  <2>4. ASSUME NEW j \in Ids PROVE Telling(j)'
    BY <1>1, <2>1 DEF Telling
  <2>5. ASSUME NEW q \in Runs PROVE Owned(q)'
    BY <1>1, <2>1, <2>2 DEF Owned
  <2> QED
    BY <2>1, <2>2, <2>3, <2>4, <2>5 DEF TerminalInv
<1>7. ASSUME Terminals!Dies(r)
      PROVE  TerminalInv'
  <2>1. /\ proc[r] \in {"alive", "killed"} /\ proc' = [proc EXCEPT ![r] = "gone"]
        /\ UNCHANGED <<terminals, pty, reason, timer, armed, of, feed, closing>>
    BY <1>7 DEF Terminals!Dies
  <2>2. /\ proc' \in [Runs -> States] /\ proc'[r] = "gone"
        /\ \A q \in Runs : q # r => proc'[q] = proc[q]
    BY <1>1, <2>1 DEF TerminalTypes
  <2>3. TerminalTypes'
    BY <1>1, <2>1, <2>2 DEF TerminalTypes
  <2>4. ASSUME NEW j \in Ids PROVE Telling(j)'
    BY <1>1, <2>1 DEF Telling
  <2>5. ASSUME NEW q \in Runs PROVE Owned(q)'
    BY <1>1, <2>1, <2>2 DEF Owned
  <2>6. \A p, q \in Runs : proc'[p] = "spawning" /\ proc'[q] = "spawning" => p = q
    BY <1>1, <2>1, <2>2
  <2> QED
    BY <2>3, <2>4, <2>5, <2>6 DEF TerminalInv
<1>8. ASSUME Terminals!ExitSeen(r)
      PROVE  TerminalInv'
  <2> DEFINE i == of[r]
             e == Terminals!Ev("finished", r, IF reason[i] = "-" THEN "exited" ELSE reason[i])
  <2>1. /\ \A q \in Runs : proc[q] # "spawning"
        /\ proc[r] = "gone" /\ proc' = [proc EXCEPT ![r] = "reaped"]
        /\ UNCHANGED <<terminals, of, closing>>
    BY <1>8 DEF Terminals!ExitSeen, Terminals!Quiet
  <2>2. /\ proc' \in [Runs -> States] /\ proc'[r] = "reaped"
        /\ \A q \in Runs : q # r => proc'[q] = proc[q]
    BY <1>1, <2>1 DEF TerminalTypes
  <2>3. i \in Ids /\ Owned(r)
    BY <1>1, <2>1 DEF Owned
  <2>4. CASE i \in terminals /\ pty[i] # None
    <3>1. /\ armed' = armed \ {timer[i]} /\ timer' = [timer EXCEPT ![i] = None]
          /\ pty' = [pty EXCEPT ![i] = None] /\ reason' = [reason EXCEPT ![i] = "-"]
          /\ Terminals!Emit(i, <<e>>)
      BY <1>8, <2>4 DEF Terminals!ExitSeen
    <3>2. pty[i] = r
      BY <2>1, <2>3, <2>4 DEF Owned
    <3>3. e \in Terminals!Events /\ e.type = "finished" /\ e.run = r
      <4>1. (IF reason[i] = "-" THEN "exited" ELSE reason[i]) \in {"exited", "timeout", "killed"}
        BY <1>1, <2>3 DEF TerminalTypes
      <4> QED
        BY <4>1, EventsAre
    <3>4. /\ feed'[i] = feed[i] \o <<e>>
          /\ \A j \in Ids : j # i => feed'[j] = feed[j]
          /\ feed[i] \o <<e>> \in Seq(Terminals!Events) => feed' \in [Ids -> Seq(Terminals!Events)]
      BY <1>1, <2>3, <3>1, Emits
    <3>5. /\ pty' \in [Ids -> Runs \cup {None}] /\ timer' \in [Ids -> Runs \cup {None}]
          /\ reason' \in [Ids -> {"-", "timeout"}]
          /\ pty'[i] = None /\ \A j \in Ids : j # i => pty'[j] = pty[j]
      BY <1>1, <2>3, <3>1 DEF TerminalTypes
    <3> HIDE DEF i, e
    <3>6. Telling(i) /\ feed[i] # <<>>
      BY <1>1, <2>3, <2>4 DEF Telling
    <3>7. Story(feed'[i]) /\ feed'[i] # <<>> /\ feed'[i][Len(feed'[i])] = e
      <4>1. Fits(feed[i][Len(feed[i])], e)
        BY <2>4, <3>2, <3>3, <3>6 DEF Telling, Fits
      <4> QED
        BY <3>3, <3>4, <3>6, <4>1, StoryGoesOn DEF Telling
    <3>8. TerminalTypes'
      <4>1. feed' \in [Ids -> Seq(Terminals!Events)]
        BY <3>4, <3>7 DEF Story
      <4>2. armed' \subseteq Runs
        BY <1>1, <3>1 DEF TerminalTypes
      <4> QED
        BY <1>1, <2>1, <2>2, <3>5, <4>1, <4>2 DEF TerminalTypes
    <3>9. ASSUME NEW j \in Ids PROVE Telling(j)'
      <4>1. CASE j = i
        BY <3>3, <3>5, <3>7, <4>1 DEF Telling
      <4>2. CASE j # i
        BY <1>1, <2>1, <3>4, <3>5, <4>2 DEF Telling
      <4> QED
        BY <4>1, <4>2
    <3>10. ASSUME NEW q \in Runs PROVE Owned(q)'
      <4>1. CASE q = r
        BY <2>1, <2>2, <2>3, <3>7, <4>1 DEF Owned, i
      <4>2. CASE q # r
        <5>1. Owned(q) /\ proc'[q] = proc[q] /\ of'[q] = of[q]
          BY <1>1, <2>1, <2>2, <4>2
        <5>2. CASE of[q] = i
          BY <2>1, <2>4, <3>2, <3>5, <3>7, <4>2, <5>1, <5>2 DEF Owned
        <5>3. CASE of[q] # i
          BY <2>1, <3>4, <3>5, <5>1, <5>3 DEF Owned
        <5> QED
          BY <5>2, <5>3
      <4> QED
        BY <4>1, <4>2
    <3>11. \A q \in Runs : proc'[q] # "spawning"
      BY <2>1, <2>2
    <3> QED
      BY <3>8, <3>9, <3>10, <3>11 DEF TerminalInv
  <2>5. CASE ~(i \in terminals /\ pty[i] # None)
    <3>1. UNCHANGED <<pty, reason, timer, armed, feed>>
      BY <1>8, <2>5 DEF Terminals!ExitSeen
    <3>2. TerminalTypes'
      BY <1>1, <2>1, <2>2, <3>1 DEF TerminalTypes
    <3>3. ASSUME NEW j \in Ids PROVE Telling(j)'
      BY <1>1, <2>1, <3>1 DEF Telling
    <3>4. ASSUME NEW q \in Runs PROVE Owned(q)'
      BY <1>1, <2>1, <2>2, <3>1 DEF Owned
    <3>5. \A q \in Runs : proc'[q] # "spawning"
      BY <2>1, <2>2
    <3> QED
      BY <3>2, <3>3, <3>4, <3>5 DEF TerminalInv
  <2> QED
    BY <2>4, <2>5
<1> QED
  BY <1>3, <1>4, <1>5, <1>6, <1>7, <1>8 DEF Terminals!OfRun

\* The application closes.
LEMMA DisposeStep ==
  ASSUME TerminalInv, Terminals!DisposeAll
  PROVE  TerminalInv'
<1>1. TerminalTypes /\ (\A j \in Ids : Telling(j)) /\ (\A r \in Runs : Owned(r))
  BY DEF TerminalInv
<1>2. /\ \A r \in Runs : proc[r] # "spawning"
      /\ closing' = TRUE /\ terminals' = {}
      /\ armed' = armed \ {timer[i] : i \in terminals}
      /\ proc' = [r \in Runs |-> IF \E i \in terminals : pty[i] = r /\ proc[r] = "alive"
                                 THEN "killed" ELSE proc[r]]
      /\ UNCHANGED <<pty, reason, timer, of, feed>>
  BY DEF Terminals!DisposeAll, Terminals!Quiet
<1>3. TerminalTypes'
  <2>1. IsFiniteSet({}) /\ Cardinality({}) = 0 /\ MaxSessions \in Nat
    BY FS_EmptySet, PartsAssumption DEF PartsAssumption
  <2>2. proc' \in [Runs -> {"none", "spawning", "refused", "alive", "killed", "gone", "reaped"}]
    BY <1>1, <1>2 DEF TerminalTypes
  <2>3. armed' \subseteq Runs /\ Cardinality({}) <= MaxSessions
    BY <1>1, <1>2, <2>1 DEF TerminalTypes
  <2> QED
    BY <1>1, <1>2, <2>1, <2>2, <2>3 DEF TerminalTypes
<1>4. ASSUME NEW j \in Ids PROVE Telling(j)'
  BY <1>1, <1>2 DEF Telling
<1>5. ASSUME NEW r \in Runs PROVE Owned(r)' /\ proc'[r] # "spawning"
  <2>1. Owned(r) /\ proc[r] # "spawning" /\ (proc[r] = "none" => proc'[r] = "none")
    BY <1>1, <1>2
  <2>2. proc[r] = "alive" => \E i \in terminals : pty[i] = r
    BY <2>1 DEF Owned
  <2>3. proc'[r] # "alive" /\ proc'[r] # "spawning" /\ (proc'[r] # "none" => proc[r] # "none")
    BY <1>2, <2>1, <2>2
  <2> QED
    BY <1>2, <2>1, <2>3 DEF Owned
<1> QED
  BY <1>3, <1>4, <1>5 DEF TerminalInv

LEMMA TerminalStep ==
  ASSUME TerminalInv, Terminals!Next
  PROVE  TerminalInv'
<1>1. ASSUME NEW i \in Ids, Terminals!Close(i) \/ Terminals!IdleTimeout(i)
      PROVE  TerminalInv'
  <2>1. /\ Terminals!Quiet /\ i \in terminals
        /\ \E end \in {"killed", "idle_timeout"} : Terminals!Leave(i, end)
    BY <1>1 DEF Terminals!Close, Terminals!IdleTimeout
  <2> QED
    BY <2>1, LeaveStep
<1> QED
  BY <1>1, OpenStep, RunStep, DisposeStep DEF Terminals!Next

LEMMA TerminalMeans == TerminalInv => TerminalsAreSound
<1> SUFFICES ASSUME TerminalInv
             PROVE  TerminalsAreSound
  OBVIOUS
<1>1. TerminalTypes /\ (\A i \in Ids : Telling(i)) /\ (\A r \in Runs : Owned(r))
  BY DEF TerminalInv
<1>2. Terminals!TypeOK
  BY <1>1, SameTerminalsCount DEF TerminalTypes, Terminals!TypeOK
<1>3. Terminals!NoStrayProcess
  BY <1>1 DEF Owned, Terminals!NoStrayProcess
<1>4. Terminals!OneStory
  BY <1>1 DEF Telling, Story, Terminals!OneStory
<1> QED
  BY <1>2, <1>3, <1>4 DEF TerminalsAreSound, Terminals!TerminalsAreSound

\* No process without a terminal, and every terminal tells one story
\* (pty-session.ts).
THEOREM TerminalsCorrect == PartsSpec => []TerminalsAreSound
<1>1. TerminalInv /\ [PartsNext]_partsVars => TerminalInv'
  <2> SUFFICES ASSUME TerminalInv, [PartsNext]_partsVars
               PROVE  TerminalInv'
    OBVIOUS
  <2>1. CASE Terminals!Next
    BY <2>1, TerminalStep
  <2>2. CASE UNCHANGED terminalVars
    BY <2>2 DEF terminalVars, TerminalInv, TerminalTypes, Telling, Owned
  <2>3. Terminals!Next \/ UNCHANGED terminalVars
    BY DEF PartsNext, Moves, partsVars
  <2> QED
    BY <2>1, <2>2, <2>3
<1> QED
  BY <1>1, TerminalInit, TerminalMeans, PTL DEF PartsSpec
=============================================================================
