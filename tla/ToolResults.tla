---------------------------- MODULE ToolResults ----------------------------
(***************************************************************************)
(* What of a tool's result the model gets to see: the cut to a limit       *)
(* (packages/kernel/src/tool/truncate.ts, runtime/src/turn-result.ts) and  *)
(* the tool that reads the rest by lines (runtime/src/tools/               *)
(* result-expand.ts).                                                      *)
(*                                                                         *)
(* A text is a sequence of UTF-16 units: "a" takes one byte, "n" is a line *)
(* feed, "r" a carriage return, "w" a unit of three bytes, "H" and "L" the *)
(* two halves of a sign outside the plane (together four bytes, alone      *)
(* three each).                                                            *)
(***************************************************************************)
EXTENDS Integers, Sequences, SequencesExt, FiniteSetsExt

UnitBytes(text, i) ==
  CASE text[i] \in {"a", "n", "r"} -> 1
    [] text[i] = "L" /\ i > 1 /\ text[i - 1] = "H" -> 1       \* the pair has four
    [] OTHER -> 3

ByteLength(text) == MapThenSumSet(LAMBDA i : UnitBytes(text, i), DOMAIN text)

Take(text, n) == SubSeq(text, 1, n)
Drop(text, n) == SubSeq(text, n + 1, Len(text))

\* text.split("\n") and its inverse.
SplitLines(text) ==
  FoldLeft(LAMBDA lines, u : IF u = "n" THEN Append(lines, <<>>)
                             ELSE Append(Front(lines), Append(Last(lines), u)),
           <<<<>>>>, text)
JoinLines(lines) ==
  FoldLeft(LAMBDA text, i : text \o (IF i = 1 THEN <<>> ELSE <<"n">>) \o lines[i],
           <<>>, [i \in DOMAIN lines |-> i])

CeilHalf(n) == (n + 1) \div 2

-----------------------------------------------------------------------------
\* The longest prefix that fits, and no lone first half at its end.
HeadBytes(text, maxBytes) ==
  IF maxBytes <= 0 THEN <<>>
  ELSE IF ByteLength(text) <= maxBytes THEN text
  ELSE LET n == Max({k \in 0..Len(text) : ByteLength(Take(text, k)) <= maxBytes})
       IN  IF n > 0 /\ text[n] = "H" THEN Take(text, n - 1) ELSE Take(text, n)

TailBytes(text, maxBytes) ==
  IF maxBytes <= 0 THEN <<>>
  ELSE IF ByteLength(text) <= maxBytes THEN text
  ELSE LET n == Min({k \in 0..Len(text) : ByteLength(Drop(text, k)) <= maxBytes})
       IN  IF n < Len(text) /\ text[n + 1] = "L" THEN Drop(text, n + 1) ELSE Drop(text, n)

TrimToBytes(text, maxBytes, strategy) ==
  CASE strategy = "head" -> HeadBytes(text, maxBytes)
    [] strategy = "tail" -> TailBytes(text, maxBytes)
    [] OTHER -> HeadBytes(text, CeilHalf(maxBytes)) \o TailBytes(text, maxBytes - CeilHalf(maxBytes))

PickEnds(lines, budget, strategy) ==
  CASE budget >= Len(lines) -> lines
    [] strategy = "head" -> Take(lines, budget)
    [] strategy = "tail" -> Drop(lines, Len(lines) - budget)
    [] OTHER -> Take(lines, CeilHalf(budget)) \o Drop(lines, Len(lines) - (budget - CeilHalf(budget)))

ApplyLimits(text, limits) ==
  LET lines == SplitLines(text)
      fewer == IF Len(lines) > limits.maxLines
               THEN JoinLines(PickEnds(lines, limits.maxLines, limits.strategy)) ELSE text
  IN  IF ByteLength(fewer) > limits.maxBytes
      THEN TrimToBytes(fewer, limits.maxBytes, limits.strategy) ELSE fewer

\* Where the marker of the cut goes: the first line end behind the middle.
SplitPoint(text) ==
  LET mid  == Len(text) \div 2
      ends == {i \in mid + 1..Len(text) : text[i] = "n"}
  IN  IF ends # {} THEN Min(ends) - 1
      ELSE IF mid > 0 /\ text[mid] = "H" THEN mid - 1 ELSE mid

InsertMarker(kept, strategy) ==
  CASE strategy = "head" -> <<kept, <<>>>>
    [] strategy = "tail" -> <<<<>>, kept>>
    [] OTHER -> <<Take(kept, SplitPoint(kept)), Drop(kept, SplitPoint(kept))>>

\* truncateResult of the joined texts and n other blocks: the text before and
\* behind the marker, how many of the others stay, whether anything went.
TruncateResult(text, others, limits) ==
  LET none == limits.strategy = "none"
      long == text # <<>> /\ Len(SplitLines(text)) > limits.maxLines
      over == ~none /\ (ByteLength(text) > limits.maxBytes \/ long)
      stay == IF none THEN others ELSE Min({others, limits.maxBlocks})
      kept == IF over THEN ApplyLimits(text, limits) ELSE text
  IN  IF ~over /\ stay = others
      THEN [parts |-> <<text>>, others |-> others, truncated |-> FALSE]
      ELSE [parts |-> InsertMarker(kept, limits.strategy), others |-> stay, truncated |-> TRUE]

Shown(outcome) == FlattenSeq(outcome.parts)

\* What a cut promises: within the limits, and no sign cut in half.
Halved(text) ==
  \E i \in DOMAIN text : \/ text[i] = "H" /\ (i = Len(text) \/ text[i + 1] # "L")
                         \/ text[i] = "L" /\ (i = 1 \/ text[i - 1] # "H")

CutIsRight(text, others, limits) ==
  LET outcome == TruncateResult(text, others, limits)
  IN  /\ limits.strategy # "none" => /\ ByteLength(Shown(outcome)) <= limits.maxBytes
                                     /\ outcome.others <= limits.maxBlocks
      /\ ~outcome.truncated => Shown(outcome) = text
      /\ \A k \in DOMAIN outcome.parts : Halved(text) \/ ~Halved(outcome.parts[k])
      /\ limits.strategy = "head" => IsPrefix(Shown(outcome), text)
      /\ limits.strategy = "tail" => IsSuffix(Shown(outcome), text)

-----------------------------------------------------------------------------
(* result.expand                                                           *)

WithoutReturn(line) == IF line # <<>> /\ Last(line) = "r" THEN Front(line) ELSE line
Clip(line, max) == IF Len(line) <= max THEN line ELSE Take(line, max) \o <<"...">>

\* accept: counts every line and keeps those asked for.
Accept(got, line, offset, limit, max) ==
  [got EXCEPT !.total = @ + 1,
              !.selected = IF got.total + 1 >= offset /\ Len(@) < limit
                           THEN Append(@, Clip(WithoutReturn(line), max)) ELSE @]

\* consume: the whole lines that a chunk completes.
Consume(got, chunk, offset, limit, max) ==
  LET lines == SplitLines(got.pending \o chunk)
  IN  FoldLeft(LAMBDA g, line : Accept(g, line, offset, limit, max),
               [got EXCEPT !.pending = Last(lines)], Front(lines))

\* readRange over the chunks of a blob.
ReadRange(chunks, offset, limit, max) ==
  LET read == FoldLeft(LAMBDA g, chunk : Consume(g, chunk, offset, limit, max),
                       [pending |-> <<>>, total |-> 0, selected |-> <<>>], chunks)
  IN  IF read.pending = <<>> THEN read ELSE Accept(read, read.pending, offset, limit, max)

ExpandKind(read) ==
  CASE read.selected # <<>> -> "range"
    [] read.total = 0 -> "empty"
    [] OTHER -> "out_of_range"

\* Whatever chunks a blob is read in, the lines offset, ..., offset + limit - 1 of
\* the text come out, each at most max units long.
RangeIsRight(chunks, offset, limit, max) ==
  LET split == SplitLines(FlattenSeq(chunks))
      lines == IF Last(split) = <<>> THEN Front(split) ELSE split
      read  == ReadRange(chunks, offset, limit, max)
  IN  /\ read.total = Len(lines)
      /\ read.selected = [i \in 1..Len(SubSeq(lines, offset, Min({offset + limit - 1, Len(lines)}))) |->
                            Clip(WithoutReturn(lines[offset + i - 1]), max)]
=============================================================================
