---------------------------- MODULE PolicyTargets ----------------------------
(***************************************************************************)
(* The targets that permission rules are matched against: how a path, a    *)
(* host and an address are brought to one spelling, and what a pattern     *)
(* matches (packages/kernel/src/policy/target.ts, host-target.ts,          *)
(* ip-range.ts and the globs of engine.ts).                                *)
(*                                                                         *)
(* A path is the sequence of its segments, a host the sequence of its      *)
(* labels; a wildcard inside a segment (".env*") is the set of the names   *)
(* it stands for.  Everything here is a function of its arguments.         *)
(***************************************************************************)
EXTENDS Naturals, Sequences, SequencesExt, FiniteSetsExt

Bad == [ok |-> FALSE, drive |-> "", parts |-> <<>>, port |-> "none"]
Good(drive, parts, port) == [ok |-> TRUE, drive |-> drive, parts |-> parts, port |-> port]

-----------------------------------------------------------------------------
(***************************************************************************)
(* Paths.  raw.form tells the beginnings apart: "root" is /..., "drive" is *)
(* C:/..., the others are not absolute or name a home directory.           *)
(***************************************************************************)
Upper(drive) == IF drive = "c" THEN "C" ELSE drive
ShortName(segment) == segment = "PROGRA~1"

\* One segment: empty and "." are dropped, ".." removes the one before it and
\* nothing at the root.
Step(out, segment) ==
  CASE segment \in {"", "."} -> out
    [] segment = ".." -> IF out = <<>> THEN out ELSE Front(out)
    [] OTHER -> Append(out, segment)

NormalizePath(raw) ==
  IF \/ raw.form \notin {"root", "drive"}
     \/ raw.form = "drive" /\ \E i \in DOMAIN raw.segs : ShortName(raw.segs[i])
    THEN Bad
    ELSE Good(IF raw.form = "drive" THEN Upper(raw.drive) ELSE "",
              FoldLeft(Step, <<>>, raw.segs), "none")

\* The drive of a pattern is spelled like that of a target.
NormalizePattern(pattern) == [pattern EXCEPT !.drive = Upper(@)]

-----------------------------------------------------------------------------
(***************************************************************************)
(* Hosts.  raw is what stands in the URL: scheme, host, port; user names   *)
(* before an "@" are dropped and left out here.                            *)
(***************************************************************************)
Lower == [l \in {"A"} |-> "a"]
LowerCase(label) == IF label \in DOMAIN Lower THEN Lower[label] ELSE label
Octet == [l \in {"0", "1", "10", "127", "192", "168", "8", "255"} |->
            CASE l = "0" -> 0 [] l = "1" -> 1 [] l = "10" -> 10 [] l = "127" -> 127
              [] l = "192" -> 192 [] l = "168" -> 168 [] l = "8" -> 8 [] OTHER -> 255]
Numeric(label) == label \in DOMAIN Octet \cup {"010", "0x7f", "256", "2130706433"}
HostLabel(label) == label \notin {"", "-a", "a-", "p%20"}
DefaultPort(scheme) == IF scheme = "http" THEN "80" ELSE "443"

\* Labels that all look like numbers are an address, and only its one canonical
\* spelling is accepted: 127.1 and 0x7f.0.0.1 name the same machine.
NormalizeHostname(labels) ==
  LET low == [i \in DOMAIN labels |-> LowerCase(labels[i])] IN
  IF \/ labels = <<>> \/ \E i \in DOMAIN low : ~HostLabel(low[i])
     \/ /\ \A i \in DOMAIN low : Numeric(low[i])
        /\ ~(Len(low) = 4 /\ \A i \in 1..4 : low[i] \in DOMAIN Octet)
    THEN Bad ELSE Good("", low, "none")

NormalizeHost(raw) ==
  LET host == NormalizeHostname(raw.labels) IN
  IF raw.scheme \notin {"http", "https"} \/ raw.port \in {"0", "99999"} \/ ~host.ok THEN Bad
  ELSE [host EXCEPT !.port = IF raw.port = DefaultPort(raw.scheme) THEN "none" ELSE raw.port]

-----------------------------------------------------------------------------
(***************************************************************************)
(* IPv6 literals: groups on the two sides of "::", which stands for as     *)
(* many zeros as are missing and for at least one; the canonical spelling  *)
(* has "::" for the first longest run of two or more zeros.                *)
(***************************************************************************)
Zeros(n) == [i \in 1..n |-> 0]
Groups(v6) ==
  LET missing == 8 - Len(v6.left) - Len(v6.right) IN
  IF (v6.gap /\ missing < 1) \/ (~v6.gap /\ missing # 0) THEN <<>>
  ELSE v6.left \o Zeros(missing) \o v6.right

Runs(groups) == {r \in (1..8) \X (1..8) : r[1] <= r[2] /\ \A i \in r[1]..r[2] : groups[i] = 0}
LongestRun(groups) ==
  CHOOSE r \in Runs(groups) :
    \A q \in Runs(groups) : \/ q[2] - q[1] < r[2] - r[1]
                            \/ q[2] - q[1] = r[2] - r[1] /\ q[1] >= r[1]
Compressed(groups) ==
  IF Runs(groups) = {} \/ LongestRun(groups)[1] = LongestRun(groups)[2]
    THEN [left |-> groups, gap |-> FALSE, right |-> <<>>]
    ELSE LET r == LongestRun(groups)
         IN  [left |-> SubSeq(groups, 1, r[1] - 1), gap |-> TRUE, right |-> SubSeq(groups, r[2] + 1, 8)]

-----------------------------------------------------------------------------
(***************************************************************************)
(* Addresses that belong to no public machine.  A range is a base and the  *)
(* number of its leading bits; addresses are compared bit by bit, four     *)
(* octets of eight bits.                                                   *)
(***************************************************************************)
PrivateRanges ==
  {<<<<0, 0, 0, 0>>, 8>>, <<<<10, 0, 0, 0>>, 8>>, <<<<100, 64, 0, 0>>, 10>>, <<<<127, 0, 0, 0>>, 8>>,
   <<<<169, 254, 0, 0>>, 16>>, <<<<172, 16, 0, 0>>, 12>>, <<<<192, 0, 0, 0>>, 24>>,
   <<<<192, 0, 2, 0>>, 24>>, <<<<192, 168, 0, 0>>, 16>>, <<<<198, 18, 0, 0>>, 15>>,
   <<<<224, 0, 0, 0>>, 4>>, <<<<240, 0, 0, 0>>, 4>>}

LeadingBits(bits, i) == LET left == bits - 8 * (i - 1)
                        IN  IF bits <= 8 * (i - 1) THEN 0 ELSE IF left > 8 THEN 8 ELSE left
InRange(address, base, bits) ==
  \A i \in 1..4 : LET unit == 2 ^ (8 - LeadingBits(bits, i))
                  IN  address[i] \div unit = base[i] \div unit
ReservedV4(address) == \E range \in PrivateRanges : InRange(address, range[1], range[2])

\* Mapped addresses (::ffff:a.b.c.d) are judged as the address they carry.
ReservedV6(groups) ==
  \/ \A i \in 1..7 : groups[i] = 0 /\ groups[8] \in {0, 1}
  \/ /\ \A i \in 1..5 : groups[i] = 0
     /\ groups[6] = 65535
     /\ ReservedV4(<<groups[7] \div 256, groups[7] % 256, groups[8] \div 256, groups[8] % 256>>)
  \/ groups[1] \div 512 = 126       \* fc00::/7
  \/ groups[1] \div 64 = 1018       \* fe80::/10
  \/ groups[1] \div 256 = 255       \* ff00::/8

Address(parts) == [i \in 1..4 |-> Octet[parts[i]]]
IsPrivate(parts) ==
  /\ Len(parts) = 4 /\ \A i \in 1..4 : parts[i] \in DOMAIN Octet
  /\ ReservedV4(Address(parts))

-----------------------------------------------------------------------------
(***************************************************************************)
(* Patterns.  A pattern is a drive and a sequence of parts, each the set   *)
(* of the names it matches, or Deep for "**".                              *)
(***************************************************************************)
Deep == {"**"}
AnyDrive == "?"

\* What the regular expression of a pattern accepts: "**" at the front stands
\* for any directories, at the end for any rest or none, between two parts for
\* at least one part.
PathMatches(pattern, target) ==
  LET p == pattern.parts
      s == target.parts
      Upto[i \in 0..Len(p), j \in 0..Len(s)] ==
        IF i = 0 THEN j = 0
        ELSE IF p[i] = Deep
          THEN \E k \in 0..(IF i \in {1, Len(p)} THEN j ELSE j - 1) : Upto[i - 1, k]
          ELSE j > 0 /\ s[j] \in p[i] /\ Upto[i - 1, j - 1]
  IN  /\ pattern.drive = target.drive \/ (pattern.drive = AnyDrive /\ target.drive # "")
         \/ (p # <<>> /\ p[1] = Deep)
      /\ Upto[Len(p), Len(s)]

\* "*.name" matches the name and everything below it; the port counts.
HostMatches(pattern, target) ==
  /\ pattern.port = target.port
  /\ IF pattern.below
       THEN IsSuffix(pattern.parts, target.parts)
       ELSE pattern.parts = target.parts
=============================================================================
