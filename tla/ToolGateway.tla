---------------------------- MODULE ToolGateway ----------------------------
(***************************************************************************)
(* From the arguments of a tool call to the targets it is judged by, and   *)
(* from there to what it reaches: the gateway (packages/tool-runtime/src/  *)
(* gateway.ts, gateway-path-inputs.ts, gateway-path.ts), the verdict over  *)
(* all claims and the tool's own use of its arguments (web-fetch.ts of     *)
(* tools-core for hosts, the file tools for paths).                        *)
(*                                                                         *)
(* The name service may answer differently every time it is asked, and     *)
(* links may be set anew at any moment.  A place is a real path; a name is *)
(* any other spelling of one.                                              *)
(***************************************************************************)
EXTENDS Naturals, Sequences, SequencesExt

CONSTANTS Hosts, Addresses, Names, Places,
          MaxFields,     \* bound: fields of a call that hold a target
          MaxChanges     \* bound: changes of names and links

VARIABLES
  dns,        \* each host: the address an answer would give now
  link,       \* where a name or a place leads now
  denied,     \* the addresses and places the rules deny
  kind,       \* what the tool's capabilities are about
  fields,     \* the call's arguments, "absent" where a field is left out
  looked,     \* fields the gateway has resolved
  claims,     \* targets of the claims
  pinned,     \* pinnedHosts
  input,      \* the arguments as the tool gets them
  stage,
  reached,    \* addresses and places the tool has reached
  moved,      \* names and places set to lead elsewhere once a resolution went through them
  changes

vars == <<dns, link, denied, kind, fields, looked, claims, pinned, input, stage, reached,
          moved, changes>>

Kinds == {"host", "path", "command"}
Spelled == Names \union Places
Values(k) == IF k = "host" THEN Hosts \union {"odd"} ELSE Spelled \union {"odd"}

TypeOK ==
  /\ dns \in [Hosts -> Addresses \union {"none"}] /\ link \in [Spelled -> Places]
  /\ kind \in Kinds /\ looked \in 0..MaxFields
  /\ claims \subseteq Hosts \union Addresses \union Places \union {"", "odd"}
  /\ DOMAIN pinned \subseteq Hosts /\ Range(pinned) \subseteq Addresses
  /\ stage \in {"resolving", "judging", "running", "refused", "over"}

Init ==
  /\ dns \in [Hosts -> Addresses \union {"none"}]
  /\ link \in {l \in [Spelled -> Places] : \A p \in Places : l[p] = p}
  /\ denied \in SUBSET (Addresses \union Places)
  /\ kind \in Kinds
  /\ fields \in UNION {[1..n -> Values(kind) \union {"absent"}] : n \in 1..MaxFields}
  /\ looked = 0 /\ claims = {} /\ pinned = <<>> /\ input = fields /\ stage = "resolving"
  /\ reached = {} /\ moved = {} /\ changes = 0

\* realpath: a name leads to a place, and a link may stand in that place.
Real(n) == link[link[n]]

World == <<dns, link, denied, kind, fields, moved, changes>>
Field == fields[looked + 1]
Resolving == stage = "resolving" /\ looked < Len(fields)

Refuse == stage' = "refused" /\ UNCHANGED <<World, looked, claims, pinned, input, reached>>
Next1 == looked' = looked + 1 /\ UNCHANGED <<World, stage, reached>>

-----------------------------------------------------------------------------
\* resolveHost, one field: the claim as it is written and the claim of the address
\* the one lookup gave, which alone is pinned.  An address that cannot be read as
\* a host is left to the rules; one that has no answer is refused.
ResolveHost ==
  /\ Resolving /\ kind = "host"
  /\ CASE Field = "absent" -> Next1 /\ UNCHANGED <<claims, pinned, input>>
       [] Field = "odd" -> claims' = claims \union {"odd"} /\ Next1 /\ UNCHANGED <<pinned, input>>
       [] Field \in Hosts /\ dns[Field] = "none" -> Refuse
       [] OTHER -> /\ claims' = claims \union {Field, dns[Field]}
                   /\ pinned' = [h \in DOMAIN pinned \union {Field} |->
                                    IF h = Field THEN dns[h] ELSE pinned[h]]
                   /\ Next1 /\ UNCHANGED input

\* resolvePathFields: the canonical path, with every link followed, is the target of
\* the claim and takes the field's place; UNC paths and empty texts are refused.
ResolvePath ==
  /\ Resolving /\ kind = "path"
  /\ CASE Field = "absent" -> Next1 /\ UNCHANGED <<claims, pinned, input>>
       [] Field = "odd" -> Refuse
       [] OTHER -> /\ claims' = claims \union {Real(Field)}
                   /\ input' = [input EXCEPT ![looked + 1] = Real(Field)]
                   /\ Next1 /\ UNCHANGED pinned

\* resolveCommand: what its words name is judged by where it leads, and the command
\* runs as it was written (its home directory filled in).
ResolveCommand ==
  /\ Resolving /\ kind = "command"
  /\ CASE Field = "absent" -> Next1 /\ UNCHANGED <<claims, pinned, input>>
       [] Field = "odd" -> Refuse
       [] OTHER -> claims' = claims \union {Real(Field)} /\ Next1 /\ UNCHANGED <<pinned, input>>

\* Without a single target the capabilities are judged with the empty one.
Resolved ==
  /\ stage = "resolving" /\ looked = Len(fields)
  /\ claims' = IF claims = {} THEN {""} ELSE claims
  /\ stage' = "judging"
  /\ UNCHANGED <<World, looked, pinned, input, reached>>

\* Mutant: one allowed claim is enough.
Allowed_Any == claims \ denied # {}

\* evaluateClaims: one denied claim denies the call.
Allowed == claims \intersect denied = {}

\* What the rules do not deny they, or the user, may still refuse.
Judge ==
  /\ stage = "judging"
  /\ \/ Allowed /\ stage' = "running"
     \/ stage' = "refused"
  /\ UNCHANGED <<World, looked, claims, pinned, input, reached>>

-----------------------------------------------------------------------------
Used(i) == input[i] # "absent"

\* web.fetch: the pinned address or none; a redirection is not followed.
Connect(i) ==
  /\ stage = "running" /\ kind = "host" /\ Used(i)
  /\ IF input[i] \in DOMAIN pinned
     THEN reached' = reached \union {pinned[input[i]]} /\ stage' = "over"
     ELSE stage' = "refused" /\ UNCHANGED reached
  /\ UNCHANGED <<World, looked, claims, pinned, input>>

\* A file tool or a command opens what its argument leads to now.
Touch(i) ==
  /\ stage = "running" /\ kind # "host" /\ Used(i)
  /\ reached' = reached \union {Real(input[i])}
  /\ UNCHANGED <<World, looked, claims, pinned, input, stage>>

-----------------------------------------------------------------------------
Answer(h, a) ==
  /\ changes < MaxChanges /\ changes' = changes + 1
  /\ dns[h] # a /\ dns' = [dns EXCEPT ![h] = a]
  /\ UNCHANGED <<link, denied, kind, fields, looked, claims, pinned, input, stage, reached, moved>>

\* What the fields resolved so far lead through, and to.
Traversed == claims \union UNION {{fields[i]} \union {link[n] : n \in {fields[i]} \intersect Spelled} :
                                   i \in 1..looked}

\* A link in a place leads to a place without one.
Relink(n, p) ==
  /\ changes < MaxChanges /\ changes' = changes + 1
  /\ link[n] # p /\ link[p] = p /\ (n \in Places => \A m \in Places \ {n} : link[m] # n)
  /\ link' = [link EXCEPT ![n] = p]
  /\ moved' = moved \union ({n} \intersect Traversed)
  /\ UNCHANGED <<dns, denied, kind, fields, looked, claims, pinned, input, stage, reached>>

Next ==
  \/ ResolveHost \/ ResolvePath \/ ResolveCommand \/ Resolved \/ Judge
  \/ \E i \in DOMAIN input : Connect(i) \/ Touch(i)
  \/ \E h \in Hosts, a \in Addresses \union {"none"} : Answer(h, a)
  \/ \E n \in Spelled, p \in Places : Relink(n, p)

Spec == Init /\ [][Next]_vars

-----------------------------------------------------------------------------
\* A call reaches no address the rules deny, whatever the name service answers
\* between the lookup and the connection, and no place they deny, whatever links
\* are set meanwhile: a file tool gets the path as it was resolved, so only a link
\* in the place itself could lead it elsewhere, while a command is given its words
\* as written and follows a link set after it was judged (gateway.ts:186-212,
\* 328-352; web-fetch.ts:109-122).
JudgedIsReached ==
  /\ kind = "host" => reached \intersect denied = {}
  /\ kind = "path" /\ moved \intersect claims = {} => reached \intersect denied = {}
  /\ kind = "command" /\ moved = {} => reached \intersect denied = {}
=============================================================================
