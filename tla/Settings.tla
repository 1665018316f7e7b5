------------------------------ MODULE Settings ------------------------------
(***************************************************************************)
(* The user's settings: the configuration file, the keys, the rules, and   *)
(* what the sessions have made of them (packages/platform/src/config.ts,   *)
(* updateSettings and setApiKey of apps/desktop/src/main/desktop-host.ts,  *)
(* settings-update.ts, secrets.ts, session-policy.ts there).               *)
(*                                                                         *)
(* A configuration keeps the providers it knows, which of them have a      *)
(* reference to a key, and the user's rules.  Calls of the settings page   *)
(* are not serialised: two may stand at their awaits at once.              *)
(***************************************************************************)
EXTENDS Naturals, FiniteSets

CONSTANTS Providers, Denies, Allows, Sessions, Calls,
          MaxCalls, MaxCrashes     \* bounds

VARIABLES
  disk,      \* config.json
  keys,      \* the references the secrets file has a key for
  memory,    \* config and userRules of the host
  cache,     \* each session: its rule layers
  call,      \* each call of the page: where it stands and what it holds
  overlap,   \* two calls have been under way at once
  used

vars == <<disk, keys, memory, cache, call, overlap, used>>

Configs == {c \in [known : SUBSET Providers, refs : SUBSET Providers, rules : SUBSET (Denies \union Allows)] :
              c.refs \subseteq c.known}
Default == [known |-> {}, refs |-> {}, rules |-> {}]
Broken == [known |-> {}, refs |-> {}, rules |-> {"broken"}]       \* no JSON, or no object

NoCall == [pc |-> "none", of |-> "none", next |-> Default, gone |-> {}, read |-> Default, keysRead |-> {}]
NoLayers == [pc |-> "none", rules |-> {}]

TypeOK ==
  /\ disk \in Configs \union {Broken} /\ memory \in Configs
  /\ keys \subseteq Providers /\ overlap \in BOOLEAN
  /\ \A s \in Sessions : cache[s].pc \in {"none", "project", "ready", "rejected"}
  /\ \A c \in Calls : call[c].pc \in {"none", "keys", "keysRead", "keySet", "patch", "read", "written"}

\* loadConfig: a file that cannot be read or used gives the default and no rules.
Load(file) == IF file = Broken THEN Default ELSE file

Init ==
  /\ disk \in {c \in Configs : c.refs = {}} \union {Broken}
  /\ keys = {} /\ memory = Load(disk)
  /\ cache = [s \in Sessions |-> NoLayers] /\ call = [c \in Calls |-> NoCall]
  /\ overlap = FALSE /\ used = [calls |-> 0, crashes |-> 0]

Free(c) == call[c].pc = "none" /\ used.calls < MaxCalls
At(c, pc) == call[c].pc = pc
Begin(c, new) ==
  /\ call' = [call EXCEPT ![c] = new]
  /\ overlap' = (overlap \/ \E o \in Calls : call[o].pc # "none")
  /\ used' = [used EXCEPT !.calls = @ + 1]
Goto(c, pc) == call' = [call EXCEPT ![c].pc = pc]

-----------------------------------------------------------------------------
\* nextProviders: a provider keeps its reference, the page cannot send one.
NextProviders(config, known) == config.refs \intersect known

\* nextUserRules: the page only brings denies; allows stay as the file has them.
NextUserRules(config, denies) == (config.rules \intersect Allows) \union denies

\* updateSettings up to its await: what is to be, from what is now.
UpdateSettings(c, known, denies) ==
  /\ Free(c)
  /\ Begin(c, [NoCall EXCEPT !.pc = "patch", !.of = "update",
                 !.gone = memory.known \ known,
                 !.next = [known |-> known, refs |-> NextProviders(memory, known),
                           rules |-> NextUserRules(memory, denies)]])
  /\ UNCHANGED <<disk, keys, memory, cache>>

SetApiKey(c, p) ==
  /\ Free(c)
  /\ Begin(c, [NoCall EXCEPT !.pc = "keys", !.of = p])
  /\ UNCHANGED <<disk, keys, memory, cache>>

\* secrets.set: the file is read, then written under another name and renamed.
ReadKeys(c) ==
  /\ At(c, "keys")
  /\ call' = [call EXCEPT ![c].pc = "keysRead", ![c].keysRead = keys]
  /\ UNCHANGED <<disk, keys, memory, cache, overlap, used>>

WriteKeys(c) ==
  /\ At(c, "keysRead")
  /\ keys' = call[c].keysRead \union {call[c].of}
  /\ Goto(c, "patch")
  /\ UNCHANGED <<disk, memory, cache, overlap, used>>

\* readJsonForUpdate: a file that is no JSON is not written over.
ReadJsonForUpdate(c) ==
  /\ At(c, "patch") /\ disk # Broken
  /\ call' = [call EXCEPT ![c].pc = "read", ![c].read = disk]
  /\ UNCHANGED <<disk, keys, memory, cache, overlap, used>>

\* Mutant: providers that are no longer there are not taken out of the file.
Merged_Keeps(file, gone, next) ==
  [known |-> file.known \union next.known, refs |-> file.refs \union next.refs, rules |-> next.rules]

\* mergeConfig of the patch: what the page has removed is null in it; a reference
\* the file has under a provider that stays is left there; rules are replaced.
Merged(file, gone, next) ==
  [known |-> (file.known \ gone) \union next.known,
   refs |-> (file.refs \ gone) \union next.refs,
   rules |-> next.rules]

\* persistProviderConfig: one provider, the rest of the file as it was read.
WithKey(file, p) == [file EXCEPT !.known = @ \union {p}, !.refs = @ \union {p}]

\* writeJsonAtomic.  Between the read and this the file may have been written.
WriteJson(c) ==
  /\ At(c, "read")
  /\ disk' = IF call[c].of = "update" THEN Merged(call[c].read, call[c].gone, call[c].next)
             ELSE WithKey(call[c].read, call[c].of)
  /\ Goto(c, "written")
  /\ UNCHANGED <<keys, memory, cache, overlap, used>>

\* sessionPolicy.invalidate; a computation under way is forgotten.
Invalidated == [s \in Sessions |-> NoLayers]

\* The configuration in memory is exchanged once the file is written.
Assign(c) ==
  /\ At(c, "written")
  /\ IF call[c].of = "update"
     THEN memory' = call[c].next /\ cache' = Invalidated
     ELSE memory' = WithKey(memory, call[c].of) /\ UNCHANGED cache
  /\ call' = [call EXCEPT ![c] = NoCall]
  /\ UNCHANGED <<disk, keys, overlap, used>>

\* A read or a write throws; what is in memory stays.
Throws(c) ==
  /\ call[c].pc \in {"keys", "keysRead", "patch", "read"}
  /\ call' = [call EXCEPT ![c] = NoCall]
  /\ UNCHANGED <<disk, keys, memory, cache, overlap, used>>

-----------------------------------------------------------------------------
\* layersFor: the promise is kept at once; it reads the project's rules first.
LayersFor(s) ==
  /\ cache[s].pc = "none"
  /\ cache' = [cache EXCEPT ![s].pc = "project"]
  /\ UNCHANGED <<disk, keys, memory, call, overlap, used>>

\* The host's rules are asked for once the project's are there.  A notice about the
\* project's file that cannot be recorded rejects the promise, which is kept.
Compute(s) ==
  /\ cache[s].pc = "project"
  /\ \/ cache' = [cache EXCEPT ![s] = [pc |-> "ready", rules |-> memory.rules]]
     \/ cache' = [cache EXCEPT ![s].pc = "rejected"]
  /\ UNCHANGED <<disk, keys, memory, call, overlap, used>>

\* The host ends at any point and starts again from the file.
Restart ==
  /\ used.crashes < MaxCrashes /\ used' = [used EXCEPT !.crashes = @ + 1]
  /\ memory' = Load(disk)
  /\ cache' = Invalidated /\ call' = [c \in Calls |-> NoCall]
  /\ UNCHANGED <<disk, keys, overlap>>

Next ==
  \/ \E c \in Calls :
       \/ \E known \in SUBSET Providers, denies \in SUBSET Denies : UpdateSettings(c, known, denies)
       \/ \E p \in Providers : SetApiKey(c, p)
       \/ ReadKeys(c) \/ WriteKeys(c) \/ ReadJsonForUpdate(c) \/ WriteJson(c) \/ Assign(c) \/ Throws(c)
  \/ \E s \in Sessions : LayersFor(s) \/ Compute(s)
  \/ Restart

Spec == Init /\ [][Next]_vars

-----------------------------------------------------------------------------
\* A session never goes on with rules the user has changed: the layers it has ready
\* are those of the rules in force, however a computation and a change overlap
\* (session-policy.ts:45-86, desktop-host.ts:1032-1036).
PolicyIsCurrent == \A s \in Sessions : cache[s].pc = "ready" => cache[s].rules = memory.rules

\* As long as no two calls were under way at once, what the page was told is what the
\* next start finds: the file and the memory agree whenever no call is between the
\* two, and a reference always has its key (desktop-host.ts:1013-1074).  Two calls
\* that overlap lose what the file got between the read and the write of the other.
NothingIsLost ==
  ~overlap =>
    /\ disk # Broken /\ (\A c \in Calls : ~At(c, "written")) => disk = memory
    /\ disk.refs \union memory.refs \subseteq keys
=============================================================================
