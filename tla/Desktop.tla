------------------------------ MODULE Desktop ------------------------------
(***************************************************************************)
(* The machines around a session: the application and its window, the      *)
(* settings, the plugins, what is kept in files and what a call may reach. *)
(* They share no state: every behaviour is one of `part`, and the others   *)
(* stay where they begin.                                                  *)
(***************************************************************************)
EXTENDS DesktopHost, Sequences, FiniteSets

CONSTANTS
  Sessions, MaxEvents, MaxOpens,                                \* SessionWindow
  Plugins, Wirings,                                             \* PluginContainer
  Calls,                                                        \* of SessionState, and of Settings
  TurnIds, Proposals, Checkpoints, Ptys, Agents, MaxLog,        \* SessionState
  PRESENTATION_LIMIT, EDIT_PROPOSAL_LIMIT,
  Writers, Contents, MaxPuts, MaxTampers,                       \* BlobStore
  MaxCrashes,                                                   \* of BlobStore, and of Settings
  Paths, Parent, Texts, MaxContents, MaxWrites, MaxRestores,    \* Checkpoint
  Hosts, Addresses, Names, RealPlaces, MaxFields, MaxChanges,   \* ToolGateway
  Files, Spots, MaxProposals, MaxForeign,                       \* EditProposals
  Providers, Denies, Allows, Ruled, MaxCalls                    \* Settings, where Ruled are its sessions

VARIABLES
  part,
  log, reads, wire, tabs, shown, loaded, view, details, live,                                    \* SessionWindow
  wiring, plugins, services, effects, activated, todo, using, undone, setUp,                     \* PluginContainer
  events, reduced,                                                                               \* SessionState
  file, synced, listed, writer, temps, refs, unsure, puts,                                       \* BlobStore
  tree, manifest, damaged, restore, before, signal, restores,                                    \* Checkpoint
  dns, link, denied, kind, fields, looked, claims, pinned, input, stage, reached, moved, changes, \* ToolGateway
  texts, proposals, apply, foreign, raced, begun,                                                \* EditProposals
  config, keys, memory, cache, call, overlap, settingsUse                                        \* Settings

windowVars    == <<log, reads, wire, tabs, shown, loaded, view, details, live>>
pluginVars    == <<wiring, plugins, services, effects, activated, todo, using, undone, setUp>>
stateVars     == <<events, reduced>>
blobVars      == <<file, synced, listed, writer, temps, refs, unsure, puts>>
restoreVars   == <<tree, manifest, damaged, restore, before, signal, restores>>
gatewayVars   == <<dns, link, denied, kind, fields, looked, claims, pinned, input, stage, reached, moved, changes>>
editVars      == <<texts, proposals, apply, foreign, raced, begun>>
settingsVars  == <<config, keys, memory, cache, call, overlap, settingsUse>>
machineVars   == <<part, vars, windowVars, pluginVars, stateVars, blobVars, restoreVars, gatewayVars,
                   editVars, settingsVars>>

-----------------------------------------------------------------------------
Window == INSTANCE SessionWindow
Container == INSTANCE PluginContainer WITH state <- plugins, stage <- using
Session == INSTANCE SessionState WITH MaxEvents <- MaxLog, log <- events, state <- reduced
Blobs == INSTANCE BlobStore WITH used <- puts
Kept == INSTANCE Checkpoint WITH Contents <- Texts, used <- restores
Gateway == INSTANCE ToolGateway WITH Places <- RealPlaces
Edits == INSTANCE EditProposals WITH disk <- texts
Config == INSTANCE Settings WITH Sessions <- Ruled, disk <- config, used <- settingsUse

-----------------------------------------------------------------------------
\* Something can be stored, by few; no directory is inside itself; the names of requests and
\* providers, and what a call names, stand apart from the words for something else; the
\* bounds are numbers.
DesktopAssumption ==
  /\ "agent" \notin Requests /\ "none" \notin Requests \cup Ops /\ MaxStarts \in Nat
  /\ "none" \notin Sessions \cup TurnIds \cup Calls \cup Agents
  /\ "update" \notin Providers /\ "broken" \notin Denies \cup Allows
  /\ Contents # {} /\ IsFiniteSet(Writers)
  /\ Container!WiringsAssumption
  /\ Parent \in [Paths -> Paths \cup {"root"}] /\ "root" \notin Paths
  /\ \A p \in Paths : p \notin Kept!Above(p)
  /\ {"absent", "odd"} \intersect (Hosts \cup Names \cup RealPlaces) = {} /\ MaxFields \in Nat
ASSUME DesktopAssumption

-----------------------------------------------------------------------------
MachinesInit ==
  /\ Init /\ Window!Init /\ Container!Init /\ Session!Init /\ Blobs!Init /\ Kept!Init
  /\ Gateway!Init /\ Edits!Init /\ Config!Init

\* Of the other parts nothing moves.
Moves(name) ==
  /\ part = name /\ UNCHANGED part
  /\ IF name = "host"    THEN TRUE ELSE UNCHANGED vars
  /\ IF name = "window"  THEN TRUE ELSE UNCHANGED windowVars
  /\ IF name = "plugins" THEN TRUE ELSE UNCHANGED pluginVars
  /\ IF name = "state"   THEN TRUE ELSE UNCHANGED stateVars
  /\ IF name = "blobs"   THEN TRUE ELSE UNCHANGED blobVars
  /\ IF name = "files"   THEN TRUE ELSE UNCHANGED restoreVars
  /\ IF name = "gateway" THEN TRUE ELSE UNCHANGED gatewayVars
  /\ IF name = "edits"   THEN TRUE ELSE UNCHANGED editVars
  /\ IF name = "config"  THEN TRUE ELSE UNCHANGED settingsVars

MachinesNext ==
  \/ Moves("host") /\ Next
  \/ Moves("window") /\ Window!Next
  \/ Moves("plugins") /\ Container!Next
  \/ Moves("state") /\ Session!Next
  \/ Moves("blobs") /\ Blobs!Next
  \/ Moves("files") /\ Kept!Next
  \/ Moves("gateway") /\ Gateway!Next
  \/ Moves("edits") /\ Edits!Next
  \/ Moves("config") /\ Config!Next

MachinesSpec == MachinesInit /\ [][MachinesNext]_machineVars

-----------------------------------------------------------------------------
(* The properties of the machines are stated where they are modelled;      *)
(* that of DesktopHost is the run's own.                                   *)

\* The window's copy of a session holds no event twice, however pushes and replies
\* cross, and is left with nothing half-written when the turn is over (store.ts); host and
\* window keep their types.
WindowSettles == TypeOK /\ Window!TypeOK /\ Window!NoneTwice /\ Window!LiveSettles

\* Whatever fails while plugins start, an active plugin has what it injects, and
\* what was set up is undone once, the last first (container.ts).
NothingIsLeft == Container!TypeOK /\ Container!ProvidersOutlive /\ Container!NothingIsLeft

\* The state of a session is the same from a snapshot and from the whole log, its
\* mark of untrusted content names the first source, its traces are its turns
\* (reduce.ts, snapshot.ts, derive-trace.ts).
StateIsDerived == Session!SnapshotResumes /\ Session!TaintHasASource /\ Session!TracesAreTheTurns

\* Only a user takes the mark of untrusted content away, and an edit nobody has
\* decided on is given up last (reduce.ts, bounded-index.ts).
TaintSticks == Session!TaintSticks /\ Session!OpenProposalsStay

\* A returned reference names a whole file, after a power failure too
\* (file-blob-store.ts).
RefsResolve == Blobs!TypeOK /\ Blobs!RefsResolve

\* A restore puts back every target and touches nothing else, or touches nothing
\* (checkpoint-restore.ts).
RestoreIsRight == Kept!RestoreIsRight

\* What a call reaches is what the rules have judged, though names and links are
\* changed meanwhile (gateway.ts).
JudgedIsReached == Gateway!TypeOK /\ Gateway!JudgedIsReached

\* An apply changes the places of its proposal and nothing else (edit.ts).
OnlyWhatWasProposed == Edits!OnlyWhatWasProposed

\* No session goes on with rules the user has changed, and what the settings page
\* was told is in the file (session-policy.ts, desktop-host.ts:1013-1074).
SettingsHold == Config!TypeOK /\ Config!PolicyIsCurrent /\ Config!NothingIsLost
=============================================================================
