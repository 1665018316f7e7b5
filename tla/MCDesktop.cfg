SPECIFICATION PartsSpec
CONSTANTS
  Requests = {"r1", "r2"}
  Ops = {"send", "steer", "restore", "card", "resume", "abandon"}
  MaxTurns = 2
  MaxStarts = 2
  Sessions = {"s1", "s2"}
  MaxEvents = 3
  MaxOpens = 2
  Plugins = {"p1", "p2", "p3"}
  Wirings <- Wired
  TurnIds = {"u1", "u2", "u3"}
  Calls = {"c1", "c2"}
  Proposals = {"e1", "e2", "e3"}
  Checkpoints = {"k1"}
  Ptys = {"t1"}
  Agents = {"a1"}
  PRESENTATION_LIMIT = 1
  EDIT_PROPOSAL_LIMIT = 2
  MaxLog = 5
  Writers = {"w1", "w2"}
  Contents = {"b1", "b2"}
  MaxPuts = 3
  MaxTampers = 1
  MaxCrashes = 1
  Paths = {"d", "d/a", "d/b"}
  Parent <- Dirs
  Texts = {"x", "y"}
  MaxContents = 2
  MaxWrites = 2
  MaxRestores = 2
  Hosts = {"h1"}
  Addresses = {"a1", "a2"}
  Names = {"n1"}
  RealPlaces = {"p1", "p2"}
  MaxFields = 2
  MaxChanges = 1
  Files = {"f", "g"}
  Spots = {"s", "t"}
  MaxProposals = 2
  MaxForeign = 1
  Providers = {"p1"}
  Denies = {"d1"}
  Allows = {"a1"}
  Ruled = {"s1"}
  MaxCalls = 2
  Env <- Directories
  SourceTrees <- Workspace
  Asked <- RequestsMade
  Written <- PeopleWrite
  Segments = {"a", "b", "", ".", ".."}
  MaxRules = 2
  MaxSegments = 5
CHECK_DEADLOCK FALSE
INVARIANTS
  OperationsExclude
  WindowSettles
  
  
  
  
  
  RulesHold
  OperatorsAreRight
PROPERTIES
  TaintSticks
  RestoreIsRight
  OnlyWhatWasProposed
