SPECIFICATION WorkplaceSpec
CONSTANTS
  Agents = {a, b}
  Targets = {p, q}
  Contents = {"empty", "a"}
  MaxCalls = 2
  MaxOutside = 2
  Users = {a, b}
  Facts = {"a", "b", "c"}
  MaxFacts = 2
  MaxMemoryCalls = 4
  Installers = {a, b}
  Skills = {"s", "t"}
  Sources <- MCSources
  MaxInstalls = 2
  MaxSkillFaults = 2
  MaxPrompts = 3
  MaxOperations = 2
  MaxRequests = 2
  MessageKeys = {"m"}
  ToolKeys = {"t", "u"}
  Pieces = {1, 2}
  MaxTranscriptBytes = 3
  MaxUpdates = 4
  OutputLimits = {1, 2, 3}
  MaxWritten = 4
  MaxChunk = 2
  Threads = {a, b}
  Shells = {r, s}
  Capacity = 1
  RawLimit = 1
  MaxTyped = 2
  MaxNativeCalls = 3
  Hosts = {a, b}
  Panes = {r, s}
  Sizes = {"small", "large"}
  MaxListed = 2
  MaxLog = 1
  MaxTmuxCalls = 3
  MaxTmuxFaults = 2
  MaxMoves = 1
  Clients = {a, b}
  MaxServers = 2
  MaxConnections = 4
  MaxHostFaults = 1
  Identities = {"mine"}
  Texts <- MCTexts
  ChunksOf <- MCChunksOf
  Corrupt = Corrupt
  None = None
  Alphabet <- MCAlphabet
  MaxLen = 12
  Letters = {"a", "b"}
  MaxPattern = 4
  MaxPiece = 2
  MaxFed = 6
SYMMETRY MCSymmetry
INVARIANTS WorkplaceTypeOK ProfileKept InterfaceSound ExecSound TerminalsSound
INVARIANTS LoopReadsPrefix FoundIffContained
PROPERTY ReplacesWhatWasReviewed
CHECK_DEADLOCK FALSE
