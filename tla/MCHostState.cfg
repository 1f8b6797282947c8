INIT Init
NEXT Next
CONSTANTS
  Writers = {"host"}
  Kinds = {"settings", "sessions", "agents", "mailbox"}
  MaxSaves = 4
  GrantKinds = {"read"}
  Authorities <- MCAuthorities
  MaxInstances = 2
  MemProcs = {"m1", "m2"}
  MemoryKeys = {"zh", "en", "fact", "rule"}
  Prompts <- MCPrompts
  LegacyRecords <- MCLegacy
  MaxNow = 2
  MaxMemCalls = 3
  MaxFileLines = 2
  Layers <- MCLayers
  Modules = {"m", "n", "k"}
  MAX_COMPOSED_ENTRIES = 5
  MAX_LAYER_OPERATIONS = 2
  MaxLayers = 3
  MaxVariables = 2
  MaxEdits = 2
  BusThreads = {"t1"}
  EventNames = {"e"}
  PayloadTypes = {"p", "q"}
  EventModes = {"emit", "waterfall", "parallel", "serial", "bail"}
  MaxHandlerId = 3
  MAX_EVENT_DEFINITIONS = 2
  MAX_EVENT_HANDLERS = 3
  MAX_PARALLEL_WORKERS = 2
  Registered <- MCRegistered
  PluginRoles = {"AgentSpine", "Optional"}
  RootServices = {"boot"}
  Behaviours = {"gives", "Mount"}
  MaxRuntimeCalls = 3
INVARIANTS
  AcknowledgedSurvives
  RevisionNamesOneDocument
  WithinAuthority
  GraphIsTrue
  MemoryIsKept
  RuntimeIsSound
  PayloadsMatch
  DispatchesAreSound
PROPERTIES
  FenceHolds
  ImplementsAtomicDocument
  CompositionIsSound
CHECK_DEADLOCK FALSE
