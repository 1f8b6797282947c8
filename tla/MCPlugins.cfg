SPECIFICATION Spec
CONSTANTS
  McpTools = {"x"}
  McpSecrets = {"s"}
  MaxMcpId = 4
  MaxMcpFrames = 2
  MaxMcpStarts = 2
  PatchPaths = {"a", "b"}
  PatchFiles = {"f", "g"}
  Contents <- MCContents
  HunkLists <- MCHunkLists
  MAX_PATCH_FILES = 2
  OutputLimit = 2
  MaxWritten = 3
  SlotIds <- MCSlotIds
  SkillEntries <- MCSkillEntries
  DisabledSkills = {"gamma"}
  MAX_SKILL_METADATA = 2
  MAX_SKILL_TOOL_DECLARATIONS = 3
  MAX_SKILL_FILE_BYTES = 4
  MAX_SKILL_INSTRUCTION_BYTES = 2
  MAX_SKILL_CONTEXT_BYTES = 2
  MAX_SKILL_WARNINGS = 2
  MaxSkillSteps = 5
  FileTrees <- MCFileTrees
  FileTexts <- MCFileTexts
  Below <- MCBelow
  MAX_SEARCH_ENTRIES = 8
  MAX_SEARCH_DEPTH = 2
  MAX_READ_BYTES = 3
  WeixinKeys = {"k", "l"}
  WeixinContents <- MCContentsSent
  WireStatuses <- MCWireStatuses
  MAX_RETRY_ATTEMPTS = 2
  MAX_BUFFER_CAPACITY_BYTES = 1
  MAX_MESSAGE_TEXT_BYTES = 2
  MAX_FILE_NAME_BYTES = 1
  MAX_MEDIA_ITEMS = 1
  MAX_MEDIA_METADATA_BYTES = 1
  MAX_DIMENSION = 1
  MAX_STORED_MESSAGES = 1
  MaxWeixinCalls = 3
  Streams = {"s"}
  Formats = {"pcm", "bad"}
  BadFormat = "bad"
  Texts = {"hello", "badtext"}
  BadText = "badtext"
  AudioChunks <- MCAudioChunks
  AlienStreamStatuses <- MCAlienStatuses
  MAX_AUDIO_CHUNK_BYTES = 1
  MAX_STREAM_CHUNKS = 2
  MAX_STREAM_BUFFER = 1
  MaxVoiceCalls = 1
INVARIANTS
  McpExchangeIsSound
  PatchIsTransactional
  ShellResultIsWhole
  SkillsAreWhatWasFound
  FilesAreFoundInside
  VoiceAnswersAsAsked
PROPERTIES
  DeliveryIsSound
  CallEnds
CHECK_DEADLOCK FALSE
