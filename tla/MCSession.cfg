SPECIFICATION Spec
CONSTANTS
  Starts <- StartsMC
  Unoffered <- UnofferedMC
  MaxRounds = 2
  MaxCalls = 1
  MaxToolCalls = 2
  MaxPrompts = 2
  MAX_PENDING_EVENTS = 7
  MAX_HISTORY_MESSAGES = 2
INVARIANTS
  AnswersReachTheirCall
  SettingsAgree
  StoredOnce
  LiveStreamIsHistory
