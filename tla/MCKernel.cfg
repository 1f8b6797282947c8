SPECIFICATION KernelSpec
CONSTANTS
  Plugins = {"p1"}
  MaxGeneration = 3
INVARIANTS
  TerminalIsTrue
  ActiveIsAddressable
  NothingSurvivesShutdown
PROPERTIES
  TerminalIsFinal
  MethodsReturn
  StopIsHonoured
  ImplementsLease
CHECK_DEADLOCK TRUE
