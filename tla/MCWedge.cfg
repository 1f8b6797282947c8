SPECIFICATION SpineSpec
CONSTANTS
  Calls = {"read", "write", "drop"}
  Trusted = {"read"}
  Forbidden = {"drop"}
  Setups <- MCSetups
  MaxEvents = 13
  MaxTurns = 2
INVARIANT AwaitingHasPending
