SPECIFICATION HostSpec
CONSTANTS
  Plugins = {"p1"}
  MaxGeneration = 3
  MaxRestarts = 1
INVARIANTS
  HostIsConsistent
PROPERTIES
  StartsArePaidFor
  DisabledIsQuiescent
  HostMethodsReturn
