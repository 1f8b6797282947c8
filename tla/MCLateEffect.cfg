SPECIFICATION CordisSpec
CONSTANTS
  Threads = {t1, t2}
  MaxScopes = 2
  MaxEffects = 2
SYMMETRY ThreadSymmetry
INVARIANT RegistrationsUnwind
CHECK_DEADLOCK FALSE
