SPECIFICATION Spec
CONSTANTS
  Modes = {"local", "docker", "shared"}
  Fatal = TRUE
  MaxCount = 2
CHECK_DEADLOCK FALSE
INVARIANTS NoInherited BreachFails OverWhenReturned NoOrphan
PROPERTIES Sealed OutcomeSpec Returns
