CONSTANT Files <- MCFiles
SPECIFICATION G4Spec
INVARIANTS
  G4TypeOK
  RulesDispatchedInOrder
  AlternativesOfPlainBodies
\* parse_string returns: the done state has no successor
CHECK_DEADLOCK FALSE
