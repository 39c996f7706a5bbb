CONSTANTS
  Requests = {r1, r2}
  Bodies <- MCBodies
  Kinds = {"chat"}
  Configs <- MCConfigs
  Events <- MCEvents
  PeekCap = 1
  TapCap = 1
  Answers <- MCAnswers
SPECIFICATION Spec
SYMMETRY Symmetry
INVARIANTS TypeOK EveryCaptureAccounted FragmentsAreMarked TextFollowsMode
CHECK_DEADLOCK FALSE
