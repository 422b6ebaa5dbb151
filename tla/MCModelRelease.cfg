SPECIFICATION FairSpec
CONSTANTS
  e1 = e1
  e2 = e2
  e3 = e3
  e4 = e4
  None = None
  Requests = {q1, q2}
  Evaluations = {e1, e2, e3, e4}
  Failing = {e4}
INVARIANTS
  TypeOK
  OnlyPassedIsUsed
PROPERTIES
  KeepsRegister
  EveryRequestEnds
