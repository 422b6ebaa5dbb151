SPECIFICATION Spec
CONSTANTS
  v1 = v1
  v2 = v2
  v3 = v3
  v4 = v4
  v5 = v5
  None = None
  Voices = {v1, v2, v3, v4, v5}
  SignalRows <- MCSignalRows
  Safety = {v1}
  MultiTurn = {v1, v2}
  Size = 3
  Builders = {b1, b2}
  Requests = {q1, q2, q3}
  Reviewers = {r1, r2, r3, r4}
  Labels = {l1, l2}
  Explored = {v3}
SYMMETRY Symmetry
INVARIANTS
  TypeOK
  ApprovalIsEarned
  SampleCovers
PROPERTY ApprovedIsFinal
