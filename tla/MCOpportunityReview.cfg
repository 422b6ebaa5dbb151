SPECIFICATION Spec
CONSTANTS
  q1 = q1
  q2 = q2
  a1 = a1
  a2 = a2
  None = None
  Requests = {q1, q2}
  Opportunities = {o1}
  Actions = {a1, a2}
  Counts = {2, 3, 5}
  MaxOutcomes = 1
SYMMETRY Symmetry
INVARIANTS
  TypeOK
  ActionsEarned
PROPERTY KeepsLifecycle
