SPECIFICATION Spec
CONSTANTS
  short = short
  long = long
  blank = blank
  i1 = i1
  i2 = i2
  i3 = i3
  glass = glass
  lid = lid
  None = None
  Requests = {q1, q2, q3}
  q1 = q1
  q2 = q2
  q3 = q3
  ann = ann
  bob = bob
  Operators = {ann, bob}
  Operator <- MCOperator
  Files = {short, long, blank}
  Ids = {i1, i2, i3}
  Rows <- MCRows
  Theme <- MCTheme
  Clusters = {glass, lid, other}
  MaxVersions = 3
INVARIANTS
  TypeOK
  ImportIsWhole
  OneCluster
PROPERTIES
  KeepsRegister
  EveryUploadEnds
CHECK_DEADLOCK FALSE
