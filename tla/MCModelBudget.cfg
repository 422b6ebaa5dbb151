SPECIFICATION FairSpec
CONSTANTS
  small = small
  other = other
  cut = cut
  large = large
  empty = empty
  NoKey = NoKey
  Requests = {r1, r2, r3}
  Keys = {small, other, cut, large, empty}
  Items <- MCItems
  RetryMax = 2
  JobMaxCalls = 3
  DailyMaxCalls = 5
  CostPerCall = 3
  Quantum = 2
  JobBudget = 12
  DailyBudget = 14
  LastDay = 2
INVARIANTS
  TypeOK
  BudgetConserved
PROPERTIES
  KeepsLedger
  EveryRequestAnswered
