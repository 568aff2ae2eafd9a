SPECIFICATION Spec
CONSTANTS
  Instances = {"net"}
  Bases = {1}
  Loans = {1, 2}
  MaxLaunches = 2
  MaxMaps = 2
  MaxFaults = 1
  LoanPages = 1
  QueuePages = 2
  Quota <- MCQuota
  Word = 8
INVARIANTS CountsExact EffectsBacked DmaOnlyOverLoan
PROPERTIES RetirementCompletes
CHECK_DEADLOCK FALSE
