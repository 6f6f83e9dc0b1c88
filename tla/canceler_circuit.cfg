SPECIFICATION Spec
CONSTANTS
  honest = honest
  fraud = fraud
  Guards = {"base"}
  Rank <- HonestFirst
  PageSize = 2
  MaxPages = 2
  MaxLimit = 1
  Honest = {}
  Fraud = {fraud}
  Faults = {"precheck"}
  MaxRetries = 1
  Threshold = 2
  Idle = Idle
  UnknownSources <- AllKnown
  Others = {}
  MaxRestarts = 1
PROPERTY CircuitRecovers
