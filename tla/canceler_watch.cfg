SPECIFICATION Spec
CONSTANTS
  honest = honest
  fraud = fraud
  Guards = {"base", "peer", "terra", "solana"}
  Rank <- HonestFirst
  PageSize = 2
  MaxPages = 2
  MaxLimit = 1
  Honest = {honest}
  Fraud = {fraud}
  Faults = {"source", "read", "precheck", "send"}
  MaxRetries = 1
  Threshold = 2
  Idle = Idle
  UnknownSources <- FraudUnknown
  Others = {"operator", "canceler"}
  MaxRestarts = 1
INVARIANTS
  TypeOK
  ApprovalsAccounted
PROPERTIES
  ReinstatedIsLeftAlone
  FraudIsActedUpon
