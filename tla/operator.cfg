SPECIFICATION ProcessSpec
CONSTANTS
  honest = honest
  fraud = fraud
  Routes <- SomeRoutes
  Honest = {honest}
  Fraud = {fraud}
  Rank <- FraudFirst
  MaxAttempts = 1
  Threshold = 2
  Idle = Idle
  MaxRestarts = 1
  Sources = {"evm", "terra", "solana"}
  t1 = t1
  mimic = mimic
  Txs = {t1, t2}
  Twofold = {t1}
  Foreign = {mimic}
  Imitated <- ImitatesFirst
  Endpoints = {1, 2, 3}
  single_endpoint_reads = FALSE
  min_agreeing = 2
  finality_blocks = 1
  lookback_blocks = 1
  chunk_size = 1
  SignatureLimit = 1
  SearchLimit = 1
  MaxHeight = 3
  MaxFaults = 1
  Kind <- KindOf
  ChainId <- IdOf
  Transfers <- SomeTransfers
  Unnamed = Unnamed
  Recorded <- SomeRecorded
INVARIANTS
  TypeOK
  ApprovalsBacked
  MemoryTruthful
  RowsMatchChain
  RowsSettled
  NamesAgree
PROPERTIES
  HonestApproved
  QueuedSettles
  CaughtUp
