SPECIFICATION Spec
CONSTANTS
  here = here
  there = there
  weth = weth
  tok = tok
  remoteTok = remoteTok
  owner = owner
  watcher = watcher
  Tokens <- NativeOnly
  Chains <- MCChains
  DestTokens <- OneDest
  NoDestToken = NoDestToken
  NoToken = NoToken
  NoMapping = NoMapping
  Decimals = {3}
  RateLimits <- SomeLimits
  RATE_LIMIT_WINDOW = 2
  AdminOps = {"pause", "setCancelWindow", "setOperator", "setCanceler", "recoverAsset"}
  MaxTime = 5
  ThisChain = here
  WrappedNative = weth
  Xfers <- Rivals
  Accounts = {owner, watcher}
  Owner = owner
  InitialOperator = watcher
  Tips = {0, 3}
  DepositAmounts = {2}
  NoFee = NoFee
  StandardFees = {}
  CustomFees = {}
  InitialStandardFee = 50
  InitialDiscountedFee = 10
  Gifts = {1}
  Recoveries = {2}
  CancelWindows = {1, 2}
  MIN_CANCEL_WINDOW = 1
  MAX_CANCEL_WINDOW = 2
  DEFAULT_CANCEL_WINDOW = 1
  LocalDecimals <- MCDecimals
  MaxDecimals = 3
  InitialType <- MCType
  InitialDest <- MCDest
  InitialSrcDecimals <- MCSrcDecimals
  InitialLimits <- MCLimits
  InitialLocked <- MCLocked
  InitialSupply <- MCSupply
  MaxGifted = 1
  MaxNonce = 2
CONSTRAINT OperatorsApart
INVARIANTS
  NonceUnique
  PendingSetExact
PROPERTIES
  StuckForever
  OnlyRecoveryUncoversTips
  ImplementsWatchtower
