SPECIFICATION Spec
CONSTANTS
  here = here
  there = there
  weth = weth
  tok = tok
  remoteTok = remoteTok
  owner = owner
  watcher = watcher
  Tokens <- TokOnly
  Chains <- MCChains
  DestTokens <- OneDest
  NoDestToken = NoDestToken
  NoToken = NoToken
  NoMapping = NoMapping
  Decimals = {1, 3}
  RateLimits <- SomeLimits
  RATE_LIMIT_WINDOW = 2
  AdminOps = {"setTokenType", "setIncomingTokenMapping", "setUnlockAuthorized", "setMintAuthorized", "registerToken", "unregisterToken", "setFeeParams", "setCustomAccountFee", "removeCustomAccountFee"}
  MaxTime = 3
  ThisChain = here
  WrappedNative = NoToken
  Xfers <- Payments
  Accounts = {owner}
  Owner = owner
  InitialOperator = owner
  Tips = {0}
  DepositAmounts = {200}
  NoFee = NoFee
  StandardFees = {50, 101}
  CustomFees = {100, 101}
  InitialStandardFee = 50
  InitialDiscountedFee = 10
  Gifts = {}
  Recoveries = {}
  CancelWindows = {1, 2}
  MIN_CANCEL_WINDOW = 1
  MAX_CANCEL_WINDOW = 2
  DEFAULT_CANCEL_WINDOW = 1
  LocalDecimals <- MCDecimals
  MaxDecimals = 3
  InitialType <- MCType
  InitialDest <- MCDest
  InitialSrcDecimals <- MCSrcDecimals
  InitialLimits <- MCLimits
  InitialLocked <- MCLocked
  InitialSupply <- MCSupply
  MaxGifted = 0
  MaxNonce = 3
CONSTRAINT FeesApart
INVARIANTS
  TypeOK
  CirculationConserved
  DepositNoncesDense
