SPECIFICATION Spec
CONSTANTS
  terra = terra
  bsc = bsc
  uluna = uluna
  cw20 = cw20
  remoteA = remoteA
  remoteB = remoteB
  foreign = foreign
  admin1 = admin1
  op1 = op1
  bscName = bscName
  otherName = otherName
  Chains <- MCChains
  Identifiers = {bscName, otherName}
  Natives = {uluna}
  Cw20s = {cw20}
  SrcEncodings = {uluna, cw20, foreign}
  DestTokens = {remoteA, remoteB, foreign}
  NoIdentifier = NoIdentifier
  NoChain = NoChain
  NoToken = NoToken
  NoDestToken = NoDestToken
  NoMapping = NoMapping
  NoLimit = NoLimit
  Decimals = {2, 3}
  AdminDecimals = {3}
  Limits <- SomeLimits
  CodeId <- MCCodeId
  CodeIdLists = {{}, {2}}
  RATE_LIMIT_PERIOD = 2
  DEFAULT_RATE_LIMIT = 30
  PERIOD_DIVISOR = 10
  MAX_BRIDGE_DIVISOR = 10
  AdminOps = {"registerChain", "unregisterChain", "updateChain", "addToken", "updateToken",
    "setAllowedCw20CodeIds", "setRateLimit", "setTokenDestination", "setIncomingTokenMapping",
    "removeIncomingTokenMapping", "proposeAdmin", "cancelAdminProposal", "addOperator",
    "removeOperator", "updateMinSignatures", "setFeeParams", "setCustomAccountFee"}
  MaxTime = 3
  ThisChain = terra
  GasDenom = uluna
  Xfers <- OnePayment
  Accounts = {admin1, op1}
  InitialAdmin = admin1
  OperatorList <- RepeatedOperators
  InitialMinSignatures = 1
  NoAccount = NoAccount
  NoFee = NoFee
  Tips = {0}
  DepositAmounts = {200}
  Gifts = {1}
  Recoveries = {200}
  StandardFees = {20}
  CustomFees = {100}
  InitialStandardFee = 50
  InitialDiscountedFee = 10
  Delays = {}
  MIN_DELAY = 1
  MAX_DELAY = 2
  DEFAULT_WITHDRAW_DELAY = 1
  ADMIN_TIMELOCK = 2
  UINT128_MAX = 1000
  InitialIdentifier <- MCIdentifier
  InitialTokens <- MCTokens
  InitialDest <- MCDest
  InitialSrcDecimals <- MCSrcDecimals
  InitialLimits <- Unconfigured
  InitialLocked <- MCLocked
  InitialSupply <- MCSupply
  MaxNonce = 1
  MaxGifted = 1
  MaxAdminCalls = 3
INVARIANTS
  OperatorsCounted
  ChainNamesInverse
  MappingsOneToOne
  CirculationConserved
CHECK_DEADLOCK FALSE
