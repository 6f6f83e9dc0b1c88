SPECIFICATION Spec
CONSTANTS
  terra = terra
  bsc = bsc
  uluna = uluna
  cw20 = cw20
  remoteA = remoteA
  remoteB = remoteB
  foreign = foreign
  admin1 = admin1
  op1 = op1
  bscName = bscName
  otherName = otherName
  Chains <- MCChains
  Identifiers = {bscName}
  Natives = {uluna}
  Cw20s = {cw20}
  SrcEncodings = {uluna, cw20}
  DestTokens = {remoteA, remoteB}
  NoIdentifier = NoIdentifier
  NoChain = NoChain
  NoToken = NoToken
  NoDestToken = NoDestToken
  NoMapping = NoMapping
  NoLimit = NoLimit
  Decimals = {2, 3}
  AdminDecimals = {2, 3}
  Limits = {}
  CodeId <- MCCodeId
  CodeIdLists = {{}}
  RATE_LIMIT_PERIOD = 2
  DEFAULT_RATE_LIMIT = 30
  PERIOD_DIVISOR = 4
  MAX_BRIDGE_DIVISOR = 10
  AdminOps = {"pause", "setWithdrawDelay", "setCanceler", "recoverAsset", "fixPendingDecimals"}
  MaxTime = 5
  ThisChain = terra
  GasDenom = uluna
  Xfers <- Rivals
  Accounts = {op1}
  InitialAdmin = op1
  OperatorList <- Operators
  InitialMinSignatures = 1
  NoAccount = NoAccount
  NoFee = NoFee
  Tips = {0, 3}
  DepositAmounts = {200}
  Gifts = {}
  Recoveries = {200}
  StandardFees = {50}
  CustomFees = {}
  InitialStandardFee = 50
  InitialDiscountedFee = 10
  Delays = {0, 1, 2}
  MIN_DELAY = 1
  MAX_DELAY = 2
  DEFAULT_WITHDRAW_DELAY = 1
  ADMIN_TIMELOCK = 2
  UINT128_MAX = 1000
  InitialIdentifier <- MCIdentifier
  InitialTokens <- MCTokens
  InitialDest <- MCDest
  InitialSrcDecimals <- MCSrcDecimals
  InitialLimits <- Unlimited
  InitialLocked <- MCLocked
  InitialSupply <- MCSupply
  MaxNonce = 1
  MaxGifted = 21
  MaxAdminCalls = 0
INVARIANTS
  TypeOK
  CirculationConserved
PROPERTIES
  OnlyRecoveryUncovers
  ImplementsWatchtower
