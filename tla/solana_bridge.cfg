SPECIFICATION Spec
CONSTANTS
  solana = solana
  bsc = bsc
  SOL = SOL
  mint = mint
  solOnBsc = solOnBsc
  mintOnBsc = mintOnBsc
  mintToo = mintToo
  op1 = op1
  Chains <- MCChains
  ThisChain = solana
  Mints = {mint}
  BridgeMints = {mint}
  NATIVE_SOL_TOKEN = SOL
  RemoteTokens = {solOnBsc, mintOnBsc, mintToo}
  MintDecimals <- MCDecimals
  Xfers <- MCXfers
  Accounts = {op1}
  InitialAdmin = op1
  InitialOperator = op1
  NoMapping = NoMapping
  NoPending = NoPending
  Keep = Keep
  DepositAmounts = {200}
  Tips = {3}
  FeeAmounts = {1}
  StrayAmounts = {1}
  ConfigCalls <- MCConfigCalls
  MappingCalls <- MCMappingCalls
  LimitCalls <- MCLimitCalls
  InitialChains = {bsc}
  InitialMappings <- MCMappings
  InitialFeeBps = 50
  InitialDelay = 2
  MinDelay = 1
  MaxDelay = 2
  MaxFeeBps = 100
  RATE_LIMIT_WINDOW_SECS = 2
  DEFAULT_RATE_LIMIT_IF_ZERO_SUPPLY = 12
  DEFAULT_MIN_DIVISOR = 100
  DEFAULT_MAX_DIVISOR = 40
  MaxDecimals = 3
  U64_MAX = 1000
  Rent = 10
  InitialLamports = 18
  InitialVault <- MCVault
  InitialSupply <- MCSupply
  MaxNonce = 1
  MaxTime = 4
  MaxCalls = 2
INVARIANTS
  TypeOK
  ValueConserved
  WindowAccountsForPayouts
PROPERTIES
  OnlyPayoutsUncover
  ImplementsWatchtower
CHECK_DEADLOCK FALSE
