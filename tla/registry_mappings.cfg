SPECIFICATION Spec
CONSTANTS
  Tokens = {t1, t2}
  Chains = {c1, c2}
  DestTokens = {d1, d2}
  NoDestToken = NoDestToken
  NoToken = NoToken
  NoMapping = NoMapping
  Decimals = {18}
  RateLimits <- NoLimitChoices
  RATE_LIMIT_WINDOW = 2
  AdminOps = {"registerChain", "unregisterChain", "registerToken", "unregisterToken", "setTokenDestination", "setIncomingTokenMapping", "setTokenType"}
  MaxTime = 1
  Users = {}
  GuardLimits = {}
  InitialModules <- NoModules
  MaxGuardCalls = 0
  WINDOW_SECONDS = 2
  DEFAULT_LIMIT_IF_ZERO_SUPPLY = 4
  DepositAmounts = {}
  DirectAmounts = {}
  WithdrawAmounts = {}
  Supplies = {0}
SYMMETRY MapSymmetry
INVARIANTS
  DestinationsOneToOne
  DestChainsExact
