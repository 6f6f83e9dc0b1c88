SPECIFICATION Spec
CONSTANTS
  Tokens = {t1}
  Chains = {c1}
  DestTokens = {d1}
  NoDestToken = NoDestToken
  NoToken = NoToken
  NoMapping = NoMapping
  Decimals = {18}
  RateLimits <- LimitChoices
  RATE_LIMIT_WINDOW = 2
  AdminOps = {"registerToken", "unregisterToken", "setRateLimit", "setRateLimitBridge", "setGuardBridge", "addGuardModule", "removeGuardModule", "setIsBlacklisted", "setLimit", "setLimitsBatch", "mintOrBurn"}
  MaxTime = 4
  Users = {u1}
  GuardLimits = {0, 2}
  InitialModules <- NoModules
  MaxGuardCalls = 2
  WINDOW_SECONDS = 2
  DEFAULT_LIMIT_IF_ZERO_SUPPLY = 4
  DepositAmounts = {2}
  DirectAmounts = {2}
  WithdrawAmounts = {1, 2, 3}
  Supplies = {0, 3000, 20000}
CONSTRAINT OneOwnerActs
INVARIANTS
  SpanBounded
  GuardSpanBounded
  QuietTokenAdmits
