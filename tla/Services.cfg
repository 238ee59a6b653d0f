SPECIFICATION ServicesSpec
CONSTANTS
  KycUsers = {u1}
  WebProcesses = {w1}
  SessionIds = {v1}
  NoSession = NoSession
  Words = {"pass", "unheard-of"}
  SwapValues <- MCSwapValues
  Unknown <- NoUsdValue
  Threshold = 1000
  MaxOutside = 2
  MaxCalls = 3
  MaxRestarts = 1

  Traders = {t1, t2}
  WalletProcesses = {w1, w2}
  Trades = {c1, c2}
  OwnNonces = {1}
  MaxSessions = 1
  MaxBuilt = 2
  MaxSubmitted = 2

  Stakers = {s1, s2}
  Precision = 2
  Rates = {3}
  MinLock = 1
  InitialStake = 3
  RewardFund = 8
  RewardsRevert = FALSE
  MaxStakeTime = 3
  MaxRateChanges = 1
  MaxResets = 5

  Keys = {k1, k2}
  NoKey = NoKey
  Threads = {th1, th2}
  MaxRotations = 1
  MaxLoads = 1
  MaxProcesses = 1

  Chains = {1, 56, 137, 999}
  SupportedChains = {1, 56, 137}
  KeeperAddressChains = {1}
  SafeChains = {56}
  Tokens = {"ETH", "USDT"}
  Listed <- MCListed
  ErrorCodes = {429}
  MaxRequests = 2

  OrderAmounts = {1, 2, 3}
  BookDepths = {0, 1, 2, 4}
  UsdValues = {0, 50, 200}
  Ratios = {0, 6, 10, 12}
  InternalMaxUsd = 100
  MaxBookMoves = 1

  RiskUsers = {u1, u2}
  UsdEstimates = {0, 4, 6, 11}
  MaxSwapUsd = 10
  MaxDailyUsd = 10
  MaxDay = 1
  MaxChecks = 3

  Runs = {r1, r2}
  HoldAmounts = {1, 2}
  Funds = 3
  MaxCallsPerRun = 3

  RawTxs = {tx1, tx2}
  NoHash = NoHash
  MaxSubmissions = 2
INVARIANTS
  ServicesTypeOK
  ApprovalsHaveASource
  GatesNeedZkMe
  OrderlyTradersReuseNoNonce
  PrincipalNeverStuck
  RewardsWithinEmission
  RoutesFit
  DailyLimitUnlessOverlapping
  HoldsAddUp
  ResultsWereGiven
PROPERTIES
  RowsRegressOnlyByOverlap
  OneKeyPerProcess
  EveryRequestAnswered
CHECK_DEADLOCK FALSE
