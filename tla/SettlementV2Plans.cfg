SPECIFICATION Spec
CONSTANTS
    alice = alice
    bob = bob
    ZeroAddress = ZeroAddress
    A = A
    B = B
    o1 = o1
    o2 = o2
    o3 = o3
    Accounts = {alice, bob}
    Tokens = {A, B}
    Orders = {o1, o2, o3}
    Nonces = {1}
    Maker <- OrderMaker
    SellToken <- OrderSellToken
    BuyToken <- OrderBuyToken
    SellAmount <- OrderSellAmount
    BuyAmount <- OrderBuyAmount
    Nonce <- OrderNonce
    Expiry <- OrderExpiry
    Owner = bob
    Deployments = {"2"}
    Chains = {1, 56}
    Home = 1
    PlanChains = {1}
    FeeChoices = {0, 100, 200}
    InitialBalance <- Balances
    InitialApprovals <- Approvals
    MaxTime = 2
    MaxSignatures = 2
    MaxChanges = 1
INVARIANT PlansRecover
CHECK_DEADLOCK FALSE
