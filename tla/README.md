# OpenCEX v2: TLA+ models of its swaps, settlement and services

This directory holds TLA+ modules translated from the source of OpenCEX v2, TLC
configurations that check them on small instances, and TLAPS proofs. Paths such
as `opencex_swap_api/keeper.py` are relative to the repository's `src/`.
`PROJECT.json` names, for every definition, the lines it models.

## 1. The system

| component | state | operations | what must be right |
|---|---|---|---|
| Custodial swap task, `opencex_django/tasks.py`, `models.py` | `SwapExecution` rows (status, tx_hash), Celery messages | `enqueue_swap`, `execute_swap_task`, retry, redelivery | a final status tells what the chain did; an execution trades once; every execution ends |
| Swap keeper, `opencex_swap_api/keeper.py` | nothing of its own; the keeper account's nonce is on the chain | `execute`: lock, allowance, sign, send, wait, credit or unlock | holds are released when nothing was traded; credits are backed by mined swaps |
| Balance hooks, `opencex_django/balance_hooks.py` | the exchange's `BalanceManager` (external) | `lock_balance`, `unlock_balance`, `credit_balance` | no units appear or vanish although each hook reads, computes and writes |
| RPC router, `opencex_rpc/` | per provider a circuit breaker; per chain a bound client | `get_web3`, `failover`, instrumented requests | a breaker opens for real failures, and recovers |
| Swap REST API, `opencex_swap_api/views.py`, `serializers.py`; async execute endpoint, `opencex_django/views_execute.py` | the `SwapExecution` rows the asynchronous view creates | preview, quote, prepare, execute, asynchronous execute, status | every request is answered, whatever 0x does |
| Settlement contracts, `contracts/OpenCEXSettlement*.sol` | `filled`, `cancelled`, fee configuration | `fillOrder`, `cancelOrder`, `setFeeConfig` | an order fills once, never after its cancellation |
| Staking contract, `contracts/OpenCEXStaking.sol` | positions, reward accumulator | `stake`, `unstake`, `claim`, `setRewardRate` | rewards paid never exceed those emitted, roundings aside; no rounding blocks a principal |
| Settlement service, `opencex_settlement/` | none | `build_plan`, signature and expiry checks | a plan that is built can be filled |
| Hybrid wallet, `opencex_wallet/` | per web process: sessions, orders, a nonce per trader and chain | `create_session`, `build_order_typed_data`, `submit_signed_order` | a trader who waits for each order never gets a nonce twice |
| ZK-KYC, `opencex_kyc/`, `opencex_django/permissions.py`, `kyc_gate.py` | per web process one record per user; the `UserKYC` row | start, refresh, webhook, task, gates | what anybody may post or name stays out of the row; the row follows zkMe |
| Hybrid liquidity, `opencex_liquidity/` | none (HTTP client with a timeout) | `route_order`, `route_instant_swap`, `get_quote` | the parts of a split add up and fit the book |
| Risk, `opencex_risk/` | per process the day's total per user | `check_swap_risk`, circuit breaker | the daily limit holds |
| Secrets, `opencex_secrets/` | a process-wide cache and the environment | `load_secrets`, `get_secret`, `load_keeper_config_secure` | a process signs with one key |
| MEV protection, `opencex_mev/` | none | `submit_private_raw_tx` | a result returned is one the endpoint gave; nothing is reported before both methods were tried |
| Fees, `opencex_fees/` | none | `apply_fee_to_amount`, reconciliation | agrees with the V2 contract |
| Account abstraction, metrics, Django glue, frontend, scripts | none that matters | encodings, HTTP calls, declarations | |

How they interact. A web process quotes a swap, writes a `SwapExecution` row and
publishes a Celery message. A worker takes the message, checks and overwrites the
row's status, and calls `SwapKeeper.execute`, which calls the balance hooks
(another database table), the RPC router (process-wide shared state) and the
chain (other machines). The keeper account is shared by all workers. KYC, risk
and the router of liquidity are written to be asked before a swap, but no view
asks them (section 6); the wallet, the settlement service and the contracts
share no state with the custodial path. The wallet's orders and the KYC store
live in the memory of one web process; only the `UserKYC` row is shared, and only
a Celery task writes it. The settlement service checks an order with its own clock and its
own idea of the contract's domain; the contract decides again, later, with its
own, and the transaction may be sent by anyone in between or never.

What is hard: `acks_late` redelivery and a status check without a row lock; a
receipt that does not arrive in time; a node that accepts a transaction and
whose answer is lost; steps that fail between the lock and the unlock; the
`read, add, write` of each hook; a nonce read by two workers; a process-wide
registry that several threads update attribute by attribute; memory that each
process keeps for itself and a restart forgets; totals, nonces and environment
variables that are read, used and written back without a lock; webhooks that
arrive late, twice or never; integer division at every step of a reward.
`PROJECT.json`
lists each hazard at its line.

## 2. Modules

| module | models | how it corresponds to the code |
|---|---|---|
| `SwapPlans` | the plans and users of the executions | constants with their assumptions |
| `KeeperChain` (external) | the chain as the keeper's account sees it | transactions are records (execution, approve or swap, nonce, fee); nodes accept, blocks confirm with success or revert, mempools evict; a swap that needs an allowance succeeds only with one |
| `BalanceLedger` | `BalanceManager` as the hooks use it | free balance, `amount_in_orders` and credits; `Raised` and `Lowered` are the values the hooks compute from an earlier read |
| `SwapKeeper` | `SwapKeeper.execute` and the hooks | one action per step between two calls that leave the process, per exception path and per early return; `pc` is the place in the code |
| `SwapTask` | `enqueue_swap`, the broker, `execute_swap_task`, crashes | composes the three modules above; the properties are stated here |
| `CustodialSwap` | what the swap service promises of one execution | phases, a set of settled and of credited executions |
| `RpcRouter` | breakers, registry and router for one chain | one action per attribute read or written, as the interpreter may switch threads in between |
| `Settlement` | both settlement contracts and the service that plans a fill | one action per external function and per check of the service; a revert is no action; the contract's atomic call is one step |
| `OrderBook` | what the contracts promise of one order | unsigned, open, filled or closed, and what was sold |
| `SwapApi` | the REST views over 0x and the asynchronous execution they queue | `stage` is the place in the view; `Refusal` holds each view's checks in the order of its early returns; `TakerOf` is the address of the environment that is quoted, which need not be the keeper's signing account; 0x answers, errs or is silent until the client's timeout |
| `KycService` | `KYCService`, its three providers, the webhooks, the refresh task and the gates | `store` is each process's `InMemoryStore`, `row` the table; `pending` holds what a thread is about to write: others come between a provider's reply, or the test of `start_verification`, and the write; `Webhook` takes every message about every user, `Refresh` every session |
| `WalletOrders` | `HybridWalletService` in several web processes | `nextNonce` is `_nonces`, `orders` the stored orders; whoever has a signature of a wallet may submit anything in its trader's name, as types and domain come with the request |
| `Staking` | `OpenCEXStaking` | one action per external function; `UpdatePool`, `Owed` and `PayReward` are `_updatePool`, `pendingReward` and the transfer whose result is not read |
| `SecretsStore` | `load_secrets`, `get_secret`, the patched `load_keeper_config` | one action per layer that is loaded, and per read or write of the cache or the variable |
| `HybridRoute` | `HybridLiquidityRouter` | `Decide` is the whole decision of `route_order`; the book moves while 0x is asked |
| `RiskLimits` | `check_swap_risk` | `StartCheck` reads the day's total, `EndCheck` compares and writes it |
| `HoldCalls` | the balance hooks called by several runs of one user | each call reads `amount_in_orders` and writes what it computed, as the hooks do; `SwapKeeper` has one run per user, and never spends a hold |
| `PrivateRelay` | `submit_private_raw_tx` | the two methods that are tried in turn, each with whatever result the endpoint sends, or none |
| `MCSwapTask`, `MCRpcRouter`, `MCSettlement`, `MCServices` | | values of the constants for TLC; `MCServices` composes the nine modules above |
| `SwapTaskProofs`, `SwapSerialProofs` | | theorems about `SwapTask`: those of every interleaving, and those that need runs not to overlap |
| `RpcProofs`, `SettlementProofs` | | theorems about `RpcRouter` and `Settlement` |
| `IdentityProofs` | | theorems about `KycService`, `WalletOrders` and `SecretsStore` |
| `CallProofs` | | theorems about `HybridRoute`, `RiskLimits`, `PrivateRelay` and `SwapApi` |
| `SumProofs` | | lemmas about sums over finite sets, and theorems about `HoldCalls` and `Staking`, which rest on them |
| `ServicesProofs` | | what is proved of each service holds of their composition |

Choices worth knowing:

* The row's status is read once, in `Receive`, and overwritten by `Claim`, as the
  task does; no lock is modelled because the code takes none.
* A crash loses the worker's memory. Its message is delivered again (the
  connection was lost) or acknowledged (the child died alone and the parent
  acknowledged for it). A visibility timeout delivers a message again while it is
  still being processed.
* `AnswerLost` sends the transaction and takes the exception path: the result
  carries no hash.
* `credit_balance` is called without the sell side, so the hold of a successful
  swap stays in `amount_in_orders`, in the model as in the code.
* `LockRaises` is the `except` clause of `lock_balance`, whose log statement
  names an unbound variable and raises.
* Partial failures are named in the constant `Faults`, so that a run can say
  which it allows. The liveness property and `SuccessIsCredited` need that.
* In the router, the latency score only orders the candidates; the model allows
  every order. Time is the age of `opened_at`.

* `FillOrder` takes any caller and any signature given so far, planned by the
  service or not, as the contract is public; its transfers happen in the code's
  order, so that the buy side may pay for the sell side. A token refuses the
  zero address and a transfer that balance or allowance does not cover.
* An allowance is unlimited or none. Token amounts whose product with the fee
  would not fit 256 bits exceed any balance, so that the fill reverts anyway.
* An order stands for all its fields. A wrong signer or version is what makes
  `ecrecover` return another address than the maker's.
* An order that sells 0 stays fillable, because `filled` holds the sell amount:
  `SoldOnce` and `OrderBook` speak of what was sold, and the instance has one.
* A signature names the domain it is for, version and chain. The contract is on
  the chain `Home`; the service checks a plan against version 1 and the chain of
  the request, and finds a contract for every chain of `PlanChains`, which
  `SETTLEMENT_CONTRACT` makes all of them.

* The KYC task builds a service with an empty store each time, so it knows no
  session: what zkPass and Privado approve never reaches the row. That is all
  that separates the gates from the webhook, which is open to anyone and checks
  no signature, and from sessions, which are tied to no user: in the record of a
  web process an approval shows little, and `ApprovalsHaveASource` says how little.
* `disorderly` (wallet), `raced` (secrets), `overlapping` (risk), `overlapped`
  (KYC) and `callsMet` (holds) are history variables: they say that calls met in
  a way the code does not guard against. The properties hold without it, and
  each fails with it: the code has no lock there. They bound the damage to those
  meetings and do not cover the races themselves (section 5).
* A staking call that reverts is no action. The reward token may refuse by
  returning false (the reward is lost, as the result is not read) or by
  reverting (`RewardsRevert`); the instance has the first. Numbers are naturals:
  the overflow of 256 bits, which a rate without bound could bring about, would
  revert a withdrawal too and is left out.
* That `BalanceManager.spend_hold` spends exactly what was held is assumed of it:
  the hook hands over only the new `amount_in_orders`.
* `SwapApi` serves one request at a time: requests share nothing but the queue.
  A client that sends a request again gets a second row, as `client_order_id` is
  not unique.

Abstracted: amounts are small numbers (the conversion from wei divides and loses
nothing at 50 digits), a token or an address is implied by its execution, logs
and metrics are left out. One chain, one keeper account and one currency per
user are modelled: chains and currencies share no state.

## 3. Runs

| run | bounds | what it shows |
|---|---|---|
| `swap_one_worker` | 1 worker, 2 executions of one user, balance for one at a time, 1 crash or broker failure, 1 redelivery, 1 retry | types; a final status matches the chain; units are conserved; a credit is backed by a settled swap and happens once; a stranded row is never resumed; the system implements `CustodialSwap` |
| `swap_exactly_once` | 2 workers, 2 executions of 2 users, one needing an allowance, every member of `Faults`, no crash | conservation and cover of the holds under interleaved hooks; one run and one swap per execution; a REVERTED row has no swap that settled or can settle |
| `swap_redelivery` | 2 workers, 1 execution delivered twice, balance for two holds, 1 retry, fair | a final status matches the chain and a SUCCESS is credited although two runs overwrite one row; a published execution comes to rest |
| `rpc_one_thread` | 1 thread, 2 providers, 3 errors to open, at most 3 failures per provider, fair | types; the attributes of a breaker agree after every update; the router recovers, also from all circuits OPEN |
| `rpc_two_threads` | 2 threads on 1 provider, 3 errors to open | a circuit opens only for real failures, whatever the interleaving |
| `settlement` | both versions, 2 accounts, 3 orders of which 2 share a nonce and 1 sells nothing, 2 signatures by anyone under either version for either of 2 chains, 1 change of fee, approval or balance, 3 instants | types; an order sells once; fees stay within 1%; both sides of a fill get their price; the contracts implement `OrderBook` |
| `services` | per service, below; `ServicesSpec` starts in one of nine services and only that one takes steps | types; KYC approvals and gates; nonces of the wallet's orders; rewards and principals; one key per process; answered requests; routes; the daily limit; holds under concurrent hooks; private submissions |

Runs that end in a counterexample, each against a sentence of the repository:

| run | the repository says | the code does |
|---|---|---|
| `swap_unlock_on_failure` | README.md:131 "unlock on failure" | the web3 client is built after the lock and before the `try` |
| `swap_nonce_safe` | ops/LOAD_TEST.md:4 "concurrency 2–4 (nonce-safe)" | the nonce is read from the node and nothing reserves it |
| `swap_insufficient_lock` | tests/test_keeper_e2e.py:94 asserts that the lock is `False` | the `except` clause logs an unbound name and raises |
| `rpc_stuck_open` | opencex_rpc/health.py:17 "Thread-safe enough" | a success and an error recorded at once leave a circuit OPEN without `opened_at`, for ever |
| `settlement_v2_plans` | README.md:59 "EIP-712 · Settlement V2", and the deploy script deploys V2 | the service's domain has version "1" |

Why the bounds are enough. Two workers and two executions give every pair of
concurrent steps; different amounts make a hold returned for the wrong execution
visible; one crash and one redelivery are each enough for two runs of one
execution to overlap or follow each other, and one retry distinguishes a first
attempt from a later one. `MaxErrors = 3` is odd, so that doubly recorded errors
show. 150 units at 100 basis points make
a fee that is rounded; the two expiries differ by one instant. One change of the
environment is enough to make any plan stale, as a fill depends on each setting
separately. Deadlock is not checked: a swap system stops when every row is
final, a settlement system and the services when their bounds are reached.

The nine services share no state, so that every behaviour of all of them is a
behaviour of each with stutters: `active` picks one, and the state spaces add
instead of multiplying. Their bounds:

| service | bounds | cases they reach |
|---|---|---|
| `KycService` | 1 user, 1 web process, 1 session, 2 decisions of zkMe or sessions verified, 3 calls, 1 restart, a known and an unheard-of word, every message, values at, below and without the threshold | a task's answer applied after a later one; a message repeated after a restart; a start that overwrites an approval; a session verified by anybody |
| `WalletOrders` | 2 traders, 2 processes, 2 trades, 2 orders built, 2 submitted, nonce 1 composed elsewhere | two orders built before either is submitted; one submitted twice or to the other process |
| `Staking` | 2 stakers of 3 tokens, precision 2, rate 3, lock 1, a fund of 8, 3 blocks, 5 resets of a debt | both divisions leave a remainder; the fund runs out; unstaking nothing |
| `SecretsStore` | 2 keys, 2 threads, 1 rotation, 1 load, 1 process start | every order of two lookups; a lookup during a load; a rotation between two layers |
| `SwapApi` | 4 chains of which 3 served, one with a keeper's address, one with a safe's and one with neither, 2 tokens, 2 requests | each refusal of each view; a second row; a broker that refuses |
| `HybridRoute` | amounts 1 to 3, depths 0 to 4, ratios 0, 0.6, 1 and 1.2, values around the cap | each branch, a split with a truncated part, a ratio above 1 |
| `RiskLimits` | 2 users, 2 days, 3 checks, values around both limits | two overlapping checks; a check over midnight |
| `HoldCalls` | 2 runs of one user, 3 units, 3 calls per run | a lost update; a hold refused; a spend whose credit fails |
| `PrivateRelay` | 2 transactions, 2 submissions | each pair of outcomes |

Conservation and cover of the holds are checked with one run per user at a time:
`amount_in_orders` is read before and written with the hold, so two runs of one
user can lose an update: `HoldCalls` has them. `CreditedOnce` is checked with one
worker: two runs of one execution that sign the same transaction both credit it.

### Fairness

`SwapTask!FairSpec`: a worker that has begun a task goes on with it
(`WF(TaskStep)`), an idle worker takes a ready message (`WF(Deliver)`), and the
web process publishes after it created the row (`WF(Publish)`). Nothing is
assumed of the chain: each wait has a timeout in the code. `RpcRouter!FairSpec`:
a call that has begun goes on; callers keep asking for a client and using it
(strong fairness, as each client they get is one more chance); time passes.
`SwapApi!ApiFairness`: a web worker goes on with its request (the database and
the broker answer or fail), and the 0x client's timeout of 15 seconds
(`opencex_liquidity/client.py`) ends a call that got no answer; nothing is
assumed of 0x. `EveryRequestAnswered` rests on both.

## 4. Proofs

Every invariant and every action property of a passing run, and both
refinements, is the conclusion of a theorem. TLC checked each of them, and the
inductive invariants, on small instances first; the proofs hold for every value
of the constants that meets the component's assumption (`PlanAssumption`,
`KeeperAssumption`, `BoundAssumption`, `OrderAssumption`, ...; `HoldAssumption`
and `StakingAssumption` also say that runs and stakers are finitely many).

`SwapTaskProofs`, without further hypotheses:

* `TypeCorrect`: `Spec => []TypeOK`.
* `FinalStatusIsTrue`: `Spec => []FinalMatchesChain`. The property is not
  inductive: the row is written several steps after the receipt was read. The
  strengthening `RunKnows` says what each run knows of the chain at each place:
  from the wait on it holds a hash of its own swap, at the credit that swap is
  mined and succeeded, and a result that says success or reverted names a mined
  swap with that outcome. Receipts are final (`mined` only grows), so what a run
  knows stays true whatever the others do.
* `StrandedStays`: `Spec => NoResumeAfterCrash`. It needs that a row that was not
  created has no run (`AbsentUntouched`): then only `Claim` can bring a row that
  no run works on back to life, and `Runnable` excludes BROADCASTING.

`SwapSerialProofs` has the properties that fail when two runs of one execution
overlap, which the code does not prevent: the hypotheses below name when they do
not. `OneWorker` is a concurrency of 1, with any crashes and redeliveries;
`DeliversOnce` is a broker that delivers every message once, with any number of
workers (no worker dies, no message is delivered while it is processed; the task
may still retry); `OneEach` gives every user one execution, so that the hooks of
a user do not overlap. `swap_one_worker` and `swap_exactly_once` meet them. They
cannot be dropped: with two workers and one delivery of a message in progress
TLC finds a counterexample to every invariant below that has a hypothesis
(for `SuccessIsCredited`, with a credit that fails), and one worker alone is not
enough for `OneSwapPerExecution` and `RevertedMeansUnsettled`, as a FAILED row may
have a swap on the network and run again.

| theorem | hypothesis | what makes it inductive |
|---|---|---|
| `OneRunAtATime` | `DeliversOnce` | `OnePlace`: of the ready messages, the runs and the coming retries of an execution there is one at most |
| `OneSwapEach` | `DeliversOnce` | `SentOnce`: an execution with a swap on the network has no message left, and a run only in its last steps, after which nothing is retried |
| `RevertedHasNoSwap` | `DeliversOnce` | `ChainSound`: a mined transaction was sent and lies below the nonce of the chain, one in the pool does not |
| `CreditedOnlySettled` | none | `RunKnows` |
| `NoDoubleCredit` | `OneWorker` or `DeliversOnce` | `RowOfRun`, the status a row has while a run is at each place, and `CreditFinal`: a credited execution is BROADCASTING or SUCCESS, and its run is about to write SUCCESS |
| `SuccessWasCredited` | the ledger does not fail at the credit | `ResultCredited`: a result that says success was credited |
| `NothingLost`, `HoldsCover` | `OneWorker`, or `DeliversOnce` and `OneEach` | `HookKnows`: what a hook read is still there; `Balanced`: free and in orders make the deposit, and cover the hold of the run in progress |
| `SwapImplemented` | `OneWorker` or `DeliversOnce` | all of the above that speak of rows and the chain, and `SwapClaimed`: who sent a swap had claimed the row; then one lemma per group of actions maps it to a step of `CustodialSwap` or a stutter (`AbstractKeeper`, `AbstractChain`, `AbstractRows`) |

`RpcProofs`, for all providers, threads and thresholds:

* `RouterTyped`: `Spec => []TypeOK`.
* `OpenedByFailures`: `Spec => []OpensOnlyAfterFailures`. `Charged` bounds the
  counter of a provider, and what a thread has read of it, each with the errors
  still to be counted, by twice the failures; a lost update forgets errors and
  invents none.
* `OneThreadAgrees`: with one thread, `Spec => []BreakerConsistent`; `Breaker` says
  which attributes are already written at each place of an update. The run
  `rpc_stuck_open` shows that two threads break it.

`SettlementProofs` proves for all orders, accounts, tokens, fees and bounds, from
`OrderAssumption` and `DeploymentAssumption`:

* `TypeCorrect`, `SellsOnce`, `FeesCapped`: from one inductive invariant, `IInv`.
  `SoldOnce` is not inductive, since a fill adds to what was sold; `MarkIsTrue`
  ties the contract's mark to it: an order is untouched, or its mark, what it
  sold and a fee within the bound agree. Types need `FeeSettingBounded`, without
  which the taker's share could be negative. `FeeBound` is the arithmetic.
* `TradesAreFair`: `Spec => FairTrade`, also when maker, taker and fee recipient
  coincide or both sides are one token. `WhatTransfersMove` follows the three
  transfers, each on the balances the one before left (`FillTransfers`).
* `BookImplemented`: `Spec => ImplementsOrderBook`. `BookCloses` covers every step
  that marks and signs nothing: deadlines and cancellations only add up, so such
  a step closes orders or none. `BookSigns` and `BookFills` map the other two; a
  fill of an order that sells nothing is a stutter.

`IdentityProofs`:

* KYC: `KycTypeCorrect`, `ApprovalsSourced` and `GatesHold` from one
  invariant, `KycInv`. What zkMe decided, a verified session and a posted message
  stay, so it is enough that every approval in a store or about to be written has
  such a source; the row needs more (`RowIsBacked`), since the task has no session
  and only zkMe can answer it with an approval. `RowRegresses` needs that, without
  overlap, one task's answer waits at most and was asked after what the row has
  seen.
* Wallet: `NoNonceReused` from `Orderly`: for a trader in good order one process
  has all its orders, at most one order handed out waits, it carries the next
  nonce, and what is stored lies below it.
* Secrets: `SecretsTyped`, and `OneKey` from `OneKeyInv`: as long as nothing
  raced, a thread about to set the variable finds it unset, and the key the
  keeper was given is the one in the environment.

`CallProofs`: `ApiTyped`; `EveryRouteFits` (`MinOfTwo`, `RatioAtLeastTen` and the
truncated division); `DailyLimitHolds` (a key without overlap has one check, which
read the total that is there); `ResultsAreGiven`.

`SumProofs` is about amounts that are sums over users. A sum is a fold, whose
recursion over data the prover cannot follow through the library's induction
theorems, as those take an operator for a parameter. The sum is therefore shown
to be the size of a set (`SumIsUnits`: one element for each unit of each user),
by induction over the subsets of a finite set stated with sets alone
(`SubsetInduction`, from the well-founded order of the finite sets); `SumChange`
and `SumLinear` say how it moves. From them:

* `HoldsAgree`: `HoldSpec => []HoldsAddUp`. The invariant `HoldInv` adds what a
  call knows of its run's hold (`CallsKnow`) and that, before two calls meet, one
  at most is between read and write and what it read is still so (`Alone`).
* `HoldTyped`: `HoldSpec => []HoldTypeOK`.
* `NeverStuck`: `StakingSpec => []PrincipalNeverStuck`. Every debt is at most the
  rounded share of an accumulator that only grows (`DebtsCovered`), and rounding
  is monotone (`DivideMonotone`).
* `PaidFromEmission`: `StakingSpec => []RewardsWithinEmission`. The invariant
  `PaidCovered` counts in units of 1 / precision: what was paid, with what every
  position may still claim (`SlackAt`), is at most what was emitted and a unit
  for each rounded debt. An update of the pool adds to the slack of all positions
  the gain per share times the total, which is at most what it emits
  (`PoolCovered`, by `SumLinear`); a call takes from one position's slack what it
  pays and leaves the remainder of a division (`CallCovered`).
* `StakingNumbers`: `StakingSpec => []StakingTypeOK`; that the total is not negative
  follows from `TotalIsSum`.

These theorems speak of each service's own specification (`KycSpec`,
`WalletSpec`, ...). `ServicesProofs` shows that the composition behaves by all nine
(`EachServiceAlone`), so that each theorem holds in it, and that all types hold
side by side (`ServicesTyped`).

Left to TLC: liveness under fairness (`PublishedSettles`, `Recovers`,
`EveryRequestAnswered`), which the prover does not reach.

## 5. Not modelled

* Fees (`opencex_fees/`): one multiplication and division without state, which
  nothing calls; reconciliation applies today's rate to old rows.
* Account abstraction: encodings and one HTTP call; the sponsorship policy is a
  table. Metrics: counters that nothing reads back.
* The provider table (`opencex_rpc/config.py`): data. The fallback to hooks that
  do nothing (`tasks.py:50`), taken when `settings_patch` was not applied.
* Migrations, admin, URL tables, management commands, the frontend and the smoke
  scripts: declarations, or clients of what is modelled.
* Read-only operations: lists of tokens and sources, status polls, `get_order`,
  `get_session`, and the risk circuit breaker, which is read from the
  environment at each check.
* Data: decimals, prices, gas, claims, levels and dates of a KYC record.
* Overflow of 256 bits in the staking contract, and the write of a hold by
  `spend_hold` other than as assumed (section 2).

Hazards without a property (`PROJECT.json` has each at its line, with a note). Of
some, nothing in the repository says what should hold: a credit that fails before
SUCCESS is written; the hold of a successful swap, which is never spent; a row
committed whose message is not published; the client and its name, bound in two
assignments; a breaker read between two assignments of a thread that half-opens
it; an order that sells nothing and stays fillable; staking with one token for
stakes and rewards; decimals that ignore the chain; a verified user whose row waits
for a task; a quote for another address than the signing account's. Others are
races that the code leaves open, where the property covers every behaviour in
which the race does not happen: two hooks of one user that meet (`callsMet`), two
orders built at once (`disorderly`), two refresh tasks of one user (`overlapped`),
two checks of one day (`overlapping`), threads that look for the key at once
(`raced`). The risk circuit breaker and the ratio a caller may force on the hybrid
router carry no property of their own.

## 6. Where the code and its texts part, without a run

* README.md:135 promises "Gates for withdraw and large custodial swaps"; neither
  execute view calls the KYC gates or the risk limits, and `apply_fee_to_amount`,
  `submit_private_raw_tx` and `route_order` have no caller either.
* `opencex_django/urls_patch.py` includes `opencex_swap_api.urls` first, which answers
  the path of the asynchronous execute view with the synchronous one.
* The wallet's `Order` type has other fields than the contracts', so that an
  order the wallet had signed is not one the contracts accept.
* `opencex_secrets/loader.py:1` gives the environment precedence; `get_secret`
  looks into its cache first.
* `slippage_bps` is validated and echoed, while the quote is asked with the
  router's default of 100.
* "USDC.e" is listed and never found, as symbols are compared in upper case.
* `private_rpc_url` prefers the private endpoint, `submit_private_raw_tx` the
  Flashbots one.

* The KYC webhook (`opencex_kyc/django_api.py:95`) is open to anyone and reads no
  signature, zkPass's `verify_proof` accepts any payload that names a user, and
  Privado's polls a session the client names: a user can be approved in the record
  of a web process whom no provider confirmed. README.md:135's gates read the row,
  which such an approval does not reach.
* `start_verification` tests the record and saves it later: an approval that another
  thread writes in between is overwritten with PENDING.
* `submit_signed_order` recovers the signer over types and a domain that come with
  the request, so that the signature shows that the trader signed something, not
  these terms.
* `SETTLEMENT_CONTRACT` serves every chain without a setting of its own
  (`opencex_settlement/settlement.py:25`): a plan may name a chain on which that
  contract is not deployed, and nothing checks it.
* A custodial quote names `*_KEEPER_ADDRESS` or `*_SAFE_ADDR` as its taker, the swap is
  signed with the keeper's private key, and nothing compares the two.

## 7. Plan

1. Theorems that bound what goes wrong when runs do overlap: how many units a
   lost update of two hooks can hide, how often an execution can be credited
   with a given number of redeliveries.
2. An abstract staking pool with exact rational rewards, which `Staking`
   implements up to the rounding.
3. `WalletOrders` with `Settlement`: the nonces of the two sides, once their
   `Order` types agree.
