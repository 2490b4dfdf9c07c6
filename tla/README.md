# TLA+ models of the GMX v1 contracts and of the programs that operate them

This directory holds TLA+ specifications of the Solidity contracts under
`src/contracts` and of the JavaScript programs under `src/scripts` with which
they are operated, TLC configurations that check them on small instances, and
proofs, checked by the TLA+ proof system, of what holds for every instance.

A contract executes one transaction at a time and a transaction that reverts
leaves no trace. In every module a step is therefore one transaction, and every
`require`, `_validate`, failed SafeMath subtraction or failed token transfer of
the call is a guard of its action. What is hard here is not a data race but the
order in which many parties' transactions arrive, and sums that several
functions have to keep in step with each other over a long sequence of calls.

A script is the opposite: nothing of it is atomic. It reads balances, prices and
files, then sends transactions and requests one by one, each of which may fail,
be mined although its sender is told that it failed, or take effect long
afterwards; others use the contracts between any two of them; and when a run
dies a person starts it again, from the beginning or from where it stopped. In
the modules of scripts a step is one transaction, request or block of reads.

## The system

| Component | State | Operations | Talks to |
| --- | --- | --- | --- |
| `core/Vault.sol`, `VaultUtils.sol` | per token: pool, reserved, guaranteed USD, fee reserve, USDG debt, funding rate, recorded balance; positions; global short sizes and prices | `directPoolDeposit`, `buyUSDG`, `sellUSDG`, `swap`, `increasePosition`, `decreasePosition`, `liquidatePosition`, `withdrawFees`, setters | measures tokens sent to it by anyone; reads prices from `VaultPriceFeed` |
| `core/PositionRouter.sol`, `BasePositionManager.sol` | two queues of requests with escrowed collateral and execution fee, start indices, keepers, delays, fee reserves | `create*Position`, `execute*Position(s)`, `cancel*Position`, setters, `withdrawFees` | calls the Vault through `Router`; calls itself inside `try`; updates `ShortsTracker` first |
| `core/GlpManager.sol` | `lastAddedAt`, weight of the tracked price, AUM adjustment; GLP and USDG supply | `addLiquidity`, `removeLiquidity`, `getAum` | reads the Vault and `ShortsTracker`, calls `buyUSDG`/`sellUSDG` |
| `core/ShortsTracker.sol` | average price of all shorts per token | `updateGlobalShortData` | reads the Vault before the Vault's own update |
| `core/OrderBook.sol` | per account swap, increase and decrease orders with escrow | create, update, cancel, execute | Vault through `Router` |
| `core/PositionManager.sol` | order keepers, liquidators, partners | increase/decrease for partners, `liquidatePosition`, execute orders | `Timelock` to switch leverage on and off, `OrderBook`, Vault |
| `core/VaultPriceFeed.sol` | feeds, spread and AMM settings | `getPrice` | Chainlink feeds, `FastPriceFeed` |
| `oracle/FastPriceFeed.sol` | last prices and times, cumulative deltas, disable votes | `setPrices`, `setPricesWithBits*`, votes | `PositionRouter` batches |
| `peripherals/*Timelock.sol`, `access/TokenManager.sol` | pending actions with their times; signatures | `signal*`, set/execute, `cancelAction`, `sign*` | governs every other contract |
| `staking/RewardTracker.sol`, `RewardDistributor.sol`, `BonusDistributor.sol` | stakes, cumulative reward per token, claimable rewards, averages | `stake`, `unstake`, `claim`, `updateRewards` | distributor pushes tokens when asked |
| `staking/Vester.sol`, `VesterCap.sol` | deposits, vested amounts, pair amounts | `deposit`, `claim`, `withdraw`, `transferStakeValues` | reads trackers for the cap |
| `staking/RewardRouter*.sol` and the GLP wrappers | pending account transfers | compositions of the above | trackers, vesters, `GlpManager` |
| tokens, referrals, migrations, readers, mocks | ERC20 balances, codes, one-time migrations | | |

| Program | State it keeps | Operations | Talks to |
| --- | --- | --- | --- |
| `fees/createFeePlan.js`, `distributeFees.js` with `shared/stats.js`, `fundAccountsUtils.js` | `fee-plan.json`, `distribution-data-*.json`; the step it is at, in the operator's head | plan; withdraw, fund keepers, GMX rewards, payments, GLP rewards, referral rewards | subgraphs, fee handlers, keepers' accounts, distributors, `BatchSender`, vesters, on two networks |
| `core/createFeeReference.js`, `processFees.js` | `fee-reference.json` | the same, formerly, with swaps of all fees on both networks | also the Vault, to swap |
| `referrals/distributionData.js`, `getReferralRewards.js`, `referralRewards.js` | `distribution-data-*.json` | totals and limits of rewards; sending them | subgraph, `BatchSender` |
| `migrateToShortsTracker.js` | none | migrate, roll back, toggle orders and liquidations | a server with jobs, the Vault, `ShortsTracker` |
| `staking/sendSignalTxnsForMpMigration.js`, `finalizeTxnsForMpMigration.js`, `peripherals/updateAccess.js`, `updateGovs.js`, `shared/signer.js` | the transactions to be signed | signal, finalise; sign | a wallet, the Timelocks |
| `core/setTokenConfig.js`, `updateUsdgSupply.js`, `setSpread.js`, `setMaxGlobalSizes.js`, `setCaps.js`, `setCapLimits.js`, `core/tokens.js` | none | write limits, debts, spreads, caps | Vault and USDG through the Timelock, the keepers' server |
| `staking/batch*.js`, `migrateStaking.js`, `updateMps.js`, `nft/distributeNftRewards.js`, `referrals/batchSendBonus*.js`, `bonusReferralRewards.js`, `transferBonusRewards.js`, `tokens/mintSnapshotToken.js`, `core/setReferralTier.js` | a list in a file; `START_INDEX`, in three of them | one batch, or one entry, per transaction | `BatchSender`, reward routers, vesters, `ReferralStorage` |
| deployments, reports, build tooling | none | | |

`PROJECT.json` lists them all with their status, and the hazards of the code at
the lines where they bite. They are of these kinds:

* books kept in several ledgers (pool, reserved, guaranteed, fees, debts) by
  differences, over partial closes, roundings and liquidations;
* tokens that arrive unannounced and are credited to the next call;
* fees that are computed in the middle of a call, between two updates;
* queues that keepers, owners and the admin work on at the same time, with
  three delays, a batch that catches reverts, and refunds that may fail;
* things that must eventually happen: a request gets settled, a queue moves on,
  an owner gets the escrow back;
* programs that read on two networks and then spend on them, are interrupted, and
  are run again over what they have already sent;
* requests and transactions a program has given up on, which still take effect;
* amounts computed from a state of the Vault that others have moved on since.

## Modules

`Vault` models the Vault. State variables have the names of the storage slots;
`balance` is `balanceOf(vault)` and `tokenBalances` what the Vault last recorded.

* `SendTokens`, `ChangePrice`, `Tick` are the environment: plain ERC20 transfers
  to the Vault, the price feed, time. The price feed reports, per token and per
  value of `includeAmmPrice`, a minimum and a maximum; the AMM price only widens
  the spread, and stable tokens have none (assumption `TokenAssumption`). This is
  `getPriceV1`; with `useV2Pricing` and without `favorPrimaryPrice`, an AMM price
  within `spreadThresholdBasisPoints` replaces both sides (`getAmmPriceV2`), which
  is outside the assumption.
* `DirectPoolDeposit`, `BuyUSDG`, `SellUSDG`, `Swap`, `IncreasePosition`,
  `DecreasePosition`, `LiquidateInsolvent`, `LiquidateOverleveraged`,
  `UpdateCumulativeFundingRate`, `WithdrawFees`, `SetUsdgAmount`, `SetFees`,
  the two switches and `AddRouter`/`RemoveRouter` are the functions of the same
  name; `liquidatePosition` is split by the state that `validateLiquidation`
  returns.
* `BuyUSDG` and `SellUSDG` take what the caller transfers (or mints) in the same
  transaction, since a contract above the Vault pays and calls in one step; for a
  caller that paid earlier, both are 0.
* Amounts are integers with the code's own roundings, all divisions included;
  only the units are small (`TokenUnit`, `BPS`, `FundingPrecision`).

`PositionRouter` models the two request queues. A request holds its escrow and
its age in blocks and seconds; `requestKeys` are the two arrays, in which a
handled slot becomes `NoKey`. `ExecutePositions` is one batch: it stops at the
first request that is not ready, executes any of the requests that can be
executed, cancels the others if they can be refunded, and clears the slots it
passed. What the Vault answers and what a swap returns is free; a token other
than Weth may freeze an account so that transfers from and to it fail.
`RequestLifecycle` is its abstract specification: indices are used in order, and
a request is pending once and settled once. `LifecycleSpec` states that the
router implements it, with the refinement mapping `RequestPhase`.

`RewardTracker` models a tracker together with the distributor it draws on.
`stakedAmounts`, `depositBalances`, `claimableReward`, `cumulativeRewards` and
`averageStakedAmounts` are the storage slots. Every call that moves a stake runs
`_updateRewards` first, for each account it touches and in the code's order, and
that pulls the rewards that have become due out of the distributor; the pull, the
update and the move are one action. The distributor is `RewardDistributor` (a
fixed amount per interval) or `BonusDistributor` (a share of the supply per
year), chosen by `Bonus`; its `distribute` pays no more than it holds.

`Vester` extends `RewardTracker`: the vester for GLP, whose pair token and reward
tracker are the same `stakedGlpTracker`, and of `RewardRouterV2` the calls that
act on both. The tracker is private, so that only the router and the vester call
it. `DepositToVest`, `ClaimVested`, `Withdraw` and `TransferStakeValues` are the
vester's `_deposit`, `_claim`, `withdraw` and `transferStakeValues`, each with
the `_updateVesting` it begins with; a reserve moves the tracker's shares from
`balances` of the account to those of the vester while `stakedAmounts` stay.
`SignalTransfer` and `AcceptTransfer` are the two transactions that move an
account: the second compounds the sender's rewards, moves stake, reward records
and esGMX, and then hands over the right to vest. esGMX in hand and esGMX that is
staked are one amount, `esGmx`, since both go to the receiver and neither
matters to the vester. `entrusted` is a history variable: what an account
deposited, less what was returned to it and paid for it.

`ShortsTracker` extends `Vault`. A trade of a position manager is one action:
the tracker computes the next average from the Vault's state before the trade,
then the Vault trades. An increase needs leverage, which is enabled only around a
manager's call, so all increases are tracked; `DirectDecrease` and
`DirectLiquidation` are the calls to the Vault that the tracker never hears of.
A call of the tracker that would revert (`TrackedAverageComputable`) makes the
whole trade impossible.

`GlpManager` extends `ShortsTracker`: `AddLiquidity` and `RemoveLiquidity` are
the deposit, the Vault's `BuyUSDG` or `SellUSDG` and the minting or burning of
shares in one transaction; `Aum` is `getAum` with its two sides of the spread,
and `AumDefined` says that none of its divisions and subtractions reverts. The
Vault is in manager mode, so its `buyUSDG` and `sellUSDG` have no other caller;
`VaultStep` is what else goes on there. The runs `glp_shares` and `glp_shorts`
start from an empty pool, which the providers fill.

`FeePlan` is the arithmetic of the weekly distribution: the window in which a
plan may be made and used, the fees of a period, how native tokens and GMX are
split, and what saving a plan refuses; then the same of `createFeeReference`.
Times are multiples of six hours, the delay the scripts allow.
`DistributionData` is the file of referral rewards of one network and the two
ways in which it is added up. Both are operators only.

`FeeScripts` is the process that uses them. `Begin` is what a step reads and
checks on both networks (`Accepts`) and the list of what it will send
(`Transactions`); `Send...` are its transactions, one at a time; `Fail` is one
that reverts; `Crash` may come before any of them. The operator makes plans,
asks for the next step, resumes at an interrupted step, skips one that refuses to
run again (`Skip`), and bridges GMX as the plan says (`Bridge`, `Arrive`; nothing
in `src` does this). Keepers burn gas meanwhile. The ledger has a few places per
network: a `feeHandler` with what is claimable, the `signer` (fee keeper),
`wallet` (the account that sends rewards), distributors, treasury. A recipient
stands for a batch of 150 of them, paid in one transaction.
`updateLastDistributionTime` and `setTokensPerInterval` are one `rate`
transaction, since no reward accrues between them that either depends on. Fees of
the first version come as a token `alt` that has to be swapped, those of the
second as `wnt`. Assumed of the operator: transactions that were sent are mined
or dropped before a step is repeated, and once fees may have been withdrawn a new
plan includes the balance of the fee keeper. Runs without `WRITE` send nothing
and are left out; the flags `shouldSendTxn`, `shouldStake` and `shouldSendTokens`,
constants of the scripts, are taken as switched on.

`ShortsMigration` is the process of `migrateToShortsTracker.js` with the server
whose jobs it stops, the network its requests go over and the chain. `posts` are
requests on their way: one that was given up (its answer lost, the process
killed, another request of the same `Promise.all` refused) is no longer `awaited`
and may still arrive. `txs` are transactions to the tracker, mined in nonce order
some time after they were sent. `strays` remembers that something given up took
effect; promises about the outcome are made without it. A short size is counted
in trades.

`AccessScripts` is the four scripts that ask an operator to sign transactions for
a Timelock, the signing server, and of the Timelocks what these transactions do:
`signalSetHandler`/`setHandler`, `signalSetMinter`/`setMinter` and
`signalSetGov`/`setGov`. `BufferPasses` abstracts the buffer; the former Timelock
is taken to work like `Timelock.sol` (its source is not in the repository).

`TokenConfig` is the scripts that write a configuration token by token, with the
Vault they read before and users who buy and redeem between the writes. Prices are
1, so that amounts of tokens and USDG coincide; `maxUsdgAmount` is 1 for every
token, in the unit that the script sends.

`BatchTasks` is the scripts that work through a list: `Programs` has one for each
script, with its list, its batches, how often a transaction is tried, and the
approval it gives `BatchSender`. Its process is the same for all of them, as is
their loop. Where a re-run begins differs (`GoOn`, `StartOver`): `migrateStaking`
and `updateMps` insist on a `START_INDEX`, taken to be that of the batch that
stopped the run before, `batchCompoundGmx` may be given one, and all others start
from their first entry and repeat what was mined and confirmed. `setReferralTier`
then throws at the first account that has its tier (`Refuse`), and does so every
time: entries behind it are reached only by editing the script. `batchSendEsGmx`
approves a fixed amount (`EsGmxApproval`), which its list may exceed; the run has
such a list. That the sender has the tokens is assumed.

`MCOperations` extends `ShortsMigration` and `AccessScripts` and instantiates the
other two beside them: a behaviour is about one of the four (`operation`), so that
one run checks all.

Mutated forms of definitions carry a comment that begins with `Faulty:` or
`Mutant:`. They are deliberate mistakes. Each is what a plausible
bug would make of the definition after it, and shows that a property notices.

`MCVault`, `MCPositionRouter`, `MCRewardTracker`, `MCVester`, `MCGlpManager`,
`MCFeeScripts` and `MCOperations` give the constants small values. Operators that take an
operator as parameter (`Over`, `Both`, `Each`, `EachPair`, `Scaled`) are
notation and have no entry of their own in `PROJECT.json`.

## Runs

| Run | Checks | Instance |
| --- | --- | --- |
| `vault_longs` | reserves, guaranteed USD, funding, solvency and payouts of longs, also while governance changes fees, debts, switches and withdraws fees; no call touches another's safety or books more than it received | two traders and an approved router, one token, three prices (one with an AMM spread), partial and full closes, funding at two times, two fee settings, three transfers, price moves or settings |
| `vault_swaps` | redemptions leave the rest of the USDG covered | two tokens, dynamic fees, a debt cap, a buffer; a price that the price precision divides, one that it does not, and a USDG unit larger than the tokens', so that roundings occur and are absent |
| `vault_backed` | refuted: the test suite's balance equation for stable tokens | two traders, a stable and a volatile token |
| `router_safety` | the router holds exactly what it owes; pending requests keep their slots; the queues implement `RequestLifecycle` | two requests, paths that swap on the way in or out, deposit fees, two delay settings, keepers switched, queue starts moved |
| `router_live` | with keepers every request is settled and every slot passed; without them an owner gets a request settled | two accounts, one of which its token may freeze; an admin who switches between the delay settings of `router_safety`, in one of which requests expire before owners or keepers may touch them; `KeepersRun` and `OwnersRetry` as hypotheses |
| `glp_shares` | no provider's shares lose value to another's call; debts cover the USDG that the manager mints | two providers and a handler, two tokens, fees, a spread, a cooldown, private mode, an AUM deduction above the AUM, a tracker made ready at any time |
| `glp_shorts` | the total short size follows the positions; no call of the Vault creates value; the AUM can be computed in every state, and a tracked short takes nothing from the providers | a provider, two traders, a global short limit, three prices (one with a spread), funding, trades through the tracker and behind its back |
| `glp_weight` | refuted: the weight of the tracked average is at most 100 % | as `glp_shares`, two weights |
| `staking_bonus` | rewards claimable and claimed never exceed what the distributor paid; stakes add up; averages are computable; nothing earned is lost, with the bonus distributor, whose pay grows with the supply | two accounts, two deposit tokens, one of them the reward token, handler and owner calls, transfers between accounts, a distributor with less than is due |
| `vesting` | the ledgers of vester, tracker and router agree, what was earned is vested by one account at a time, and the average that a reserve is computed from stays within the stakes | three accounts and the vester, deposits, partial vesting, withdrawals, a bonus, a withdrawal of funds, two account transfers, rewards before and after them |
| `fee_distribution` | what passed a step's checks can be paid; nobody is paid twice or above the limit of esGMX; credit follows payment; keepers stay within their targets; the plan stays covered; everybody is paid in the end | both programs on two networks, a keeper, two accounts with rewards and one of the zero address, files with and without rebates and one that cannot be saved, scarce and ample approvals, a plan in time and one a period later, one crash anywhere, a unit of gas burned, a swap that loses or is refused |
| `operations` | runs of the migration end, cleanly, and with a tracker that follows the Vault; permissions stay together; configured debts have USDG behind them; batches reach everybody, and again only in a run that starts over or for an answer that was lost | migration: two runs, two trades, a fault, a server one block behind; access: two contracts to move, one permission to remove; configuration: either network, two tokens in use, two trades while a script writes; batches: lists of 0, 3 and 4 entries in batches of 2, one of them above what `batchSendEsGmx` approves, thirteen scripts, six failures (five exhaust a script's tries) |

A property is checked in one run only, in the one whose instance is hardest on it.
`vault_longs` has no swaps or redemptions; that reserves stay in the pool with them
too is the theorem `ReservesAreInPool`.
That ledgers keep their types is not checked by a run but proved, for the modules
of contracts and of the migration.

Bounds. `MaxEvents` limits transfers, price moves and settings of the Vault, `MaxTime` the clock,
`MaxUsdgSupply` the supply; a position needs one transfer, so three events allow
two positions and a price move that endangers one, or a profit and a second
increase. The pools are small enough for reserves to bind and the prices move
far enough for both kinds of liquidation. In the router `MaxRequests` requests
per account and kind are enough for a request behind another one, and ages
saturate at `MaxAge`, at or above every delay, so that nothing is lost.
`MaxCalls` limits deposits into the pool and settings of the manager: three are
enough for a second provider to find shares that the first one paid for, after a
setting, a redemption or a price move. Shares are redeemed in fixed amounts that
need not divide what a provider holds, so that every division is rounded.
Runs with two traders or two providers use symmetry; they check only
invariants and step properties, for which symmetry is sound.
In `vesting` the duration is two units of time of three, so that amounts vest in
part and in full; three accounts let an account that was transferred be
transferred on. `MaxEvents` limits signals, grants of bonuses and withdrawals of
funds. Its `VIEW` leaves out the total of claims per account, which no property
of this run reads, and the last vesting time of an account with nothing to vest.

Of the fee programs, one crash is what the operator's instructions cover;
`PaidOnce` says that it is about no more than one, since after two the check of a
repeated step may find the money that another step left over. `MaxTime` lets the
delay of a plan pass. A migration needs one fault to roll back and two runs for
what was left of the first to meet the second; two trades make the server be
behind in number and in time.

Deadlock is checked in every run of the contracts: time, transfers and retries never run out in
a way that would stop the model, because an update of the funding rate or the
passing of a block is always possible. In `fee_distribution` and `operations` it
is not: programs end, and the operator may have nothing left to do.

Fairness. `KeepersRun` says that blocks keep coming and that keepers keep
calling the batch functions; this is the bot that the keeper role exists for
(`executeIncreasePositions` can be called by nobody else). Fairness is needed of
the batch call only, not of any outcome within it: whether a request is executed
or cancelled stays free. `OwnersRetry` says that time passes and that an owner
whose cancel is possible and stays possible will call it; the run keeps
leverage switched on, since the code refuses owners otherwise. Both are
hypotheses of the properties, not of the specification, whose own `LiveSpec` only
says that blocks are mined and time passes; so one run checks what keepers achieve
and what owners achieve without them.

Of the fee programs, `LiveSpec` says that a process that has begun a step goes on
until it finishes or fails, and that what was bridged arrives. `OperatorGoesOn`,
a hypothesis of `EverybodyPaid`, says that the operator asks for the next step as
long as it can be begun and bridges what the plan asks for. The conclusion has
the excuses under `Excused`: a run that was interrupted, gas that keepers burned
after the plan, the delay of the plan, a network with no affiliates (the script
refuses to send) or a wallet without enough esGMX. In the migration, `Fairness` is
of the process (a single thread with timeouts of its own), of requests (that are
served or refused) and of the mining of transactions; not of faults, jobs or
trades. `RunsEnd` holds with every fault.

## The findings

`glp_weight`: `setShortsTrackerAveragePriceWeight` requires that the weight it
replaces is at most 100 % (`GlpManager.sol:80`) and stores the new one unchecked.
A weight above 100 % can therefore be set once. It can never be set back, and
while a token is shorted and the tracker is ready, `getAum` reverts.

`vault_backed` shows that the equation the tests check after every operation
(`test/core/Vault/helpers.js:100`) breaks for a stable token when the margin fees of a liquidated short exceed its
collateral. `validateLiquidation` caps the fees when the losses leave something of
the collateral, but returns them in full when they leave nothing
(`VaultUtils.sol:72`), and `liquidatePosition` adds them to `feeReserves`
(`Vault.sol:725`). As long as they are within the collateral they are paid from it
and the pool gets the rest (`Vault.sol:737`), whatever the losses; beyond it
nothing pays for them, as in the trace: fees of 660 over a collateral of 440.
`SurplusKept` says that this is the only such case: at unchanged prices no
other call books more than it received, but for one unit of the token when the
collateral of a short is converted.

Met while modelling, without a run of its own: `createFeeReference` reads
`arbWithdrawableGmxAmountKey`, which nothing defines
(`peripherals/feeCalculations.js:284`), so it throws before it writes a reference;
the model of `processFees` is therefore given one. `transferStakeValues` replaces
the receiver's `bonusRewards`, which `_validateReceiver` does not look at, so a
receiver loses a bonus of its own; an account that is transferred to itself loses
its right to vest (hence `<=` in `RightsVestOnce`); and because the vesting rate
counts what has vested already, a deposit made after an earlier one has vested
vests faster than the duration.

## Proofs

`VaultProofs` proves, for all users, tokens, prices and settings that satisfy the
assumptions in `Vault`:

* `TypeCorrect`: no ledger goes below zero (so no unchecked subtraction in the
  model hides an underflow);
* `ReservesAreInPool`, `FundingFeesComputable`, `PositionsWellFormed`;
* `VolatileSolvency`: pool plus fees of a volatile token never exceed what the
  Vault has recorded;
* `ReservesAddUp`, `GuaranteesAddUp`, `ShortSizesAddUp`: reserves, guaranteed USD
  and global short sizes are the sums over the open positions they stand for;
* `DebtsCoverSupply`: the USDG debts of the tokens cover the supply, provided
  nobody sets a debt by hand (`UsdgSettings = {}`); with `setUsdgAmount` it is
  false, for governance may set anything;
* `NoTradeEndangers` and `NothingBookedTwice`: the action properties
  `TradesNeverEndanger` and `SurplusKept`, the latter with shorts as well, which
  `vault_longs` has none of;
* `CoverNeverLost`: `UsdgCoverKept`. At unchanged prices and positions the supply
  of USDG rises by no more than the pools' value.

The inductive invariant `IInv` joins the type invariant with the safety
properties of the first three items and with
`BalancesRecorded`: the recorded balance lags behind the real one, without which
a measured transfer might be negative, and the Vault's USDG is part of the
supply, without which a redemption might burn more than exists. Solvency of a
volatile token needs `ReservedWithinPool`, since a long's fees are taken from the
pool, and the lemma that tokens bought for two amounts of USD never exceed the
tokens bought for their sum (rounding). Each action has its own lemma for each
part of the invariant. `Books` adds the three sums: a call changes one position,
and each total by the difference that makes (`BooksFollow`); that a short's size
is within its total (`ShortWithinTotal`) is why the saturating subtraction never
saturates.

`NoTradeEndangers` follows one argument. `validateLiquidation` compares what
remains of a collateral (`Remaining`) with fees and with the size, and less due or
more remaining does no harm (`StaysValid`). A position that a call leaves as it
was meets the same prices and a rate that is not higher (`RateKept`): a call
either accrues, and then nothing more is due at the same time (`AccruedRate`), or
only deepens a pool, which lowers the rate per token reserved. A position that a
call has changed was validated at the AMM's worse prices and without its profits
(`ValidatedAtWorst`, from the assumption on quotes), so it holds at the prices
liquidators are judged by.

`NothingBookedTwice` compares, call by call, what is recorded and neither pool nor
fee (`Free`) with what the collateral of shorts is worth in tokens. The two change
in the ledgers of one token, or of two in a swap (`FreeAfterMoves`), and the
collateral by that of one position (`KeptWithPosition`). What a short's collateral
and profit were worth is divided into what it keeps, its loss, the payout and the
fee (`ShortReduction`); converting the parts loses at most one unit against the
whole (`FourParts`), which is `CollateralRounding`. A deposit is never worth more
tokens than were deposited, since it is valued at the lower price and converted
back at the higher one (`DepositWorth`).

`CoverNeverLost` measures a pool as the Vault values a deposit: tokens times the
lowest price, divided by `PricePrecision`, then by the token's unit. Both divisions
round down. What comes in is worth at least as much in the pool as alone
(`ValueAdds`). What goes out was bought at the highest price, so it is worth no more
than was given for it, but both divisions may round against the pool
(`RedemptionValue`, `SwapValue`). `CoverRounding` bounds this: two and the ratio of
the units, for each pool that moved, and nothing where both divisions are exact. With
30 decimals of prices and 18 of USDG it is a speck, but the property without it is
false: TLC finds a redemption of a token at price 5 and precision 2 that takes a unit
too much. The run therefore has prices of both kinds. Calls on positions
count only when they leave the position as it was (`IncreaseBacked`: a deposit that
just pays the fee; `DecreaseBacked`), since profits and losses move the pools.

`LedgerSums` holds what these and the other proofs need to know of sums over
finite sets: they are natural numbers, no part exceeds the whole, and a change at
one place changes the sum by as much. The library's induction theorems take an
operator as a parameter, which the prover cannot instantiate; instead the sums
over all subsets are a table (`Tabulates`), and a smallest subset at which a fact
fails, which exists since inclusion of finite sets is well-founded, gives the
contradiction.

`PositionRouterProofs` proves

* `QueueInvariance`: types, requests are filed only under indices already used
  (`Filed`), and pending requests keep their slots;
* `NothingFallsOffTheQueue`: `PendingStaysQueued`, from the same invariant;
* `RouterHoldsWhatItOwes`: `Custody`, exactly, through batches that settle any
  number of requests. `Ledger` adds the types of the money and `PathsShort`; a
  batch is followed request by request in what it owes under each key;
* `ImplementsLifecycle`: `Spec => LifecycleSpec`. `Filed` is what makes a new
  request's index unused, so that a key is never handled twice.

`StakingProofs` proves of `RewardTracker`, for all accounts, tokens, amounts and
rates and for both distributors,

* `TypeCorrect`: no stake, claim or distributor balance goes below zero;
* `AveragesComputable`: `AverageComputable`, so `_updateRewards` never divides by
  zero and never blocks an account;
* `NothingEarnedIsLost`: `EarningsKept`, an action property about every step of
  everybody;
* `StakesStayInStep` and `TrackerStaysSolvent`: `StakesAddUp` and `Solvent`.

The inductive invariant adds `NobodyAhead`: no account was brought up to a
cumulative reward per token that lies ahead of the tracker's. Without it what an
account has earned since might be negative. `EarningsKept` then needs two facts
about roundings: the share of a stake never decreases with the reward per token,
and an account that is brought up to date is credited exactly what it was owed
before. `Solvent` is not inductive: what an account is owed is rounded down at
the time it is brought up to date, and two updates together may round to more
than one. `Backed` says the same before the division: beyond its deposits the
tracker holds what it owes exactly (`Exactly`: a claim times `Precision`, plus a
stake times the reward per token since); a step moves that sum by a difference
that the pull from the distributor covers, and `Solvent` is its rounded
consequence.

The same module proves of `Vester`, for all accounts, amounts, rates and vesting
durations,

* `VestingTokensKept` and `LedgersAgree`: `TokensKept` and all of
  `VestingAddsUp`: a claim never pays what has not vested, an account that
  withdraws leaves nothing behind, and what was earned is vested by one account
  at a time;
* `ReservesStayStaked`: `ReserveStaked`; the shares an account may stake out are
  the stake less its reserve, so `withdraw` can always return it;
* `TrackerStaysSound`, `TrackerStaysSolventVesting`: the tracker's types,
  averages, books and solvency also hold with the vester as a holder of shares
  and with account transfers;
* `AveragesWithinStakes`: `CombinedAverageWithinStakes`.

The invariant `VInv` extends the tracker's `IInv`, whose lemmas
about updates are used for the steps of the tracker. An account transfer updates
two accounts at once, claims and restakes, so it has its own lemma for the
tracker's part (`AcceptTransferTracker`) and one for the vester's.
`DeductionsCovered` says that the deductions of an account never exceed its
cumulative rewards: the subtraction in `transferStakeValues` never reverts.
`HandedOn` is what makes rights vest once: all that was ever handed on was
deducted from somebody. `AveragesPeaked` bounds averages by the largest stake an
account, or one transferred to it, ever had: two shares of a weighted average,
each rounded down, stay within the larger part (`WeightedAverage`), and the
history of largest stakes only rises (`PeaksRise`).

`GlpManagerProofs` proves, for all providers, traders, tokens, prices and
settings,

* `GlpInvariance`: the Vault's `IInv` survives everything that the manager and
  the tracker do with the Vault, with the lemmas of `VaultProofs` for each of the
  Vault's functions; `ProvidersLeaveReserves` and `ProvidersAreBacked` are its
  parts that matter to providers and traders;
* `GlpTypeCorrect`: no ledger of the three contracts goes below zero, and the
  AUM, the shares minted and the amounts redeemed are natural numbers whenever
  `getAum` does not revert. That the manager never pays more USDG than it has
  needs `MissingUsdg`;
* `GlpShortSizesAddUp`, and `GlpDebtsCoverSupply` (again with no debt set by
  hand): the sums hold with trades the tracker does not hear of, and with the
  USDG the manager mints for a redemption. The latter needs `UsdgInManager`: all
  USDG is the manager's, and the Vault has recorded none;
* `MintingDoesNotDilute` and `RedeemingDoesNotDilute`: the arithmetic of shares.
  The rounded number of shares minted, or of USDG paid, never lowers the value of
  the other shares, at the side of the spread it is computed with or at the other
  one. What remains of `GlpNotDiluted`, that the Vault's books grow by at least
  the USDG it mints, is checked by `glp_shares`.

`ShortsMigrationProofs` proves, for any lag of the server, any allowed difference
and any number of tries, trades, runs and faults,

* `ReadyIsCurrent`: `Spec => []TrackerIsCurrent`;
* `RunsEndCleanly`: `Spec => []EndsCleanly`.

`IInv` says of every step of the program what it has achieved and may rely on.
`AskedByRun`: only the steps that wait for answers have requests awaited, so
whatever else is on its way is a stray. Then, unless a stray took effect:
`SwitchesFollow` (what a step asked for is so, or is still on its way and nothing
contrary is; while the switches are off and the jobs idle, no job can start),
`CopyOfRun` (the run's copy is the last transaction to the tracker, and
everything before it is of earlier runs), `RolledBack`, and `CopyIsCurrent` (with
no job at work and no trade unmined, the Vault stays what it was when the data
were read). Without the order of transactions, a copy of an earlier run could be
mined in place of the current one.

`AccessScriptsProofs` proves `PermissionsStayTogether`:
`AccessSpec => []PermissionsTogether`, the invariant of `operations`, for all
contracts and removals, under the assumption `RemovalsApart` that
`updateAccess` takes away nothing of `rewardRouter` or `vesterCap`; its list in
the repository does not. The invariant says that every transaction the operator
holds sets a whole phase of the migration, a single removal or a governor
(`Whole`), so that a multicall which is valid changes all of a group or none.

`FeeScriptsProofs` proves of the fee programs, for any number of keepers and
recipients, all balances, files, statistics, prices and crashes,

* `CreditIsBacked`: `Spec => []CreditFollowsPayment`;
* `GasWithinTarget`: `Spec => []TopUpsWithinTarget`, for keepers that start within
  their targets;
* `PlanStaysCovered`: `Spec => []PlanCovered`;
* `ChecksAreEnough`: `Spec => []ChecksSuffice`, of both programs;
* `EsGmxStaysWithinLimit`: `Spec => []EsGmxWithinLimit`. The rewards of a file are
  each rounded down, so the limit bounds their sum (`Reduced`) up to the rounding
  of the ratio, which is kept in thirtieths: hence 29/30;
* `PlanSpendsAll`: with multipliers of at most 100 %, the parts of a plan are not
  negative and are exactly what there is as soon as the minimum for liquidity
  providers is kept (so the later check against the total never refuses);
  `BridgingSuffices`: the GMX rewards fit, and each network has its own after
  bridging.

The invariants of the first two are about the list of transactions a step still
has to send. `Backed`: a rate comes right behind the transfer of as much to
the distributor it is for, a bonus right behind the esGMX. `HeadPaid`: a credit at
the head of the list is backed by the ledger, because the transaction before it
was its payment; it is also what a crash cannot break, since a run that dies
leaves no list. `GasFits` and `GasOnce`: what the list still brings a keeper
fits in its tank, and it is in the list once per network, so that what was read
before the first transaction still fits when the last is sent, with keepers burning
gas in between. For each step of the programs, `TransactionsFit` shows that its
list is made this way, `Typed` (in `CreditInv`) that no ledger goes below zero.

`PlanCovered` is a sum over the payees of what was paid them so far. Its inductive
form `CoverInv` holds from the plan on, not only after funding: what the fee
keeper, the handler and the payees hold in native tokens covers the plan and, in
addition, the gas the keepers lack; every transaction of `distributeFees` keeps
that balance (`Within`: what leaves one of them goes to another, or to a keeper
who lacks it), and only what keepers burn is lost. `HandlerInv` says that the
handler is empty once the claims of the first step are sent, also when that
step was interrupted in between: what the plan counted there is with the fee
keeper afterwards. `ProcessInv` says which states the process and the operator can
be in: a program that does not run has nothing to send, one that runs has a plan.

`ChecksSuffice` speaks about the head of the list only, and a check about totals.
`Ample` closes the gap, for what is left of a list at any time: it is orderly
(`Orderly`: nothing is needed before it comes in, taken before it is looked for,
or spent before it is allowed), and for each account and token the total of what
it takes is at hand or still comes in (`Provided`), no amount that is looked for
exceeds what the list takes from that account afterwards (`Required`), and what is
spent on approval is allowed, now or by an approval in the list (`Permitted`).
`AmpleSent`: it stays so with every transaction. `GmxAmple`, `GlpAmple`, `RewardsAmple` and
`ReferralsAmple`: the checks of a step make its list ample, where the totals of
the referral files are compared with the sums along the list, for any number of
recipients (`LedgerSums` has the lemmas about sums along lists). The payments
check nothing, so theirs must follow from the past:

* `PurseCovers` for `distributeFees`: until the payments, the fee keeper and the
  handler alone cover the plan, the gas the keepers lack and the gas the fee
  keeper had of his own. The last part needs `GasEven`: what is unwrapped is what
  is sent, so that behind every position of the list of funding his gas is what it
  was at first and what is still to be handed on. It holds unless a step is
  repeated: an interrupted funding leaves gas unwrapped, which a second one unwraps
  again. This is why `PaymentsCovered` excludes repetitions;
* `DueInv` for `processFees`: its check of the rewards includes the payments, and
  what those take is left when the rewards are sent.

`ChecksInv` is their conjunction and is inductive. A corollary is that no swap is
refused and no transaction reverts within a step that was checked
(`CheckedGoesOn`).

They assume of the constants what the code or the chain ensures: the accounts of
keepers, recipients and the protocol are different ones (`AccountsAssumption`);
prices and the esGMX limit are not zero, on which the scripts divide; a discount is
a share of the rebate it is taken from (`DataAssumption`: `ReferralStorage.sol`
accepts no share above 100 %), so no affiliate owes anything; and the reference
that `processFees` is given paid for its own costs (`ReferenceAssumption`: a
transaction cannot carry a negative amount). TLC evaluates them in
`fee_distribution`.

Model-checked only:

* `PayoutWithinReserve`, whose bound holds up to the rounding of the average price
  (which a step of the run's prices keeps below one unit) and, for a short, at a
  fixed price of the stable token only;
* step properties about values with nested roundings: `EquityConserved`,
  `GlpNotDiluted`, `TradesLeaveAum`; and
  `AumComputable`, which depends on how far the rounded averages drift apart;
* of `FeeScripts`, `PaidOnce`, which is not true of all constants: a fee keeper who
  has as much again beyond the plan, or a plan whose referral rewards exceed those of
  GLP, passes the check a second time. The run shows it for a week in which what is
  left is less;
* of the other scripts, `BatchTasks` (`WorkedThrough`) and `TokenConfig`
  (`DebtsWithinSupply`), which fold over lists;
* liveness, everywhere: fairness and ENABLED are beyond the prover.

## Not modelled

In `Vault`: listing tokens, `upgradeVault`, the gas price limit, the
liquidator list, `realisedPnl` (written, never read), setters of
limits, which are constants. 256-bit overflow is left out: the code uses SafeMath.
In `PositionRouter`: callbacks (they run after the request has been deleted and
cannot re-enter, their reverts are caught), referral codes, slippage and size
limits (part of "the Vault refuses"), setters of fees and limits.
In `ShortsTracker` and `GlpManager`: handler lists, the choice of the tracker, and
slippage limits. `TradesLeaveAum` is about shorts; it excludes liquidations, whose losses may exceed
the collateral, trades the tracker does not hear of, and the close of the last
short of a token, when the accumulated roundings of its average come due.
In `RewardTracker`: allowances, `setHandler`, the tracker's own `withdrawToken`.
In `Vester`: the vester for GMX, which reserves shares of another tracker than the
one it reads averages from; the setters with which a handler replaces a single
transferred or deducted amount; `VesterCap`. Of `RewardRouterV2`: the GMX side of
an account (its trackers, multiplier points and voting power), whose checks would
make `ValidReceiver` stricter; the allowance that strict transfer mode asks for;
`handleRewards`, which calls what is modelled in sequence.

Of the fee programs: printing, the pools and feeds from which prices are read
(inputs), the signing of transactions, and fees that accrue while the programs
run (what can be claimed is what could be when the plan was made, plus what was
left over of an earlier week). That the Vault has the tokens it says it owes
(`feeWithdrawal` compares them) is taken from the model of the Vault.
Of the scripts in general: `deploy*` and one-time setup scripts, which set up
contracts nobody uses yet, in a straight line; reports, which read and print; the
configuration of the build; and the data of the repository. They have no state
from one run to the next and nothing to interleave with.

`PROJECT.json` lists the forty hazards that matter most. Two of them have a note
instead of a property, because the code has no defence to check: payments to
treasury and Chainlink that are run again (`distributeFees.js:392`), and a server
that lags behind while the migration reads its data
(`migrateToShortsTracker.js:189`). Others are covered in part, as they say:
`EndsCleanly` excuses a request that overtakes the rollback, `DebtsWithinSupply`
allows for what was minted while the script ran, `EsGmxWithinLimit` for a thirtieth,
`EverybodyPaid` for interruptions and burned gas. These are known and not listed:

* contracts: a tracker switched on with average 0 for open shorts
  (`ShortsTracker.sol:44`; `AumComputable` is about trackers that were given all
  averages and stay ready); a deposit with an AUM but no shares, which mints none
  (`GlpManager.sol:220`; `minGlp` lets the caller refuse); the roundings of a
  long, which moves money between four ledgers of the AUM (`GlpManager.sol:173`);
* fee programs: without rebates no file is written and that of the week before
  stays (`distributionData.js:209`; in the model, and an excuse of
  `EverybodyPaid`); an affiliate without esGMX rewards makes the reduction throw
  (`distributionData.js:245`); files are written before the plan
  (`createFeePlan.js:480`; the operator starts over);
* other scripts: `transferBonusRewards` sets both accounts to zero when it is run
  again, also when only its second network had failed: it prints "skipping transfer"
  and goes on (`transferBonusRewards.js:57`); accounts renamed after their
  rewards were added up overwrite each other when a receiver is in the list
  itself (`bonusReferralRewards.js:61`); a stopped distributor makes
  `updateEsGmxRewards.js:82` divide by zero; `setTokenConfig.js:16` adds up debts
  without `mim`, which `updateUsdgSupply` includes; the signing server may exit
  while a script still adds transactions (`signer.js:67`; the model's scripts
  list all theirs at once, and may lose the server at any time).

## Plan

1. `OrderBook`: escrow of orders against balance, updates and refunds.
2. The rest of `Timelock` and `TokenManager`, and `PositionManager`: leverage is
   switched off again after every manager's call.
3. `FastPriceFeed` and `VaultPriceFeed`: updates in order, votes, spread.
4. A composition of the router's batches with the Vault, so that acceptance is
   no longer free.
5. `TradesLeaveAum` for longs, whose collateral, guaranteed USD, pool and reserve
   are each rounded on their own.
6. The vester for GMX beside the one for GLP, on the chain of GMX trackers.
7. Proofs: `PaidOnce` of the fee programs, under the conditions it needs of balances
   and settings;
   `EquityConserved` and `TradesLeaveAum`, with the allowances their roundings need.
