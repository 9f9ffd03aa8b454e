# A verification of slot_twap_oracle

TLA+ modules that model the oracle program of this repository and the services
around it, TLC configurations that check them on small instances, and TLAPS
proofs of the main results about the program and each of those services for
instances of every size.
Paths are relative to the repository's root unless they name a module.

    tlc -workers 2 -config oracle_pricing.cfg MCTwapOracle.tla
    tlapm TwapOracleProofs.tla        (and the other modules named ...Proofs)

`PROJECT.json` lists the runs, the theorems, the source lines behind every
definition, the mutations each property is known to detect, the hazards of the
code and the findings.

## 1. The system

| part | state it keeps | operations |
| --- | --- | --- |
| on-chain program (`programs/slot_twap_oracle/src`) | accounts of one pair: `Oracle`, `ObservationBuffer`, `RewardVault`, token accounts | the eleven instructions of `lib.rs`; `get_swap` is read-only |
| observation ring (`utils/ring_buffer.rs`, `state/observation.rs`, `resize_buffer.rs`) | `head`, `len`, `capacity`, `observations` | push, search by slot, grow, shrink |
| SDK client (`sdk/src/client.ts`) | none between calls | builds transactions, fetches accounts, `computeSwapFromChain`, `getOracleUpdates` |
| updater bot (`bots/updater/src`) | metrics in memory and in a file, ticks in flight, time of the last alert | tick, aggregate prices, retry, record, alert, shutdown |
| price sources (`bots/updater/src/sources`) | none between runs | read a Raydium, Orca or Meteora pool and price it |
| WebSocket service (`api/src/ws.ts`) | clients, their subscriptions, polls in flight | connect, subscribe, unsubscribe, poll, stop |
| REST API (`api/src/routes`) | none | price, twap, history |
| event indexer (`scripts/index-events.ts`, `verify-indexer.ts`, `calculate-rewards.ts`) | a table of events | stream, insert, verify, sum rewards |
| operator tooling (`sdk/src/cli.ts`, `migrations`, other `scripts`) | none | commands, deployment, an end-to-end test, a benchmark |

How they interact.  Anyone submits `update_price`; the bot does so for the pairs
it is configured with.  Each update moves the accumulator on by the price that
was in force, pushes it on the ring, and can pay the updater of the update before
it from the vault.  `get_swap` on chain and `computeSwapFromChain` off chain read
the ring and the accumulator; the REST and WebSocket services use the second.
The program emits `OracleUpdate` and `RewardClaimed`, which the indexer stores
and the reward scripts add up.

What is hard in it, and what makes each part correct:

* **Program.** Transactions are atomic and ordered by the chain, so the hazards are
  long sequences of legal instructions: a ring that wraps and is then resized, an
  accumulator that must be the integral of the price through skipped slots and
  pauses, checked arithmetic that turns a large value into a stop, a zero price
  that also means "no price yet", a reward paid one update late.  Correct means:
  the ring is the window of the newest updates, the answer of `get_swap` is the
  average price, an update is rewarded at most once and in the right name, tokens
  are conserved, an owner is replaced only by a key it proposed.
* **SDK.** Three requests are answered at three moments.  Correct means: like
  `get_swap` when they agree, and still an average of prices when they do not.
* **Bot.** Ticks overlap, every `await` can fail, a transaction whose confirmation
  was lost can still land, the process can be killed while it writes.  Correct
  means: the metrics count each run once, what is recorded is what the run did on the
  chain, alerts keep their distance, and ticks end.
* **Price sources.** The two vaults of a pool are two requests with trades in
  between, a pool can be empty, `1 / 0` is Infinity and every comparison with NaN is
  false.  Correct means: no minority of odd sources chooses the price, and sources
  that agree make one.
* **WebSocket service.** Polls overlap, and clients come, go and change their
  subscriptions while a poll waits; a message can end the process.  Correct means:
  results are not older than the poll, a price goes back in time only when polls
  overlap, and a subscriber keeps hearing.
* **Indexer.** Handlers are not awaited, so that inserts overlap and shutdown cuts
  them; the stream is not resumed and inserts are not retried.  Any transaction that
  mentions the program is read, with the lines that other programs logged in it.
  Correct means: every row is a line of a successful transaction, only once, and an
  update that took effect unless another program logged it; a row that is missing was
  missed for one of the known reasons; and what is computed from the rows is computed
  from the right ones.
* **Client programs.** Scripts, commands and routes await one request after another
  on a chain that moves on.  Correct means: the checks of the end-to-end test fail
  only for what they test, and the parts of one answer do not contradict each other.

The complete list, with the line where each hazard bites and the properties that
cover it, is under `hazards` in `PROJECT.json`.

## 2. Modules

    ObservationRing      SwapMath ------------- EventIndexer -- EventIndexerProperties
          \             /                                           /        \
           TwapOracle  ------  ObservationLog          MCEventIndexer  EventIndexerProofs
          /          \         (abstract: a
         /            \         sliding window)
        /              \
    SdkReader       TwapOracleProperties -- MCTwapOracle
      |     \          /           \
      |   SdkReaderProperties    TwapOracleProofs      SumLemmas
      |          |        \               \            /
      |     MCSdkReader    \          TwapOracleSumProofs
      |                     \          /
      |                     SdkReaderProofs
      |                      /
    ClientPrograms -- ClientProgramsProperties -- MCClientPrograms

    PriceAggregation -- PriceAggregationProperties -- MCPriceAggregation,
                                                      PriceAggregationProofs
    UpdaterBot  -- UpdaterBotProperties  -- MCUpdaterBot, UpdaterBotProofs
    WsBroadcast -- WsBroadcastProperties -- MCWsBroadcast, WsBroadcastProofs

`EventIndexerProofs` and `PriceAggregationProofs` use `SumLemmas` too.

In a module with mutants a definition preceded by "Slip:" is not used: it is the
mistake that the property named under `mutants` is known to find.

### ObservationRing, SwapMath

Pure operators.  `PushObservation`, `ObservationBeforeSlot` (the backward scan,
stated as the smallest age with a smaller slot), `Shrink`, `Grow` and `Resize` are
the ring's code case by case, the modular index arithmetic and the untouched
branch of an empty ring included.  `Fits` is what `checked_mul` and `checked_add`
accept; `ComputeSwap` is `math/swap.rs` with its errors in order; `ComputeSwapBN`
and `DivBN` are the same average in the BN arithmetic of the SDK and the scripts,
signed, unbounded and truncating towards zero.

### TwapOracle

One oracle with its buffer, its vault and the token accounts.  There is one action
per instruction.  A Solana transaction is atomic, so the account constraints
(`has_one`, `init`, `seeds`), `require!`s and checked operations of an instruction
are guards, and a failing call is a stuttering step.  That includes an update whose
`transfer_checked` fails (a wrong mint, a frozen account): the error is passed on, the
whole update is refused, and nothing has changed.  `AdvanceSlot` is the clock;
several transactions can land in one slot.  `updates` and `claims` are the events
emitted so far.  They are the history that the properties compare the accounts
with, and no action reads them.

| action | code |
| --- | --- |
| `InitializeOracle` | `initialize_oracle.rs` (accounts are created with `init`) |
| `UpdatePrice` | `update_price.rs`: pause, slot, deviation guard, `PayReward` or `SkipReward`, accumulator, push, events |
| `ResizeBuffer` | `resize_buffer.rs`: realloc first, then the branch, then the write-back, which must fit (`FitsAccount`) |
| `TransferOwnership`, `AcceptOwnership` | `transfer_ownership.rs` |
| `SetPaused`, `SetMaxDeviation` | `set_paused.rs`, `set_max_deviation.rs` |
| `InitializeRewardVault`, `FundRewardVault`, `WithdrawRewardVault` | the files of those names |
| `GetSwap` (an operator) | `get_swap.rs`, `math/swap.rs` |

Left out: rent, mint and bump checks of the PDAs, the token program's own checks
beyond balances, `ObservationBuffer.oracle` and the mints, and a second oracle
(instructions touch the accounts of one pair only).

### ObservationLog

The abstract specification of the buffer: a sequence of observations, newest first.
`Record` puts one with a larger slot in front and forgets the oldest only when the
window is full; `SetCapacity` forgets only what the new capacity demands.
`TwapOracleProperties` instantiates it with `Window`, the ring read by age, and
`ImplementsSlidingWindow` says that the program implements it.

### SdkReader

Composes `computeSwapFromChain` with `TwapOracle`: a call fetches the oracle, the
buffer and the slot in any order, with any instructions and slots in between, and
computes from whatever it got.

### ClientPrograms

Composes the programs that use the SDK with `SdkReader`, and so with the program.
`e2e-test.ts`, `benchmark.ts`, the pair creation of `deploy-devnet.ts`, the five
commands of `cli.ts` and the routes `/price` and `/twap` are lists of steps
(`Program`), each step an action of its own; between two of them there is the clock
and, on a chain that is not the script's own validator, whatever other users do
(`Others`).  A step that throws ends the program; where the script catches the
error and compares it with the one it expects, `fail()` prints and the script goes
on (`complaints`).  An RPC request can fail before or after the transaction landed.

### PriceAggregation

One run of `updatePair` up to the transaction, run after run: every configured
source is read at once, `fetchVaultBalances` in two requests (`ReadVault`), Orca's
account in one (`ReadWhirlpool`); pools are traded on in between (`Trade`) and any
source can fail.  `Aggregate` is `median`, `filterOutliers`, the second median and the
spread test, over two populations and with what JavaScript makes of Infinity and
NaN.  A submitted price is
rounded as `Math.round` does.  The layout of the pool accounts is abstracted to the
amounts in them.

### UpdaterBot

The bot's process and the chain as far as it sees it.  Node runs one callback at a
time, so an action is what runs between two awaits.  A tick is `started` until its
`getSlot` is answered (`CheckStaleness`) or fails (`SkipStaleness`), then `updating`
until all its runs have settled (`EndTick`).  A run of `updatePair` is `fetching`
prices, then skipped, rejected (`AggregationThrows`) or `submitting`; a failed
attempt goes to `backoff` and is sent again until `MAX_RETRIES` attempts were made; a
confirmed one is `locating` (`getSlot`), then `recording`, in two steps because the
slot is the chain's when it answers and the callback runs later.  Sent transactions
stay in `sent` until they land, whether or not the client got an error for them; one
that expires simply stays there.

Every record of the metrics saves the file.  `SaveFails` is a save that throws: the
counters have changed, the file has not, or is cut short.  Inside a run the error
rejects the run, which is then counted as failed besides; where nothing catches it
the process dies (`Die`).  `Crash` can leave a file that does not parse when a
callback that saves may be running; `Shutdown` flushes; `Restart` loads.
`AlertIfStale` charges the rate limit before the message is sent and not awaited;
`LimitExpires` is the five minutes running out.  A tick is due every interval, whether
or not the ones before it have ended (`StartTick`); after a restart the remaining ticks
belong to the new process, and transactions of the old one can still land.

Abstracted: prices (`PriceAggregation` says when a pair is skipped), and every reason
but the slot for which the program refuses an update (such a transaction never
lands).  Left out: the Prometheus endpoint, which formats the metrics.

### WsBroadcast

Clients, subscriptions, the timer and its polls; an action is what runs between
two awaits.  A poll takes the keys subscribed when it begins, stores a result or an
error for each (`StoreTwap`, `StoreError`; `FetchOracle` is the moment at which the
price is read), and when the last is there sends them to those subscribed then.
A client that is too slow is closed and loses the result.  A subscription is known
by the text of its window: `ParseInt` is what `parseInt` makes of a text.  A message
that is refused is answered (`RefuseMessage`); one that is JSON but no object throws
in the handler, which nothing catches, and ends the process (`MessageThrows`).  The
process is then `dead` until it is started again (`AttachWebSocket`).

Abstracted: one oracle; the order of a poll's keys, which is any order; the rate
limit, which as time is not modelled can refuse any message (`RefuseMessage`); `sent`
holds what the latest step sent, and `outdated` the versions older than one that was ever
sent, which is what the properties ask of the past.  Sockets that `stopBroadcast` closes disappear at once: nothing reads their
state afterwards.

### EventIndexer

The chain is a ledger of the transactions that mention the program, each with the
events its log lines decode to (`Logged`): those of the oracles it updates, and those
that another program logged in the same form, whatever they say (`foreign` holds their
places).  `decodeOracleUpdateLogs` does not tell the two apart, and the only use of
`foreign` is in the properties.  The slot of a row is the transaction's.  A transaction
that failed keeps its logs and has changed nothing.  `Start` opens the
stream at some transaction of the current slot, `Deliver` hands a transaction to its
handler, and `Insert` is one query of one handler, so that the inserts of several
transactions interleave.  `Inserted` is the table's two unique indexes.
`InsertFails` is a query that throws before or after it took effect; `StreamEnds`
leaves a process that hears nothing; `Shutdown` lets the query in flight of each
handler finish and refuses the others; `Crash` ends everything but the table.
`Verify` is `verify-indexer.ts`, four reads at four moments, `computeSwapFromChain`
taken as one of them (`SdkReader` splits it).  Operators read the table or the
ledger: `CalculateDistribution` (rewards), `Buckets` (`/historical`) and
`GetOracleUpdates` (the SDK, `/history`).

PostgreSQL and the stream are known by how the scripts use them.  Abstracted:
block times, the text of signatures, and the reward per update, which is a factor.

## 3. What is checked

| run | question | bounds | distinct states |
| --- | --- | --- | --- |
| `oracle_pricing` | Is the ring a sliding window, the accumulator the integral of the price, `get_swap` its average, and is an accumulator at its limit the only thing, and for good, that stops an oracle? | 1 user, slots 1-7, prices 0, 10, 11, 150000, `MaxU128` 200000, capacities 1-3, thresholds 10% and 100% | 200,647 |
| `oracle_rewards` | Is an update rewarded at most once, by its successor and in its updater's name; do the books balance; can an empty or short vault block an update; how does an owner change? Also the invariant that the proofs use. | 2 users (symmetric), slots 1-4, amounts 1-2, `MaxU64` 4 | 25,868 |
| `sdk_reads` | What is an answer of `computeSwapFromChain` worth, with any instructions between its three reads? | slots 1-5, prices 100, 110, capacities 1-2, a window of 2, staleness default or 1 | 771,569 |
| `client_programs` | What can stop the end-to-end test and the benchmark besides the node, do the test's refusals come for the expected reasons, and how do the parts of one answer relate? | one run of each program, slots 1-13, 6 benchmark updates, 2 updates by others | 2,307,111 |
| `aggregation` | Whose price does the bot submit when pools are traded on while they are read, are empty, or do not answer? | 2 or 3 sources in either direction, 4 pool states, 2 trades | 2,846,324 |
| `bot_ticks` | Do the metrics count each run once and record what it did, through overlap, retries, failing writes, crashes and restarts; do alerts keep their distance; do ticks end? | 1 pair, 3 ticks, 2 attempts, 1 restart, 1 failing write, slots 1-2 | 816,111 |
| `ws_polls` | How old can a result be, when does an older price follow a newer one, and do subscribers keep hearing? | 2 clients, 2 polls in flight, 3 texts of 2 windows, 1 subscription each, 2 account versions | 312,463 |
| `indexer` | What does the table hold, what can it miss and why, and what do the verifier, the rewards and `/historical` make of it? | 2 oracles, 2 transactions: an update of one, or of the other after a line of another program; slots 1-3, buffers of 2, 1 failing insert, 2 starts | 516,708 |

Four further runs each show one property violated; see section 5.

Why the bounds are enough for the case to happen:

* `oracle_pricing`: seven slots are enough to fill a ring of three, wrap it, shrink it
  or grow it when wrapped, and push again.  150000 at `MaxU128` 200000 is a price
  whose accumulator overflows after two slots, with slots left to see that nothing
  heals it; `150000 * 10000` does not fit, so the deviation guard overflows; from 0
  the guard is off.  10 to 11 is exactly 10%.  `MaxGrowth` 1 makes growing from 1 to 3
  fail; it stands for the 10,240 bytes a reallocation adds, and bounds
  `ResizeBuffer` only (an oracle's first capacity is any of `Capacities`).
* `oracle_rewards`: the vault can be empty, hold less than a reward, be paid into
  itself; two users make "updater", "payer" and "recipient" different; counters
  reach `MaxU64`.
* `sdk_reads`: five slots with a ring of one or two let the oracle be older or newer
  than the buffer by more than the window.  Prices 10% apart make an average of
  the wrong interval visible.  Larger windows and staleness are in `sdk_negative`.
* `client_programs`: thirteen slots are enough for every step of the end-to-end test
  with three slots to spare, which lets delays fall anywhere and the default staleness
  fail it; six benchmark updates make a ring from which its window can be answered
  (the code sends twenty); two updates by others fall between any two requests of an
  answer.
* `aggregation`: the pools are at 1, at 1.05, far away, and empty of one token, so that a
  source can be at the limit of the spread, outside it, or infinite; three sources are
  all there are; two trades tear the reads of one source or of two.
* `bot_ticks`: the first tick is awaited and only then the timer set, so that three
  ticks are the least of which two are in flight together.  A restart needs a tick that
  is still to come, and awaits it: in this instance it falls between ticks that do not
  overlap, and only the theorems are about a restart after an overlap.  Two
  attempts are the least that show both a retry and the last failure.  One pair:
  pairs share only the counters and their file, and `RunsCountOnce` is about any
  number of pairs.  `STALE_ORACLE_SLOTS` 0 makes any recorded slot
  stale one slot later.  Deadlock is not checked: when the ticks, slots and restarts of the
  instance are used up, nothing is left to do.
* `ws_polls`: two polls are the least that overlap; two clients with one subscription
  each have both windows in one poll; the third text, "50 slots", is one that `parseInt`
  reads as the first.  The limit of connections is not exceeded in
  this instance (`ServiceKeepsLimits` is about all).  `OneSubscriberHears` asks about
  one client and one window: the specification treats clients alike and both windows
  alike, so this is `SubscribersHear`, with a fraction of the work.
* `indexer`: a transaction with a line of another program and an update has two events
  to insert, so that a handler can fail, be shut down or be killed between them; a second
  transaction overlaps with it; a second start can deliver again what the first one
  stored.  The other program's line names the other oracle: it is a row that is no
  update, and when that oracle is updated in the same slot, one of the two rows is
  refused.  A buffer of two observations and a window of two slots make the verifier
  compare averages of two prices.  Deadlock is not checked, for the reason given for the bot; the
  scripts of `client_programs` end.

Fairness.  Programs on chain have none: nobody has to submit anything, and only
safety is claimed.  `UpdaterBot` assumes of a tick and of each run that they take
their next step: requests are answered or fail and Node runs every ready
callback.  Nothing is assumed of the chain, that a tick starts is not assumed either,
and a tick may end in the death of its process.  `WsBroadcast` assumes that the timer fires (`setInterval`), that requests
are answered or fail, and that a closing socket has its close event.  `EventIndexer`
assumes that a stream that is open delivers and that a query ends; a stream need not
stay open.  A request that hangs for ever is outside all three: the code sets no time
limit of its own.

## 4. What is proved

The theorems hold for every value of the constants that the named `ASSUME`s of the
modules allow.

`SumLemmas` holds what the other modules count and add with.  The library's induction
theorems take an operator and cannot be used here; that a set of natural numbers has a
least element, and a set of finite sets a smallest, can, and is induction enough when the
claim is stated as a set (`InductionOnNumbers`, `InductionOnSets`).  From it follow
the laws of `SumFunction`, which is a recursive fold: what it adds up does not depend on
the order, and sums split, extend and compare as sums do (`SumWith`, `SumOfUnion`,
`SumOfChanged`, `SumOfSteady`, `SumOfParts`).

**`TwapOracleProofs`** (prices fit a u128, keys are distinct, capacities, amounts and
bounds are natural numbers, the first slot is not 0):

| theorem | statement |
| --- | --- |
| `TypeCorrect` | `Spec => []TypeOK`: every value stays in its Rust type, no token account is overdrawn, the array has `capacity` entries |
| `Inductive` | `Spec => []InductiveInvariant` |
| `RingHistory` | `Spec => []RingHoldsNewestUpdates`: read backwards, the ring is the newest updates, none missing, none twice |
| `RewardHistory` | `Spec => []RewardsFollowUpdates`: an update is rewarded at most once, by its successor, in its updater's name |
| `WedgeNeverHeals` | `Spec => WedgeIsPermanent`: once the accumulator no longer fits, no instruction of anybody brings the oracle back |
| `ProposalNeedsAcceptance` | `Spec => ProposalEndsInAcceptance` |
| `RingImplementsWindow` | `Spec => ImplementsSlidingWindow`: the refinement of `ObservationLog` |
| `RepeatsAreAdmitted` | while the accumulator fits, every check of `update_price` lets the price in force be repeated, with any reward account whose vault has room in its counters |

Its first lemmas say what pushing, shrinking and growing do
to the entry of each *age* (`PushAges`, `ShrinkKeepsNewest`,
`GrowKeepsAll`); no other proof sees an index.  `InductiveInvariant` is the conjunction of
types, `Lifecycle` (the oracle and its buffer come into being together, the buffer
as a ring), `OracleIsLastUpdate` (the account is what the newest event says),
`SlotsIncrease`, `RingHoldsNewestUpdates`, `RewardsFollowUpdates` and
`ClaimsAreSettled`.  Each is needed: a type alone does not say that `head` is in
range, or that a ring which is not full starts at index 0, without which `Shrink`
would read the wrong entries; and that no reward is paid twice rests on rewards
paid so far being older than the oracle's last slot, which is what
`last_slot != last_rewarded_slot` tests.  It is proved in two layers, `Structure`
(types and shape) and `History` (the events).  `oracle_rewards` checks the same
formula with TLC.

`RepeatsAreAdmitted` is what can be proved of `OnlyAWedgeStopsUpdates` and
`RewardNeverBlocksUpdate` without `ENABLED`.  `UpdateIsAdmitted` shows that `update_price`
*is* its checks (`Admits`) and then an assignment to every variable (`UpdateAssigns`), so
that nothing but the checks can disable it.

**`TwapOracleSumProofs`** (the same assumptions, and finitely many users):

| theorem | statement |
| --- | --- |
| `AccumulatorRule` | `Spec => []Accumulates`: from one update to the next the accumulator grows by the first one's price times the slots between them, and by nothing else |
| `SwapMeasuresFromNewest` | `Spec => []MeasuresFromNewest`: `get_swap` answers exactly when the oracle runs, is fresh and fits, and a retained update lies at or before the window's start and before this slot; the answer is the accumulator's growth since the newest such update, by the slots since |
| `AccumulatorIsIntegral` | `Spec => []CumulativeIsIntegral`: the accumulator of the account, and of each update, is the sum over the slots of the price in force |
| `SwapAverages` | `Spec => []SwapIsSlotAverage`: when `get_swap` answers, and that its answer is the floor of the average price in force since the newest retained update outside the window |
| `BooksBalance` | `Spec => []RewardBooksBalance`: the vault's counters are those of the claims, and no instruction makes or loses a token |

`PricingInvariant` carries the first four: types and history as before, that the accumulator
grows by the rule and never decreases (`Accumulation`; without the second part `compute_swap`
would fail with `PriceOverflow`), and that no update is before the first slot
(`Started`; before it the integral would have to be of negative slots).
The second needs `RingHoldsNewestUpdates` and `SlotsIncrease`: the scan stops at the first entry
old enough, and all entries behind it are older (`ScanFindsNewest`).  The integral follows by
induction over the updates: between two of them the price in force does not change
(`IntegralGrows`), so that it grows by the rule's product.  `SwapAverages` is then
`SwapMeasuresFromNewest` with the accumulator replaced by the integral.  `BooksInvariant`
adds to the books that there are no claims before there is a vault, without which
creating a vault would reset the counters below them.  A reward can be paid from the vault
into the vault, so that the sum of all balances, not a difference of two, is what a
transfer keeps (`TransferKeepsTokens`).

**`SdkReaderProofs`** (windows and limits are natural numbers; finding nothing can be told
from finding an observation, and a window from none; and for the last two theorems that
`benchmark.ts` sends more than 5 updates and that a u128 holds 110 times every slot, 110
being the scripts' highest price):

| theorem | statement |
| --- | --- |
| `ReaderAgrees` | `ReaderSpec => []AgreesWithGetSwap`: two implementations in two number systems agree on what both read |
| `ReaderAverages` | `ReaderSpec => []DefaultAnswersAreAverages`: with the default staleness torn reads still make an average of prices that covers the window |
| `AnswersAreOrdered` | `ScriptSpec => []LaterPartsAreNotOlder`: the parts of one answer of `inspect` or `/twap` are in the order of their requests |
| `ScriptsOnlyWait` | `ScriptSpec => []OnlyDelayStopsScripts`: the end-to-end test and the benchmark are stopped by nothing but the node or a late query |
| `RefusalsCome` | `ScriptSpec => []RefusalsAreTheExpectedOnes`: what the end-to-end test expects to be refused is, for the reason it expects |

`ReaderInvariant` says that what was fetched was once the chain's: the account is that of
*some* update, each entry of the buffer is of *some* update, and as updates are never taken
back (`ChainGoesOn`) this stays so however many follow.  The scan's entry can still be newer
than the account.  `AnswerIsAnAverage` shows that it is not when the staleness limit is the window:
an entry at or before the window's start is then at or before the account's last slot.
`AnswersAreOrdered` rests on `AnswerInvariant`, which follows the two programs step by
step; it needs that a ring which was pushed on once is not empty (`RingIsFed`).  It is about the
two programs on a public chain, where everything else is done by others; the other
programs' prices and capacities are their own, and not in `Prices` and `Capacities`.

The last two are about the other half, the scripts that have a validator to themselves, for
any number of updates and repetitions and in whatever slots their steps fall.
First the lists of steps are read entry by entry: the k-th step is one of a dozen kinds
(`ScriptedStep`), every update comes after a wait, and the updates before step k
are counted (`SentBefore`; `StepOfE2e`, `StepOfBenchmark`).  `ScriptInvariant` then follows
a script that nothing has stopped.  `ScriptWaits` says that a wait leaves the last update
behind, *two waits leave two slots*, which is what the stale query of `e2e-test.ts` needs
and one wait does not give.  `ScriptChain` says that the ring is fed once per slot at most, so
that the n-th newest observation is at least n - 1 slots old and a window of
five slots always reaches one of six; and that the accumulator stays below 110 times
the slot, and so fits.  The prices of a script are within 10% of each other
(`ScriptUpdatePasses`), 200 is not (`ScriptJumpIsRefused`).  `ScriptNotes` and `ScriptReads`
say that what was read is what the chain still holds.  With the default staleness a query can
then only fail for its age (`E2eAnswer`, `BenchmarkAnswer`).

**`PriceAggregationProofs`** (amounts are at most the scale, Infinity is larger than
twice every price, at least one source is required):

| theorem | statement |
| --- | --- |
| `AggregationIsTyped` | `Spec => []AggregationTypeOK`: a submitted price is finite |
| `TornReadsDoNotDecide` | `Spec => []TornReadsAreContained`: a minority of torn reads does not choose the price |
| `InfinityNeedsNoMajority` | `Spec => []InfinityIsOutvoted`: NaN comparisons do not let an infinite price past two finite ones |
| `AgreementSuffices` | `Spec => []AgreementIsSubmitted`: neither filter rejects what the other would accept |

`RunInvariant` says that the outcome is `Aggregate` of the answers, and that none is still
to come; the rest is about `Aggregate`.  The median is the mean of two prices, with fewer than
a majority of the answers below either and a majority not above the second (`MedianOK`), and
no price is further from it than the spread (`NearMedian`); `KeptOK` says what the filter
keeps.  Each price that was kept is then near the submitted one (`SubmittedIsNear`), and as
`MIN_SOURCES` were kept one of them is not torn.  A population that agrees loses
nobody to the filter, so that both medians are the same (`AgreedAreKept`).  A median of
zero or Infinity lets everything through, and these cases need a fact about the sources: only
Raydium's pools, which are not refused for being empty, can be priced at zero or Infinity
(`PriceOfOK`).

**`UpdaterBotProofs`** (a finite set of pairs, at least one attempt, records of slots
0 or 1 at first):

| theorem | statement |
| --- | --- |
| `BotIsTyped` | `Spec => []BotTypeOK`: no run sends more than `MAX_RETRIES` transactions, the file holds counters or does not parse |
| `RecordsFollowUpdates` | `Spec => RecordedSlotFollowsItsUpdate`: what a run records as its pair's last update slot is at or after the slot in which that run's own transaction landed |
| `AlertsKeepTheirDistance` | `Spec => []AlertsAreRateLimited` |
| `RestartsKeepMetrics` | `Spec => MetricsSurviveRestart`: a restart loses at most one record per failed write, unless the file does not parse |
| `ConfirmedSendNoMore` | `Spec => ConfirmedIsNotResent` |
| `RunsCountOnce` | `Spec => []RunsAreCountedOnce`: a run is counted at most once, under what became of it, and exactly once until the first restart or failed write |

Five invariants carry the first five.  `RunsOK` bounds the attempts of a run in each phase.
`MetricsOK` says of the counters that the file, which a restart makes the counters, lags behind
them by at most one record per failed write.  `RunsFollow` says that a run which asks for
its slot has a transaction of its own that landed, and that one about to record holds a
slot not older: without it the record of a run is only as good as its local variable.
`AlertBooks` adds that a process which is not limited has one charge fewer than expiries
and starts allow.  `ConfirmedOK` says that a confirmed run is past every phase that sends.

The proof of `RunsCountOnce` keeps a `Tally` of the runs that ended in each way beside the counters.
`CountsOK` says that the counters in memory, *and those in the file*, are ahead of the tally
by no more than the failed writes, and equal to it before the first restart or failed
write.  Failures need a second invariant: `tick` counts them one after another when
all its updates have settled, so that a process that dies in between has counted some
of them only.  `PhasesOK` (runs begin with their tick's updates, and the tick waits
for them) is what makes a rejected run one of those that its tick's end takes, once.

**`WsBroadcastProofs`** (texts parse to texts or to nothing, limits are natural numbers):

| theorem | statement |
| --- | --- |
| `ServiceKeepsLimits` | `Spec => []WsTypeOK`: the limits of connections and of subscriptions hold |
| `PricesAreFresh` | `Spec => PricesAreOfThePoll`: what a poll sends is not older than the poll |
| `OlderNeedsOverlap` | `Spec => OlderOnlyOnOverlap`: a price older than one already sent comes only from a poll that overlapped with another |

`PollsOK` says that whatever a poll has read and stored was current at some moment
since it began, and a step sends nothing or what one poll has stored (`PricesAreItsOwn`).
`OverlapOK` says that a poll which was always alone began after everything that was sent,
and that polls in flight together know of each other, whichever came first: what was sent
is then older than what such a poll reads.

**`EventIndexerProofs`** (a transaction updates an oracle at most once; other programs log in
it what they like):

| theorem | statement |
| --- | --- |
| `TableIsSound` | `Spec => []RowsAreOfConfirmedLogs`: every row is a line of a successful transaction, and an update that took effect unless another program logged it; an oracle has one row for a slot; and rows that are all updates pass the verifier's checks of the table alone |
| `DeliveredIsNotLost` | `Spec => []DeliveredIsStored`: an update that was delivered is stored, about to be, or kept out by a row of another program's line in its place, unless a write failed |
| `IndexerIsTyped` | `Spec => []IndexerTypeOK` |
| `BucketsArePartition` | `Spec => []BucketsPartitionRows`: for every interval and limit the buckets hold each row from the oldest one's start on exactly once |
| `RewardsAreEarned` | `Spec => []RewardsAreOfNewestUpdates`: nobody is paid for more than the updates that took effect and the rows other programs made in that name, and a table of the updates and nothing else pays the newest ones |
| `MismatchMeansGap` | `Spec => []VerifierBlamesGaps`: `verify-indexer` reports a mismatch only of a table that misses an update or has a row that is none, or when chain or table moved |

`UpdatesOK` says that the updates of an oracle have increasing slots and accumulators
that do not decrease, `LogsOK` that the program's own lines in a successful transaction are
updates that took effect, of the transaction's slot.  Lines of other programs can say anything, so
that `InsertsOK` and `RowsOK` trace each pending event and each row to a line and no further.
An insert that changes nothing has been refused by one of the unique indexes; either way
the table then has a row for the event's oracle and slot (`Taken`), and this row is the
update itself or one that another program made (`TakenPlace`), as the own update of an oracle
in a slot is unique (`SlotsDiffer`).

The last three are about what is computed from the rows, and need of the table only that
an oracle has one row for a slot.  Buckets are stretches of slots of one length, so that rows fall into one
each (`BucketBounds`) and the newest `limit` of them hold all rows from the oldest one's start
on (`NewestBucketsHold`); `SumOfParts` adds up their counts.  The rewards need that rows
are ranked as the updates are (`RankOfRow`): in a complete table the newest rows are the
newest updates (`NewestRowsAre`), and whoever made them is counted alike from either.  `CheckOK` says that what a
run of the verifier has read is still so unless something moved; its average is then compared
with the program's, the first from the rows and the second from a buffer that can hold fewer
(`AveragesAgree`).

Only model-checked:

* `OnlyAWedgeStopsUpdates`, `RewardNeverBlocksUpdate`: about `ENABLED`, of which the
  provers know nothing; their substance is `RepeatsAreAdmitted`.
* `TicksEnd`, `OneSubscriberHears`, `UpdatesReachTheTable`: liveness under fairness.

## 5. Findings

Each is a run that TLC ends with a counterexample.

| run | what the repository says | what the code does |
| --- | --- | --- |
| `empty_shrink` | `resize_buffer` can "grow or shrink" the ring (README.md:47) | a ring without observations cannot be shrunk: the account gets shorter and the array does not (`resize_buffer.rs:42`) |
| `sdk_negative` | the SDK computes "like get_swap does" (`client.ts:298`) | its three reads can be of different moments, and with a staleness limit beyond the window the answer can be negative |
| `reward_recipient` | `update_price` is to "auto-pay the previous updater", into the "token account of the *previous* updater" (`update_price.rs:29`, `:49`) | it pays into the account it is passed, whose owner nothing compares with `last_updater` (`update_price.rs:120`); the event names the previous updater all the same |
| `history` | `getOracleUpdates` fetches the events "for a given oracle address" (`client.ts:370`) | it returns the events of other oracles that are updated in the same transaction (`client.ts:391`); it does not look at `tx.meta.err` either, so those of failed transactions too, which the trace does not need |

What holds is as informative.  With the *default* staleness the SDK's torn reads are
harmless unless the slot is older than the oracle account: the staleness limit
happens to keep newer observations out of the interval (`DefaultAnswersAreAverages`).
An owner that proposed a successor cannot take the proposal back, only replace
it (`ProposalEndsInAcceptance`).  The NaN comparisons of the aggregation let
everything through, and still no infinite price gets past two finite ones
(`InfinityIsOutvoted`).  Events delivered again after a restart leave the table as it
was (`RowsAreOfConfirmedLogs`).

### Divergences

Places where the code and the words about it differ, too plain to need a run; the
modules follow the code.

* The deviation check is skipped "when last_price is zero (first update)"
  (`update_price.rs:71`); it is skipped after every update to price zero.
* Pausing "blocks updates and queries" (README.md:46); `computeSwapFromChain`
  (`client.ts:323`), and with it the services, answer from a paused oracle.
* `updates_failed_total` counts "tx errors" (`bots/updater/RUNBOOK.md:50`); an update
  that was confirmed counts as failed when the `getSlot` after it fails.
* Alerts fire when *any* oracle was not updated in >100 slots
  (`bots/updater/RUNBOOK.md:101`); a pair without a recorded update is never stale
  (`index.ts:205`), and an update by anyone else is not recorded.  An alert that fails to
  send suppresses the next ones for five minutes (`alerts.ts:10`).
* A pair's `lastUpdateSlot` can go back: of two overlapping ticks the one that records last
  need not have landed last.
* A client "unsubscribes and stops receiving" (`api/__tests__/ws.test.ts:180`); `subscribe`
  stores the parsed window (`ws.ts:97`) and `unsubscribe` deletes the window as it was sent
  (`ws.ts:103`), so that one who sends "50 slots" to both keeps receiving.
* Messages that are not valid are answered with an error (`ws.ts:61-107`); `null` is valid
  JSON and ends the process (`ws.ts:69`).
* An older price can be sent after a newer one when a poll takes longer than the poll
  interval (`ws.ts:111`); nothing in a result tells the client.
* `index-events.ts:3` "Streams OracleUpdate events"; it and `getOracleUpdates` decode
  any "Program data:" line that has the discriminator, of any program that runs in a
  transaction which mentions this one (`client.ts:404-443`, `index-events.ts:139-145`).
  Such lines become rows, `calculate-rewards` pays for them, `verify-indexer` compares with
  them, and one can keep a real update of that oracle and slot out of the table.
* README.md:51 and :105 document `claim_reward` and `client.claimReward`; neither exists:
  rewards are paid by the next `update_price`.
* `verify-indexer.ts:11` says that the row count "matches expected update count"; only an
  empty table fails that check.  Line 12 says "no gaps"; a missing row passes
  it.
* `e2e-test.ts:247` prints "All checks passed" whatever `fail()` printed before.
* `e2e-test.ts:162` and `cli.ts:215` print `observations.length` as the number of
  observations; the array has `capacity` entries from the start.
* `slotsSinceUpdate` of `/price` (`price.ts:30`) is negative when the slot was read
  before the account.

## 6. Not modelled

* The deployment of the program (`deploy-devnet.ts` calls a shell command),
  `migrations/deploy.ts`, which is empty, and what scripts measure and print.
* `validate-pool-offsets.ts` and `test-pool-parsing.ts` compare fixed byte offsets with
  live accounts: without the accounts there is nothing to say about them.
* The Prometheus endpoint and `/health`, which report a number each.
* The SDK's other transaction builders, one call each of an instruction that
  `TwapOracle` has as an action; PDA derivation; the decoders of reward events.
* Several oracles in `TwapOracle`: an instruction touches the accounts of one pair.
  `EventIndexer` has several, as far as their events go.
* Time limits and hanging requests: the code has none.
* Tests and fuzz targets, read for what they assert.

## 7. Plan

Next theorems: that `GetOracleUpdates` misses no update among the transactions it looks
at, and bounds on how far an answer of the SDK with a longer staleness limit can be off.

Next models: the bot's transactions as `UpdatePrice` of `TwapOracle`, so that its
records are compared with the oracle account and other updaters compete with it.
