# Solana Wallet: specifications and proofs

TLA+ models of this repository's on-chain program, its backend and the pages of its wallet,
the TLC runs that check them, and TLAPS proofs about the program, the server, the wallet's
session and its pages.
`PROJECT.json` lists the runs, the source lines each definition stands for, the hazards the
properties are aimed at, and the disagreements between code and documentation that came up.

    tlc -config Program.cfg MCProgram.tla       # any run: module and cfg of PROJECT.json
    tlapm TimelockProofs.tla                    # the proofs of a module

## 1. The system

An Anchor program (`anchor/`), a Bun/Hono server (`server/`), a React wallet (`web/`)
and two shared packages. The wallet talks to the chain over RPC and to the server
over HTTP; the server has one funded key that mints test tokens and pays the fees of
claims.

| Component | State | Operations | What is hard | What makes it correct |
| --- | --- | --- | --- | --- |
| Timelocks, on-chain | one account and one vault per lock | create, withdraw, cancel | order of withdrawals, cancellation and donations; rounding; clock jumps; i64 range | solvent, conserving, never ahead of the schedule, nothing earned is taken back, can always be closed |
| Claim links, on-chain | one account (and a vault) per claim key | create, claim, refund, for SOL and tokens | donations before, during and after; rent; expiry against refund; reuse of a key | escrow never eaten into, exact settlement, nothing stranded |
| Pools, on-chain | two vaults, the LP supply, the fee | init, add, remove, swap | rounding, first deposit, donations and burns around it | never drained, share value never drops |
| Indexer, server | the announcements table and cursor (SQLite), a shared promise | refresh | awaits, concurrent refreshes, RPC failures, crashes | ordered, gapless behind the cursor, eventually complete |
| Faucet, server | the claims table, a set of addresses in flight | POST /faucet | awaits between check and use, lost confirmations, restarts | one claim per address per day, a quota per IP, marks released |
| Relay, server | none but the relayer's balance | policy, sign, send | transactions made by strangers, a stale balance | pays only for claims |
| Rate limiter, prices, NFT store, server | in-memory maps, a cache, files | hit, get, save | cleaning, shared refresh, check before await, crashes between two files | limits kept, an old price only after a failure, no half-saved entry |
| Wallet session, web | status, service, addresses; the encrypted vault | open, lock, unlock, create, reset, addAccount, auto-lock | every operation suspends; lock can come in between | locked means locked, addresses match accounts |
| Send, Swap, Locks, Links, Claim, Stealth and NFT pages, web | a form, the rows of a list, cached queries, handlers at work | check, build, send, confirm | stale lists and quotes, time-outs that hide a success, secrets that live in a variable, fees and deposits | receipts are true, checks suffice, nothing sent is lost sight of |
| Activity, web | none | a line per transaction | fees and deposits mixed with amounts | lines tell what was moved |

Interactions: pages build instructions for the program and wait for confirmations
over RPC; claims go through the relay, which calls the same program; stealth
payments emit announcements which the indexer copies and every wallet downloads;
the faucet mints over RPC. All on-chain instructions are atomic; everything else
suspends at each `await`, and other tasks run there.

## 2. Modules

On-chain, each instruction in full:

| Module | Stands for |
| --- | --- |
| `Vesting` | `vested_amount` of math.rs, with the overflow of its i64 differences |
| `Timelock` | the three timelock instructions, the clock, donations |
| `Grant` | what a timelock promises: an abstract specification without clock or arithmetic |
| `TimelockGrant` | the mapping under which `Timelock` implements `Grant` |
| `ClaimLinks` | the six claim-link instructions, the clock, donations of SOL and tokens |
| `Escrow` | what a claim link promises: an abstract specification without rents or clock |
| `LinkEscrow` | the mapping under which `ClaimLinks` implements `Escrow` |
| `AmmMath` | isqrt, swap_output, quote_add, quote_remove of math.rs |
| `Pool` | init_pool, add_liquidity, remove_liquidity, swap on one pair |
| `TimelockProofs`, `ClaimLinksProofs`, `PoolProofs` | theorems about these, for every value of the constants |

The server:

| Module | Stands for |
| --- | --- |
| `Indexer` | announcements.indexer.ts and its store, with RPC failures and crashes |
| `Faucet` | POST /faucet with its store, lost confirmations and crashes |
| `RateLimiter` | the sliding window in front of the routes |
| `PriceCache` | the SOL price with its shared refresh |
| `NftStore` | uploads of pictures and what is served of them, with crashes |
| `IndexerProofs`, `FaucetProofs`, `ServicesProofs` | theorems; the last is about the limiter, the prices and the pictures |

The wallet:

| Module | Stands for |
| --- | --- |
| `WalletSession` | the session of WalletContext.tsx with the vault and the account count, reloads included |
| `Instructions` | the client library: addresses, accounts and signers of every instruction the wallet sends |
| `Ledger` | the chain under the wallet: balances, token accounts, links, locks, a pool, NFTs; instructions as steps, transactions all or nothing |
| `PageKit` | what pages share: amounts read back, the list of assets, SOL wrapped as a token |
| `SendPage`, `SwapPage`, `LocksPage`, `LinksPage`, `ClaimPage`, `StealthPage`, `NftPage` | per page: the empty form, the checks of a press, the checks after an await, the transaction built, what its receipt promises; `ClaimPage` has the relay's policy too |
| `StealthKeys` | the key exchange of stealth payments over a small group |
| `Activity` | the history's reading of a transaction |
| `WalletSessionProofs`, `PagesProofs` | theorems; the latter is about the ledger, stealth payments and the pages |
| `Pages` | the state machine all pages are instances of |
| `MC...` | the instances TLC checks |

Definitions whose names end in a defect (`FrozenRunning`, `BusyNever`, `solLegWithRent`,
...) are faulty variants. They stand before the definition they would replace, and nothing
uses them: for each property `PROJECT.json` names a variant under which the property fails,
which shows that the property depends on that piece of the code.

### Timelock

A lock is named by its PDA seeds `<<sender, recipient, seed>>`. `open` is the set of
existing locks (the timelock account and its vault are created and closed in the same
instruction), `lock[k]` the account's fields, `vault[k]` its token balance,
`wallet[u]` the users' balances. `history[k]` is a history variable: the terms signed
at creation and every token that entered or left the vault since; no guard reads it.

`CreateTimelock`, `WithdrawTimelock` and `CancelTimelock` are the handlers in full:
constraints of the accounts structs and `require!`s are guards, the transfers and the
closing of accounts are effects. The arithmetic they share is in small operators
(`Owed`, `Finished`, `Payout`, `Refund`, `Frozen`) named after the code's locals.
`Tick` advances the clock by any distance; `Donate` is the token program's transfer to
a vault, which the code comments on (timelock.rs:119). An overflow in
`vested_amount` aborts the transaction (`overflow-checks = true` in anchor/Cargo.toml),
so `VestingAborts` is a negated guard.

Abstracted: account lists and signatures (only the sender can cancel, only the
recipient withdraw: each action is that of the right party), rent, the mint. One mint
stands for all, as `has_one = mint` ties each instruction to the mint of its lock. The
model does not have token accounts of a PDA that third parties create before the lock.

### Claim links

`link` is a function on the claim keys in use. `lamports[k]` is the balance of the PDA
of key k: rent, escrowed SOL, and donations, which may come before the link exists
(`init` then charges the payer less, `RentDue`) and after it is gone. `vaults[k]` is the
token vault; its rent goes in and out with the link and is counted in the history as
part of the link's lamports. Recipients are any user, the sender too (`Credit`). Fees
are left out: they are paid by whoever signs as fee payer, outside the program.

### Pools

Reserves are the vaults' balances, shares the supply of the LP mint plus the locked
minimum. `AddAccepts` and `SwapAccepts` are the checks of `quote_add` and `swap_output`,
checked arithmetic included; `U64`, `U128`, `FEE_DENOMINATOR` and `MINIMUM_LIQUIDITY`
are constants, so that small words make the checks bite. Slippage limits are arguments
of the instructions and evaluated in the state of the execution. `DonateA`, `DonateB`
and `BurnLp` are what the token program lets anyone do. A pool that gets a donation to one
vault before its first deposit stays closed (InsufficientLiquidity) until the other has one.
The square root is a recursive function, so that the module can be used in proofs.

### Indexer

Transactions are numbered in chain order; `chain[t]` is how many announcements
transaction t emitted (0 for a failed one). A run of `run()` is a record with the page
loop's local variables; its steps are `Refresh` (up to the first await), `ListPage`
(one page arrives), `StoreGroup` (the logs of a group arrive, `store.insert`) and
`SaveCursor` (`setCursor`, then the next group or the end). The last two follow each
other with no await in between, so no other task runs there (`Yielded`), but a crash
may: SQLite commits each on its own. `GiveUp` is every way in which a run ends early
(an exception in listSignatures, in getLogs, logs not yet available). `inflight` is the
shared promise.

### Faucet

A request is a task: `Admit` runs all checks up to the await of the balance,
`BalanceRead` marks the address (or answers 503), then the mint lands (`MintLands`) and
its confirmation is seen (`Confirm`) or not (`ConfirmFails`: time-out or RPC error;
the mint may still land, `LandsLate`), or fails (`MintFails`). `FaucetCrash` loses the
requests and the marks, not the table. The history variables `raced`, `crowded` and
`unrecorded` name the circumstances in which the documented limits do not hold; the
passing properties say that they hold otherwise. So the table keeps the limits across
restarts (faucet.store.ts:4) but for the mints a restart interrupts.

### Rate limiter, prices, NFT store

`RateLimiter!Hit` is the whole function: old hits are dropped, the caller is refused or
recorded, and the map is cleaned above `Crowd` callers. `PriceCache` keeps only the age of
the price: `Get` answers from the cache, or starts or joins a fetch; `Settle` ends it, and
everybody who waited reads the cache in the same turn. `NftStore` has an action per write:
the count is checked before the body is read (`Accept`), the picture is written before the
description, and `Stop` or a full disk (`SaveFails`) leaves the files as they are, cut off
ones too.

### Wallet session

A suspended operation is an entry of `task`: what it is, the await it waits at, and the
seed or index it keeps in local variables. `Start...` are the parts up to the first
await, guarded by the page that offers the operation (`Gate` in App.tsx shows one page
per status; the buttons of Unlock and Onboarding are disabled while theirs is running, those of
reset are not). The other actions are the parts after an await. A service is
identified by its seed. `Lock` stands for the button and for the timer. The history
variables `crossed` (a reset together with anything else, or an unlock together with a
creation) and `staleAdd` (an `addAccount` suspended while another one or an unlock began) name
the circumstances in which the code loses its invariants; `misread` is a vault that could
not be read when the page loaded, `unopened` a wallet just created whose addresses could not be
derived, `unstored` a count that was refused. localStorage may fail at every use, as its `catch`
blocks allow: `ReadCounts` is what is stored or 1, `CreateCount`, `AddEnd` and `ResetEnd` may
leave the count as it was. An added address is then shown and does not come back after a reload,
which `AddressesAreAccounts` names as its exception (`unstored`). A failed read of the vault
shows onboarding, and creating a wallet there replaces the stored one: `NeverOverwritten`
excludes such a page (`misread`), and no property stands against it, because nothing in the
repository promises otherwise. Two tabs at once are not modelled.

### The ledger and the client library

`Instructions` builds what the client library builds: a record with the program, the name,
the named accounts, the signers and the arguments. Addresses are sequences that spell out
what they are derived from, so that distinct derivations differ. `Ledger!Steps` turns an
instruction into the transfers, openings and closings its program performs, or a refusal;
`Transaction` charges the fee of every signature, asks for the signatures, runs the steps and refuses whoever
is left with less than the minimum balance. `Execute` refuses an instruction in which an account
its program wants signed has not signed (`SignerNames`), `Pay` and `MoveTokens` whatever is not a
number of units that is there, and an account is only opened at an address that a program derives
(`Derived`). `ClaimLinks`, `Timelock` and `Pool` model the
same instructions in all their states; `Ledger` says what a page can notice of them, in real
lamports, with rents and fees, which the others leave out.

### Pages

All pages are one machine. `cache` is what the queries last answered (the assets, and the
page's list), `form` what has been typed and picked, `job` the handler at work for the form and
for a row, `notice` what is shown for each, `sent` the transactions broadcast, `left` the
budget of presses and of outside events. A handler goes through the awaits of the code:

- `PressForm`, `PressRow`: the checks of the press, against the cache (`SendPressed`, ...);
- `Check`: what is read from the network then, and the checks on it (`SendChecked`, ...); the
  transaction is built (`Built`), or a review is shown, which `Confirm` or `Back` leave;
- `Submit`: the simulation before the broadcast, or the relay's policy and its own (`Refusal`);
- `Polled`: what confirmSignature returns: success, failure, or a minute without an answer.

Between any two of them the chain moves: `Land` and `Drop` decide about what was sent,
`SomebodyElse` is another person, or this wallet on another device, `Tick` the clock.
`AnswerLost` is a broadcast whose answer does not arrive, `CallFails` any call that throws.
`Refetch` refreshes either half of the cache on its own, at any time: intervals, invalidations
and focus all come down to it. `skew` is the browser's clock against the chain's.

Each sent transaction remembers whether it `kept` its receipt's promise when it landed and
whether the history `told` it right. `Reread` is a detail of the code that matters: the NFT page
reads its address field again when the review is confirmed, and the field stays open while the
review still awaits the balance.

What the pages leave out. One row is at work at a time, and one NFT is shown. Nothing is typed
while a form's handler works (`Claim.tsx:89` shows the field as it is then, not as it was sent).
The longer forms are filled in once, until cleared. Recipients may open token accounts but never
close them. A payment to a stealth address is one payment to a new address: more tokens at one
address than a sweep takes (spend.ts:56), and token accounts other than the associated one
(rpc.ts:62), do not occur. The acknowledgement of a swap's impact is not withdrawn when only the
pool or the slippage changes, as in the code. Busy buttons are given back by `finally` in every
handler; that they are in the end is not checked (see 4).

## 3. Runs

Passing runs (every behaviour within the bounds was explored):

| Run | Bounds | Shows |
| --- | --- | --- |
| `program` | one of the three parts per behaviour: one lock, amounts 1, 4, 5, schedules and clock over -1..3, donations by both users; one link key used repeatedly, both kinds, amounts 0..2, clock 0..2, rents 2 and 1; a pool of 2 users, 9 and 7 tokens, u64 of 4 bits and u128 of 8, fee 0 or 10%, locked minimum 1 | `Solvent`, `Accounted`, `NeverStranded`, `NeverAheadOfSchedule`, `EarnedNeverShrinks`, and the refinement `ImplementsGrant`; `NeverOverdrawn`, `NothingStranded`, `Settled`, and the refinement `ImplementsEscrow`; `NeverDrained`, `SharesBacked`, `ShareValueNeverDrops`, `RoundTripsNeverProfit` |
| `server` | one of the five services per behaviour: 5 transactions with up to 2 announcements, pages and groups of 2, 2 refreshes, 2 faults, the first transaction older than `since`; 3 faucet requests for 1 to 3 addresses, one IP with a quota of 2, a cooldown of 2 in 3 instants, 1 fault; 2 callers, 2 hits in a window of 3, cleaned above 1 caller; 2 requests, a price fresh for 2 instants; 3 uploads with a cap of 2 | `FeedInOrder`, `NoGapBehindCursor`, `CursorAdvances`, `EventuallyIndexed`; `OncePerAddressUnlessRaced`, `QuotaUnlessCrowded`, `EventuallyReleased`; `WindowHeld`, `RetryAfterExact`; `OldOnlyAfterFailure`, `EveryRequestAnswered`; `CapUnlessCrowded`, `NeverHalfServed` |
| `wallet_session` | 2 seeds, 3 suspended operations, 5 started in all, 1 reload; vault and account count may fail to be read and written | `KeysFollowStatus`, `SessionIsStored`, `AddressesAreAccounts`, `NeverOverwritten`, `EventuallyLocked` |
| `pages` | eight pages, each with two or more worlds of real rents and fees, 1 to 4 presses and 1 or 2 outside events, a clock 1 second off | `ReceiptsAreReal`, `PromisesKept`, `FreshFormsGoThrough`, `RowsAreGood`, `NothingLeftWrapped`, `RelayerOnlyPays`, `PaymentsFound`, `ActivityTells` |

Why the bounds are enough. Timelock: schedules of up to four seconds with one, four or five tokens have
every rounding pattern (exact, early, late), the clock may start before, inside or after
the schedule, and one lock is closed and created again within the instance; locks share
nothing but the clock and the wallets, which is why one suffices for the invariants
(and the proofs hold for any number). Claim links: one key sees both kinds in sequence
with leftovers of the earlier link. Indexer: five transactions span more than
one page and more than one group, with a short last group, and two faults allow a crash
during the recovery from a failure. Faucet: three requests for three
addresses are the least that can exceed a quota of two without repeating an address, and with
which a raced address and an unraced one coexist. Rate limiter: a window slides past a full
quota within the six instants, and the second caller triggers the cleaning of the first.
NFTs: three uploads exceed a cap of two. Pool: the words are small enough that
overflow checks reject some calls, and the reserves reach 1. Wallet session: five
operations suffice for unlock, add, reset, create and a further unlock in
one history, three suspended at a time.

Pages: the balances of the worlds lie on either side of what the forms keep back, so that each
check is passed and failed (0.006 SOL for a lock, 0.005 for a link or a swap, the minimum of an
account); amounts include one too much, one too little, and one the parser refuses. Lists hold
what each button is for: a lock to withdraw and one to cancel, each in SOL and in tokens; a link
about to expire; payments in SOL and tokens, to this wallet and to another. Two presses with one
event, or one press with two, give an attempt whose answer is lost and a second one after it, and
a stale list under a press. Exchange rates and fees are small, rents and network fees are the
real ones, which is what the checks compare. The group of `StealthKeys` has order 202 with a
cofactor of 2, and hashes without collisions on it, as 256-bit hashes are taken to be.

`FreshFormsGoThrough` excuses a remainder of SOL below the minimum balance of this wallet's own
account (the forms do not ask), a relayer without funds, and rows for which there is no SOL for
the fee (their buttons do not ask) or whose clock is ahead. `ActivityTells` excuses a swap made
while an account for wrapped SOL from elsewhere is open: buildSwap closes it, and its rent counts
as part of what was swapped. `RelayerOnlyPays` bounds what the wallet sends by the fee of two
signatures and a deposit, and what others hand to the relayer, in worlds with claims that somebody
else signs too, by the fee of `MaxSignatures`: 96 bytes of signature and address each, in the 1,232
bytes of a transaction.

`CHECK_DEADLOCK FALSE` is set where the model's own bounds end every behaviour: the clock
has a last instant, the chain a last transaction, a request is served once, the presses and
events of a page are used up.

Runs that fail, each on one statement of the documentation (details with quotations in
`PROJECT.json`, "findings"):

| Run | Statement | What the code does |
| --- | --- | --- |
| `timelock_any_time` | unlocked tokens can be withdrawn "any time" | a schedule spanning more than the largest i64 aborts between cliff and end |
| `timelock_cancel` | cancelling "pays the recipient what they have earned ... and closes the accounts" | while something is owed it stays in the open lock, frozen, until the recipient withdraws it |
| `indexer_lookback` | the cursor is the newest transaction "fully processed" | the look-back limit of a first run applies to every run |
| `faucet_limits` | one claim per address per 24 hours, at most 5 per IP per day | concurrent requests pass the checks before either is marked or recorded |
| `wallet_keys` | the seed phrase is in memory only while the wallet is unlocked | a reset overtaking an unlock leaves an open service behind the onboarding page |
| `use_max` | "Use max" fills in the balance | it is written with thousands separators, which the form's parser refuses |
| `claim_cost` | a relayed claim costs the relayer "about 0.00001 SOL" | a claim of tokens by somebody without an account for them also costs it that account's deposit |
| `stealth_fresh` | a payment can be withdrawn to a "fresh address" without SOL of one's own | what is left of the SOL is too little to open that address, and the page refuses |

## 4. Fairness

`Timelock`, `ClaimLinks` and `Pool` have none: users act when they like, and their
properties are safety properties. `IndexerFairness`: an RPC call ends, with an answer
or an error (withRetry makes at most five attempts), and the event loop runs what is
ready, hence weak fairness of each run's steps; `minIntervalMs` passes. Nothing in the
server calls refresh by itself, so `EventuallyIndexed` is conditional on wallets asking:
weak fairness of `Refresh` is its hypothesis. `FaucetFairness`: confirm polls at most
sixty times, so every started mint ends. `PriceFairness`: a fetch carries a timeout
(prices.service.ts), so it ends. `WalletSession!FairSpec`: awaited browser
calls settle, and the lock timer fires in the end (weak fairness of `Lock`: a user who
never leaves keeps the session open, which is not a failure). Faults are bounded (`MaxFaults`,
`MaxStops`): a failure that lasts for ever, such as logs that never become available, stops
the indexer, and the specification does not claim otherwise.

`Pages` has safety properties only. That every handler ends would need weak fairness of each of
its steps over states with whole ledgers, too large for TLC's liveness check.

## 5. Proofs

Eight modules of proofs cover every safety property of the runs `program`, `server` and
`wallet_session`, and four of the run `pages`: each holds for every value of the constants, under the
assumptions named in the module that declares them (bounds are natural numbers, words and windows
are positive, instants lie in the range of an i64), which TLC evaluates for each instance. None
of these properties is inductive, so each module begins with the invariant that is.

**`TimelockProofs`** starts with the vesting curve: `VestedBounds` (between nothing and the total)
and `VestedMonotone` (never decreasing in time), from two lemmas on integer division, argued by
the product that the quotient stands for. It goes on to every property of locks in the run and
beyond them the types, `Irrevocable` (a lock that cannot be cancelled returns nothing) and
`FrozenIsFinal` (after a cancellation only the last withdrawal changes anything). The invariant
`Inv` adds to `TimelockTypeOK`:

- `WellFormed`: start <= cliff <= end and withdrawn < total, for an open lock;
- `Covered`: the vault holds the remaining promise;
- `AsSigned` or `CutShort`: an open lock still has its signed terms, or it was cancelled and
  its total is at most what the signed schedule gives at its new end, which is in the past;
- `SafeOpen`: what was paid is what was counted, and lies below the signed schedule;
- `Balanced`: what went in equals what went out plus what is there;
- a closed lock has an empty vault and was paid no more than schedule and donations allow.

`CutShort` is the heart of it: without it a freeze could not be related to the signed
schedule, which the account no longer holds. The step `InvNext` has one lemma per action
(`CreateSafe`, `WithdrawSafe`, `CancelSafe`, `DonateSafe`, and the clock), with `Untouched`
for the locks an action leaves alone.

`Implements` is the refinement: every step of any number of locks is, read through the mapping of
`TimelockGrant`, a step of `Grant` or a stutter. The mapping reads what has vested even of closed
locks, so `GrantInv` adds to `Inv` that a closed account is blank and that an open one has not
paid out more than has vested. Each instruction then has its step of the abstract one, and clock is the abstract `Accrue`, of all locks together.

**`ClaimLinksProofs`** proves every property of links in the run, and that nothing leaves a
link for anybody but its sender after its expiry (`LateLinksGoHome`). `Settled` speaks of closed
links and says nothing about the open ones from which they come, so the invariant `Inv` adds
`SafeOpen` (an open link's history repeats its account's terms, nothing has been paid out of it
yet, and its PDA and vault cover the promise; the vault of a SOL link is empty) and `Balanced`.
`OpenedSafe` and `ClosedSafe` say what a creation must pay in and what a settlement must hand out
to keep a key safe; each instruction is then a matter of its amounts, and `Only(k)` with
`Untouched` settles all other keys. The action properties follow from `OpenStep`: a step keeps an
open link as it is, adds to it, or ends it (`HeldUntilSettled`). `Implements` is the refinement:
read through `LinkEscrow`, a creation is the abstract `Seal`, a claim `Redeem`, a refund `Reclaim`,
a donation `Gift`, and the clock `Lapse` of all boxes together. It has the users' balances in it,
so it says where every lamport and token of a step went. `Inv` is enough for it; `ClosedEmpties`
does the sums of a settlement, where recipient and sender may be the same.

**`PoolProofs`** proves all of the pool's properties, for every fee below 100%, every word size and every
positive locked minimum. The floored divisions of math.rs are used only through
`(n div d) * d <= n`: `SwapFacts`, `DepositFacts` and `RemoveFacts` turn the three quotes into
inequalities of products. `PerSquare` relates the product of the reserves to the square of the
shares for deposits and withdrawals, `ProductKept` for swaps, donations and burns. `Inv` is
`PoolTypeOK` with `NeverDrained`: a swap needs the reserves to be positive and leaves them so, and a
withdrawal leaves them so because the locked minimum counts among the shares. `SharesStayBacked`
needs one thing more, that a pool without a deposit has no shares (`Backed`): the shares of a
first deposit are the square root of its product, rounded down. That is `IsqrtIsRoot`, for every
number: above the root Newton's iteration descends and never passes it (`NewtonAbove`), so the
function that answers the root from anywhere above solves the loop's equation, which has no other
solution (`BabylonRoot`).

**`ServicesProofs`** has the three small services. The limiter: `Remembered` says that what it
keeps of a caller is the end of all it granted, and that what it dropped, or forgot with the
caller, has left the window; `WindowHeld` follows because the times are in order (`Sorted`).
`RetryAfterExact` comes down to which of the kept times are live at an instant (`CutAt`). The
prices: the cached price is as new as any that was given (`Newest`). The pictures: `InOrder` ties
the two files of an upload to its progress (a description starts only behind a whole picture),
which gives `NeverHalfServed`; `Roomy` counts an upload from its acceptance, so that the sum of
stored and running uploads stays within the cap while none overlap. `Stored` alone is not
inductive, for an accepted upload grows it later.

**`IndexerProofs`** proves `FeedInOrder`, `CursorAdvances` and, with a hypothesis,
`NoGapBehindCursor`, for any number of transactions, runs, failures and crashes. A crash between
`insert` and `setCursor` leaves rows ahead of the cursor, and the next run starts before them. The
feed could be out of order if that run then stored something older than those rows. `Solid`
excludes it: whatever a run under way or a next one can still list, and which lies before some
row, has been stored already. It needs the exact extent of what a run has listed so far
(`Listing`, `Processing`), and that there is one run at a time (`OneRun`). The look-back limit is
the one way to leave a gap, as the run `indexer_lookback` shows. `NoGapWhileKeptUp` therefore
assumes that the chain is never further ahead of the cursor than a run lists (`KeptUp`), and
`NoGapUpToLookBack` that no more transactions land than that, which the `server` run satisfies.

**`FaucetProofs`** proves both limits. They are checked several awaits before the mint that uses
them, and the table learns of the mint later still. The invariant says what is known in between:
a request that is not raced or not crowded is alone with its address or IP (`Alone`), so what it
found is still so when its mint lands: the cooldown is over (`Cooled`) and the quota has room
(`Room`). `Recorded` relates the table to the mints, except those known to be unrecorded. The quota
is a statement about every window of a cooldown, so `Quota` speaks of all instants at once.

**`WalletSessionProofs`** proves the four safety properties for any number of operations, accounts
and reloads. `Sound` says of each suspended operation which others may be suspended with it, and
which of its local variables still agree with the vault, the session and the stored count; the
history variables `crossed` and `staleAdd` are exactly where it fails.

**`PagesProofs`** goes from the ledger up. Its first part is about transactions: `Run` and
`ExecuteAll` are recursive functions over the steps and the instructions, and by the least step
that goes wrong a transaction that succeeds has executed each of its instructions with success
(`LastExecuted`), and none of them, in success or failure, takes anything out of the feed
(`TransactionKeeps`, `Grows`).

The second part is the arithmetic of stealth payments for every group, hash, key and randomness:
an address made by the wallet passes the checks of a payer (`OwnAddressAccepted`), a payment to it
is found with exactly one key (`PaymentIsFound`), and whatever the scan accepts, made by anybody,
comes with the key of its address (`FoundKeysOpen`). The points a wallet handles are multiples of
the base point, and sums and products of those reduce modulo the order (`OfG`).

The third part is the machine of the pages. Its invariant `PagesInv` follows a transaction from
the button to the block, through every wait at which the world may move:

- `JobOK`: what a handler goes on with is one of the twelve kinds of terms (`TermsOK`); once it
  is to be sent, a payment has passed the check of its randomness (`ReadyOK`), and what has been
  built ends as its terms demand (`TxOK`): a transaction that moves SOL as a token with the
  closing of the wrapped account, a payment with the announcement of that very payment;
- `SentOK`: the same of everything broadcast, and a payment that succeeded is in the feed;
- `NoticeOK`: receipts and failures point at transactions with that status;
- `CacheOK`, `FormOK`: rows offered are this wallet's own locks, and a swap is between two
  different assets, one of which is SOL: this is what makes `TxOK` true of what is built later.

Each action has its lemma (`PressKeeps`, `CheckKeeps`, ..., `LandKeeps`). From it follow
`ReceiptsHold`, `PagesUnwrap` (only `Land` makes a success, `OnlyLandingSucceeds`, and what
succeeds has executed its last instruction, the closing) and `PaymentsAreFound`, which joins the
three parts: signed as built, landed whole, announced, kept in the feed, downloaded, and recognised.
It assumes `FeedLimit` announcements at most, as the property says, and of the constants:
`StealthAssumption` and `GroupAssumption` (hashes are total; the order is a prime that does not
divide the cofactor, as in Ed25519), `AddressAssumption` (base58 is one-to-one),
`KeysAssumption` (keys come from seeds) and `PagesAssumption` (a behaviour starts from a ledger in
which nobody owes lamports and what programs keep lies at addresses they derive).

The last part is about the relayer's money (`RelayerPaysClaims`), which two things could reach: a
transaction it signs, and one it does not. `Costs(L, M, n)` says that a ledger `M` is one that
has become of `L` at the cost of at most `n` lamports to the relayer, and is composed step by step
(`CostsTrans`), since a later instruction could take what an earlier one left. An instruction that
the relayer has not signed takes nothing from it: whatever pays in it has signed
(`SignedByOthers`), or lies at a derived address, which is no key's (`Funded`, `AllStepsAside`). A
claim takes nothing from it, signed or not (`SettleLinkAside`), and an opening one deposit
(`OpeningCosts`). The fee is one of every signature (`FeeIs`): of what the relayer is handed by
anybody, as many as a transaction has room for, which is all that the policy bounds
(`MaxSignatures`); of what the wallet builds, two, since nobody but the payer and a link's key
signs it (`SignersOK`, a part of `TxOK`). `RelayInv` adds that what is broadcast with the relayer as its payer or signer
has passed `checkRelayTransaction` when it was submitted; that is what remains of the check when
the transaction lands, in whatever order and upon whatever ledger.

Only model-checked, and why:

- `PromisesKept`, `FreshFormsGoThrough`, `RowsAreGood` and `ActivityTells` compare fixed reserves
  and margins with real rents and fees, and depend on what the world around the page holds: they
  are true of those values and of worlds like those of `MCPages`, not of every constant;
- all liveness (`EventuallyIndexed`, `EventuallyReleased`, `EveryRequestAnswered`,
  `EventuallyLocked`): the prover does not support fairness or ENABLED.

Induction over data is done where it was needed by least elements (`LeastNat`, from the
library's theorem that every nonempty set of numbers has one), which suffices for recursive
functions such as `isqrt` and `OnlyLive`.

## 6. Plan

What would add most next, in this order:

1. `Ledger`: that no step of a transaction creates money (that none makes a balance negative is
   part of the proof of `RelayerPaysClaims`).
2. A refinement between `Ledger` and `Timelock` or `ClaimLinks`: that the steps of an
   instruction are those of the full model.
3. An abstract feed for `Indexer` (an append-only copy of the chain's announcements), with its
   refinement and proof.

## 7. Not modelled

Cryptography (vault encryption, signatures, the curve itself), byte layouts of instructions
and accounts, wording and presentation, configuration and wiring, the scripts. WDK builds and
signs the transfers of the send page; it is external, as are the token, account and NFT programs,
modelled as far as the wallet uses them (the size of an NFT's account is an assumption,
`ASSET_BYTES`). RPC nodes are modelled as far as the code depends on them: answers late, lost or
failed, never wrong; a signature's status never goes back. Chain reorganisations are left out:
the code works at `confirmed` commitment throughout and handles none. The rate limiter and the
routes it guards are checked apart: a refused request does nothing.

What the models show in passing, and no document denies: a mint of an NFT that fails leaves its
picture on the server; after a lost answer a second mint makes two NFTs; the history names a
lock "Locked funds" and a claim "Claimed a link" for both parties, whichever way the money went
for them; the pages of swaps, locks and links keep fixed reserves in lamports, which include rent
deposits, although config.ts:8 asks that rent never be hard-coded.
