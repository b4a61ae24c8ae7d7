# Verification of the Meteora launch scaffold

TLA+ models of `meteora-fun-launch-scaffold`: the *studio* (a TypeScript command line that
launches and operates Solana pools, `src/studio`) and the *fun-launch* web app
(`src/scaffolds/fun-launch`). TLC checks each model on small instances; TLAPS proves
safety of the bundles, the commands that move liquidity, the DBC migration, the whitelists,
the single commands and the web app's two pages for every size. `PROJECT.json` lists components, runs, mutants, the
source lines of every definition, hazards, findings and theorems.

Both programs are clients of one thing they do not control: a chain on which a submitted
transaction lands, fails or expires in its own time, and an RPC node that may not tell.
Nearly everything hard here is of that kind: a bundle that stops half way, a confirmation
that is lost while the transaction is not, a command that is run again after a look at the
chain that was too early, a plan made from a snapshot that others have made stale.

Contents: [inventory](#inventory) - [modules](#modules-and-how-they-follow-the-code) -
[runs](#what-the-runs-show) - [bounds](#bounds) - [fairness](#fairness) -
[proofs](#what-is-proved) - [what does not hold](#where-the-code-and-its-documents-disagree)
- [not modelled](#not-modelled) - [plan](#plan).

## Inventory

The studio has no process of its own: a command reads accounts, builds transactions, sends
them, and ends. What it "keeps" is on chain, in the operator's config file, and for a
whitelist in a folder of proof files and a KV store. Commands interact through that state
only, with one another, with a second operator, and with keepers. The web app is a React
client: its state is that of its components, changed by handlers, effects and answers.

| component | state | operations | interacts with | hard behaviour | correct when |
|---|---|---|---|---|---|
| ordered bundles `studio/src/helpers/transaction.ts` | position in the bundle; what has landed | `sendOrderedTransactions` (dry run, live, abort report), `handleSendTxs` | called by zap and by the Alpha Vault's authority; RPC node | partial failure, late landing, dry run of dependent steps | effects reach the chain in order; the report can be acted on |
| single commands (`simulateOrSend` and its copies) | a queue of transactions | read, check, simulate or send, go on | every component below; RPC node | the chain moves between read and landing; lost confirmations | a command alone is refused only for what it leaves unchecked |
| zap `studio/src/lib/zap` | position, wallet, temporary accounts | zap in (DAMM v2, DLMM), zap out (both) | bundles, Jupiter, pools | re-run after an abort at any point, late landing, moving prices | one deposit; own tokens never sold; nothing left behind |
| DBC migration `studio/src/lib/dbc` | pool, metadata, locker, claim and lock flags | `migrateDammV1`, `migrateDammV2`, `transferPoolCreator` | keepers, other operators | snapshot made stale; two roles in one account; resume | success means everything migrated, claimed, locked |
| DBC pools `studio/src/lib/dbc` | configurations, pools, fees of two roles | create config, create pool, claim fees, swap | DBC program | a configuration made by the same run; transfer hooks | a pool announced is there; both roles' fees are claimed |
| DLMM `studio/src/lib/dlmm` | pool, bin arrays, positions, deposits, limit orders | create pool, status, `seedLiquidityLfg`, single bin, place and cancel orders, claim fees, swap | DLMM program | concurrent sends with one shared failure; re-run; rounding to bins | stages in order; "finished" means seeded; orders hold what was asked |
| Alpha Vault creation `studio/src/lib/alpha_vault` | vault, roots by version, proof files, KV store, escrows | create vault, chunks, roots, proofs, upload; escrows by authority | KV service, participants | three stores updated one after another; edited whitelist; re-run; batches | everybody listed is served a proof that the chain accepts, or has an escrow |
| Alpha Vault participants `.../participant.ts` | escrow, phase of the vault | deposit, withdraw, claim and close, refund, `crankFill` | vault, cranks | phase changes between read and send; loops that read again | nothing left to fill or to close |
| DAMM v1, stake2earn | pool, LP locks, farm, stakes, requests to unstake | create pool and farm, lock; stake, claim, unstake, cancel, withdraw | pools, clock | shares with rounding; lock time | each wallet's share is locked |
| DAMM v2 positions | liquidity (free, vesting, locked), fees | create pools, split, claim, refresh, add, remove, close | pools, prices, clock | three transactions in one removal, fees appearing between | a removal leaves no empty position |
| presale vault | presale, escrow per registry, proceeds, fee | create by type; deposit, withdraw, claim, refund, close; creator's side | other buyers, clock | phases; caps of buyer and presale; sweeps | sweeps complete; checks cover the program's |
| fee sharing | vaults, owner of a position, fees | create, fund (wallet, DAMM v2, reward, DBC), transfer, claim | DAMM v2, DBC | who may sweep what into which vault | a claim leaves nothing due |
| lock, farming, dynamic vault | escrows; stakes and rewards; LP shares | create, metadata, claim; stake, unstake, claim, claim all; deposit, withdraw | programs, clock | vesting at boundaries; batches; native SOL and fees | vesting sound; every reward claimed |
| token creation and pool scripts `actions/*/create_pool` | mint, account, supply; pool; vault | token, then pool, then Alpha Vault, in one command | all of the above | a later step fails; dry run of dependent steps | success means pool and vault are there |
| launch page `CurveVisualizer`, `lib/send.ts`, `lib/dbc.ts` | step, result, error | Launch: config, then pool; preflight, wallet, confirmation | wallet, own RPC | RPC hiccup, rejection, lost confirmation, retry | what is shown is on chain; nothing launched unseen |
| trade page `pages/trade.tsx` | view, spinner, balances, busy flags | load, refresh, balances effect, swap, migrate, connect | RPC, wallet | answers out of order, cancelled effects, teardown by an error | balances belong to what is shown; no control stays disabled |
| data stream `DataStreamProvider` | socket, subscriptions, timers | connect, reconnect, subscribe | not mounted by any page | timers after unmount | - |
| command line, config, output; other pages and API routes | none | parse, prompt, print, render | - | - | - |

## Modules and how they follow the code

An action of a module stands for the stretch of code between two awaits: the handler up to
its next request, or the whole handler when nothing can intervene. A transaction is atomic,
as it is on chain. Programs, cluster, wallet, keepers and the operator are external: their
actions say what the code relies on, and what may go wrong.

| module | code | its state |
|---|---|---|
| `OrderedChain` | the contract of a bundle | `work`, `landed`, `verdict`, `late`: may one more step land? |
| `OrderedSend` | `sendOrderedTransactions` | `cur` is the loop index, `failures` the dry run's list, `report` the abort message |
| `OrderedSendProofs` | theorems about `OrderedSend` | |
| `ZapIn` | `zapInDammV2`, `zapInDlmm`, `build*ZapInSteps` | the bundle (an instance of `OrderedChain`), its steps and marks; positions, deposits, temporary accounts |
| `ZapOut` | `zapOutDammV2`, `zapOutDlmm` | the bundle; per chunk what removal frees; wallet; the built swap instruction (`plan`) |
| `DbcMigration` | `migrateDammV1`, `migrateDammV2`, `transferPoolCreator` | the accounts on chain; per operator the snapshot and the queue of transactions |
| `SeedLiquidity` | `seedLiquidityLfg` | the stage, the confirmations awaited, what is in flight |
| `Liquidity` | `ZapIn`, `ZapOut` and `SeedLiquidity` next to each other | `command` and the variables of the one it names |
| `LiquidityProofs` | theorems about `Liquidity` | |
| `DbcMigrationProofs` | theorems about `DbcMigration` | |
| `MerkleTree` | `merkle_tree.ts`, `balance_tree.ts` | none: operators |
| `AlphaVaultWhitelist` | `createPermissionedAlphaVaultWithMerkleProof`, `createMerkleProofMetadata`, `uploadProof` | file, chain, folder, KV store |
| `AlphaVaultWhitelistProofs` | theorems about `AlphaVaultWhitelist` | |
| `Launch` | `handleLaunch`, `sendWithPreflight` | attempt, stage, place in the preflight; wallet and chain |
| `TradePage` | `pages/trade.tsx` | the React state; requests and fetches in progress |
| `FunLaunch`, `FunLaunchProofs` | `Launch` and `TradePage` next to each other, and theorems about them | `page` and the variables of the one it names |
| `Submission` | `simulateOrSend` and its copies, `createCheckedConnection` | `chain`, the command `cmd`, its `queue`, lost transactions `late`, `status` |
| `DammV1`, `Stake2Earn` | `lib/damm_v1`, `fromAllocationsToAmount` | `chain`: pool, LP, locks, farm; stake, requests by key, clock |
| `DammV2Positions` | `lib/damm_v2/index.ts` | `chain`: positions with free, vesting, locked liquidity and fees; price |
| `Presale` | `lib/presale_vault` | `chain`: mode, whitelist, escrow per registry, total, what the creator took |
| `FeeSharing` | `lib/fee_sharing` | `chain`: whether the shared token is SOL, vaults with shares, who owns the position, whom the DBC pool pays |
| `AlphaVault` | open and authority vaults, `handleSendTxs`, `participant.ts` | `chain`: phase, escrows served, the wallet's escrow, fills |
| `DbcPool` | `createDbcConfig`, `createDbcPool`, `claimTradingFee` | `chain`: configurations with hooks, pools with two roles' fees |
| `Dlmm` | `lib/dlmm/index.ts` without `seedLiquidityLfg`, `set_pool_status` | `chain`: pool, orders, positions with fees |
| `Farming`, `DynamicVault`, `Lock` | `lib/farming`, `lib/dynamic_vault`, `lib/lock` | `chain`: stakes and rewards; LP and its price; escrows with schedules, claimed or cancelled |
| `Trading` | the four `swap` commands | `chain`: rate, funds, worst slippage so far |
| `PoolScripts` | `actions/*/create_pool*`, `create_alpha_vault`, `helpers/token.ts` | `chain`: mints with account and supply, pools, vaults |
| `StudioCommands` | the thirteen modules above next to each other | `component` and the variables of `Submission` |
| `StudioPartsProofs`, `StudioCommandsProofs`, `StudioOutcomeProofs` | theorems about `StudioCommands`: what all components share and eight of them; the others; what success means | |

*The single commands.* Most of the studio's commands have one shape: read the chain, check,
build transactions, simulate or send them one after the other, sometimes read again and send
more. `Submission` is that shape. A command of a component is an action that passes its
checks and its transactions to `Command` (`Resume` when it goes on after a second read);
`Land`, `Simulate`, `Refuse` and `Lose` are what becomes of a transaction, `LandsLate` one
that was given up, `World` everybody else. What the program accepts and does is the
component's external pair `Accepts` and `Effect`; `cmd` remembers what a property needs of
the moment the command began. `Unready` stands for a missing block of the configuration, an
unfunded wallet, an RPC error: it can be any command. The number of a run stands for the
keypairs it generates. `PoolScripts` composes the pool creations, `helpers/token.ts` and the
Alpha Vault as the code does: one run, resumed after each step.

*Composition.* `OrderedSend` is shown (and proved) to implement `OrderedChain`. `ZapIn` and
`ZapOut` then compose with `OrderedChain`, not with `OrderedSend`: the bundle's steps are
given a meaning by its `Land` action, and an abandoned bundle may leave one transaction, the
one awaited, which becomes a *ghost* that lands or expires during a later run.
`AlphaVaultWhitelist` takes from `MerkleTree` two facts, checked in the same run
(`TreesDecide`): a root tells exactly which entries it commits to, and a proof is accepted
for its own entry only. That is why a root is a set of entries there. `Liquidity`,
`FunLaunch` and `StudioCommands` hold several modules as instances: a behaviour is one of
the component that `command`, `page` or `component` names, chosen in the initial state. These
components do not share state in the code either; those that do are one module.

*Data that is abstracted.* A step of a bundle is a position with four facts (empty, deferred,
what it needs, whether the program rejects it). A hash is what was hashed (sha256 taken to be
injective) and entries are numbered in the order of their hashes. Amounts are small integers.
Quotes, slippage, compute budgets, priority fees, instruction contents, messages and
formatting are left out; the abort message of a bundle is kept, because operators act on it.

*External choices.* Preconditions of program instructions are those the code's own order and
checks rely on. The lock program is one more: from when it counts the periods of a vesting
schedule, the start or the cliff, the repository says both ways
(`studio/config/lock_config.jsonc:22` and `:24-27`), so a behaviour of `Lock` has one of the
two (`fromCliff`), and what the program releases (`Released`) is a definition apart from what
a status shows (`Vested`). It is also taken to refuse claims of an escrow that was cancelled,
which the studio does not look at. Whether the SDK leaves out groups that exist already when seeding is re-run
is not visible in `src/`; both answers are explored.

Operators after a *Variant* comment are what plausible bugs would look like (a dropped check,
a forgotten last batch, a position closed before its fees are claimed); a property that is
listed with one fails when the definition is replaced by it.

## What the runs show

| run | shows |
|---|---|
| `ordered_send` | Every bundle of three steps with every choice of empty, deferred and dependent steps; dry run, then live. Whatever is refused, lost, late or killed: steps on chain form a prefix (`LandedInOrder`); the steps an abort names as unsent cannot land, and those before the failed one have (`ReportUsable`); a dry run blames only steps at fault when marks are complete (`NoFalseAlarm`), and a clean one excludes program failures (`CleanDryRunHolds`); the call ends; it implements `OrderedChain`. |
| `liquidity` | *Zap-out* of one and two transactions, aborted and re-run, with late transactions and price moves: tokens the wallet held before are never sold (`OwnTokensKept`); what was freed is converted unless a bundle was cut between its transactions (`FreedIsConverted`); re-running empties the position (`WithdrawalConverges`). *Zap-in*, all shapes of both protocols, three runs: with an operator who lets the last blockhash expire before looking, one deposit and one position (`OneDeposit`) and no temporary account after a complete run (`CompleteIsClean`); with any operator the deposit never meets a missing ledger or position (`DepositReady`). *Seeding*, two position groups, two deposits, two runs, two faults: stages and deposits in order on chain even across runs (`SeedInOrder`), done means seeded, runs end. |
| `dbc_migration` | Every pool set-up (version, vesting, who may claim and lock), dry and live runs, keeper, a transfer of the creator role, two faults. "Migrated" means complete (`DoneMeansComplete`), an undisturbed run is never refused (`LoneRunNeverRefused`), re-running gets there (`Converges`). |
| `fun_launch` | *Launch*: three clicks, five wallet balances, two RPC faults. What is shown as launched is on chain (`ResultIsLaunched`); a pool nobody was shown needs a network fault (`UnshownPoolNeedsFault`); attempts end. *Trade page*: two mints, two wallets, loads, ticks, trades, switches and answers in any order. Balances settle on what is shown (`BalancesSettle`); no control stays disabled (`ControlsReleased`). |
| `whitelist` | Four whitelists with duplicates in and across chunks, two edits, two faults, one dry run. An unedited list is never contradicted (`ServedNotContradicted`), a finished run serves everybody (`DoneServesAll`), re-running gets there (`EverybodyServed`), a new root goes with the files of its run (`RootMatchesFolder`); and for 176 lists of up to six entries, proofs and roots decide who is listed (`TreesDecide`). |
| `studio_commands` | Thirteen components, every sequence of two or three commands, dry or live, with one lost transaction. `LoneRunNeverRefused` and `OkMeansDone` are explained below. LP locks follow the shares up to rounding and sum to the balance (`LockedByShare`); what a status shows as vested is nothing before the cliff, never falls, is everything in the end and fixed by a cancellation, and is never less than the recipient has got already (`VestingSound`); a limit order holds the whole amount at no worse a price (`OrdersAsAsked`); no swap, however late, brings less than its quote less the slippage (`SlippageBounded`). |

`LoneRunNeverRefused` says that a command's checks, and the order of its transactions, cover
what the program asks for: if nobody else moved the chain since the command read it, the
program refuses nothing. It fails when a check is dropped, by a step that needs what
an earlier one has not done yet, and by a second transaction built from a stale read. Each
component states its exceptions, which are a list of what the code leaves to the program:

| component | refused although alone |
|---|---|
| DAMM v1, DAMM v2, DLMM, Alpha Vault | creating what is there already; a farm whose pool does not exist |
| Alpha Vault by authority | a re-run after some escrows were created: all of them are built again |
| farming | `claimAll` over a farm in which the wallet never staked: rewards are looked for, not accounts |
| dynamic vault | a deposit of native SOL that leaves less than the fee |
| lock | a second set of metadata, a claim of an escrow that was cancelled |
| presale | a first deposit beyond what the presale can still take, or without the quote tokens |
| DAMM v2 positions | a split of nothing, an `add` without tokens, a `remove` while liquidity still vests |
| fee sharing | `fundFromDbc` for a pool that pays another vault; a `fund` with native SOL that leaves less than fee and rent (`fee_sharing/index.ts:218-229` compares the balance with the amount alone) |
| Alpha Vault participants | a deposit without the quote tokens |
| DBC pools | a mint that has its pool, a hook or configuration the operator stated wrongly |
| swaps | a wallet that cannot pay (and, with DBC, has no SOL) |
| pool scripts | a keypair file that has its mint already, a pool that is there, another pool type for the vault, a dry run that creates a vault on the pool it only simulated |

`OkMeansDone` says what "success" of a command of several transactions means: every batch of
`claimAll` and of an authority's escrows, every order of a cancellation, every escrow of a
sweep, both roles' fees, the creator's fee after the proceeds, the claim and closing after a
removal, and the Alpha Vault after the pool.

Six more runs exhibit disagreements, see [below](#where-the-code-and-its-documents-disagree).

### Bounds

Every bound is a CONSTANT of its module and appears in a guard.

- *Three steps* (`N = 3`) give a failing step with a predecessor and a successor, and room
  for an empty step between two others. The proofs cover every N.
- *Two chunks* in a zap-out: an abort can fall before, between and after. One token
  held, at most one freed on each side of a chunk and two price moves tell "own", "freed" and
  "swapped" apart, and make either side of a chunk come and go.
- *Three runs, one or two swaps* in a zap-in: an abort, a re-run that is aborted, a third
  that completes, each with the other's ghost.
- *Two faults*: one to cause a re-run and one in it. *One transfer*, *one keeper* (which may
  land every migration transaction at any time and so stands for any number of other live
  operators; two operators together were also checked, 1.4 million states).
- *Single commands*: two or three commands and one lost transaction at a time, so that a
  command runs on what another left behind, with the ghost of a third. The inputs of each
  component stand in `MCStudioCommands`: allocation lists with exact, uneven and vanishing
  shares; schedules with the cliff at and after the start, no periods and no frequency; prices
  on and between bins, two in one bin, one bin too many; batches that are full, partial and
  missing; presales of every mode and whitelist, with a time before, in and after the sale.
- *Two mints, two wallets*: a switch away and back. Budgets of one or two per kind of event
  let any two kinds race.
- *Chunks of three, lists of two to four entries*: a full, a partial and a missing last
  chunk; a wallet twice in one chunk and once in each of two. Trees up to six leaves have
  two odd layers on a path.

### Fairness

Each liveness property names what it assumes and no more:

- the *program's own steps* (`Progress`, `Page`, `Client`, `Step`, `Run`) are weakly fair: nothing
  but the operator or a fault stops a process that has something to do, and both are
  bounded;
- the *chain* (`Chain`) is weakly fair: a transaction whose blockhash expires cannot stay
  undecided, so it lands or is dropped;
- on the *trade page*, RPC calls return (an answer or an error) and the interval ticks;
- where an *operator's patience* is the point (`Converges`, `WithdrawalConverges`,
  `EverybodyServed`), the operator runs the command again until it succeeds. That is what
  the documents ask for; nothing in the code does it.

`Liquidity` and `FunLaunch` state the same for their instances. The single commands need
no fairness: their properties are safety. No action that brings a fault, a click, a price move or a transfer is fair.

## What is proved

Checked by TLAPS to the last leaf, for every value of the constants. The only assumptions are
the `ASSUME`s about constants in the modules themselves (bounds are natural numbers, sets of
mints and wallets do not contain the value for "none", and the like), which TLC evaluates on
the runs. Of the single commands: amounts, fees, percentages and times are naturals, batches are
not empty, whitelists, registries and lists of farms are finite, and the bins that prices of limit orders
fall into have a highest one (`LastBin`). Names in the second column are also checked by the run of the module, on its small
instance.

| module | theorem: property | for every |
|---|---|---|
| `OrderedSendProofs` | `TypeCorrect`: `TypeOK`; `Ordered`: `LandedInOrder`; `ReportCorrect`: `ReportUsable`; `Implementation`: `Refines`; `NoAlarm`: `NoFalseAlarm`; `CleanDryRun`: `CleanDryRunHolds`; `SuccessCorrect`, `Invariance` | length of a bundle |
| `LiquidityProofs` | `LiquidityTypeCorrect`: `TypeOK`; `ZapInOneDeposit`, `ZapInDepositReady`, `ZapInCompleteIsClean`; `ZapOutOwnTokensKept`, `ZapOutFreedIsConverted`; `SeedingInOrder`: `SeedInOrder`; `SeedingDoneMeansSeeded`: `DoneMeansSeeded` | number of runs, swaps, removal transactions, amounts, price moves, positions, deposits, faults |
| `DbcMigrationProofs` | `DbcTypeCorrect`: `TypeOK`; `DbcDoneMeansComplete`; `DbcLoneRunNeverRefused` | number of operators, faults, transfers of the creator role |
| `AlphaVaultWhitelistProofs` | `WhitelistTypeCorrect`: `TypeOK`; `WhitelistServedNotContradicted`, `WhitelistDoneServesAll`; `WhitelistRootMatchesFolder`: `RootMatchesFolder` | length of the whitelists, size of a chunk, number of dry runs, edits and faults |
| `FunLaunchProofs` | `FunTypeCorrect`: `TypeOK`; `FunResultIsLaunched`, `FunUnshownPoolNeedsFault`, `FunBalancesSettle` | number of attempts, faults, loads, trades; set of mints, wallets, balances |
| `StudioPartsProofs`, `StudioCommandsProofs`, `StudioOutcomeProofs` | `LoneRuns`: `LoneRunNeverRefused`; `Outcomes`: `OkMeansDone`; `Slippages`: `SlippageBounded`; `Vestings`: `VestingSound`; `Locks`: `LockedByShare`; `Orders`: `OrdersAsAsked`; `SplitIsWhole`, `Runs` | number of commands, of transactions of one, of lost transactions; allocations, schedules, orders, whitelists, amounts, rates, what others do |

None of these properties is inductive. What makes each of them so:

*Ordered bundles.* That nothing lands out of order depends on what may be in flight. `IInv ==
TypeOK /\ ChainInv`, and `ChainInv` says that while the loop stands at `cur` every runnable
step before `cur` has landed, nothing after it was sent, at most `cur` is in flight, and it is
so only while it is awaited or after an abort or kill; after success everything has landed.
`Submit` sends `cur` only, and `ConfirmOk` moves on only once `cur` has landed. For the
refinement, `Land` maps to `OC!Land` (the next step is `cur`, by the invariant), the last
`ConfirmOk` to `Complete`, aborts and kills to `Stop` with `late` telling whether `cur` is
still in flight, a late `Drop` to `Settle`, and everything else, the dry run included, to a
stutter.

*Dry runs* (`DryInv`). A dry run sends nothing, so each simulation asks whether the step can be
executed on a chain without the bundle (`Alone`), and a step that stands this test can be
executed whatever has landed since. The loop accounts for every step it has passed: blamed,
left out, or it stands the test. Whatever the program rejects later does not.

*Zap-in* (`InInv`). `Shape` says how every bundle ends, whatever precedes: ledger account,
deposit, clean-up, each in a transaction of its own and in no other; `DammV2Shape` and
`DlmmShape` prove that the builders make only such bundles. What landed is a beginning of the
bundle (`OrderInv`). An earlier run's leftover never closes the accounts (`GhostInv`: a run
that got as far as its clean-up has deposited, so the operator does not start another), which
is why a late transaction cannot take the ledger away from the next run (`ReadyInv`). With a
patient operator nothing is left in flight at all, so deposits are this run's (`PatientInv`).

*Zap-out* (`OutInv`). The swap of a plan leaves in the wallet at least the balance it was
planned with. So it is enough that every plan that can still act, those of transactions in
flight included, was made with the wallet at or above `Held` (`PlanInv`). That everything
freed is converted needs an account of the tokens: of a command without faults, wallet plus
what the position still holds is `Held` plus what the plan asks to swap (`FirstInv`); with one
removal, every plan asks for exactly what the position holds (`SingleInv`). The content of a
position is the cardinality of the set of its tokens (`ZapOut!Tokens`), so that it can be
reasoned about with the theorems on finite sets: emptying a chunk takes its tokens out of the
sum (`SumRemove`), without induction.

*Seeding* (`SeedInv`). What was sent of a run is bounded by its stage (`InOrder`): a deposit
only after all positions exist and all earlier deposits landed. That a stage begins only when
everything the one before awaited has landed is in `StageInv` and `AddInv`; steps of the chain
preserve it because what lands is never undone.

*DBC migration* (`DbcInv`). A live run *loses nothing* (`Live`): what it has to bring about is
so already or still in its queue, whatever its snapshot said, because migrations, claims and
locks are never undone (`Grows`) and the bundle is built from a later read than the decision
to send it. Claims for one owner of both roles are one transaction, so the two shares are
taken together as long as the owner does not change (`Paired`); this is why the theorem
excepts transfers. A run that nobody interferes with has a queue *equal* to what a run that
started now would send (`Lone`), after each of its transactions (`SetupOrder`, `LpOrder`), and
the head of that is always applicable. Steps are proved in two groups: those of a run
(`Advance`) and those of everybody else (`Stay`).

*Whitelists* (`WhInv`). Files, roots, late roots and served proofs outlive the run that made
them. Each was made from the chunk of its version of some list that the file has held, and of
*the* list while it was never edited (`Made`); so two of one version cannot contradict each
other. A live run's versions are written up to where it stands (`Written`) and, once it
uploads, served up to there (`Given`); roots are never removed and the set of wallets that are
served (`Known`) only grows. That the chunks cover a list, the last one too
(`ChunksCover`), is arithmetic of quotient and remainder; that each wallet of a chunk has a
proof (`ProofsAre`) rests on the least element of a set of numbers, which the library's
`WellFoundedInduction` provides.

*Launch page* (`LaunchInv`). Before the wallet is asked for the pool's transaction, nothing of
the attempt can be on its way (`Fresh`); pools are created on configurations that exist
(`Based`); a pool that is not shown is accounted for by the attempt in progress or by a fault
(`Accounted`), also while its transaction is in flight.

*Trade page* (`TradeInv`). A fetch that has not been cancelled asks for what is shown
(`Current`): the effect cancels the last one in the same step that changes view or wallet. So
the last answer that counts is for what is shown (`Settled`).

*Single commands* (`StudioInv`). Of each component, what is pending and what the chain holds are of
their sets (`Typed`), and while nobody else moved the chain, what is pending is *accepted, the
first of it now and the others after it*. That the checks of a command give this when it
starts is one lemma per command; that a step of `Submission` keeps it is the point where the
components differ:

- `Stake2Earn`, `Lock`, `DynamicVault`, `FeeSharing`, `Trading` send one transaction, the one that was
  checked.
- `DammV1` sends a lock for each wallet of a list. What the list's locks find left is a falling
  sequence (`V1Within`), since the rounded shares of all but the last are no more than the LP
  tokens (`V1Shares`, over partial sums, `Sums`) and the last wallet gets the rest.
- `Presale` and `AlphaVault` send transactions of which the later do not mind the earlier
  (`SaleApart`, `AlphaApart`): escrows of different buyers, batches that share nobody, the fee
  after the proceeds.
- `Dlmm` cancels no order twice; a `Farming` claim leaves the wallet's accounts on farms alone.
- `DbcPool` and `PoolScripts` go on after a second read: what the next stage needs was made by the
  stage before (`DbcMade`, `ScriptReady`): the configuration with its hook, the token, the pool.
- `DammV2Positions` makes positions under fresh keys, its own and those of lost transactions
  (`PosFresh`), so a removal closes the position it emptied and only if it is empty.

A transaction that was refused was therefore refused by a chain that others moved, or was one
of the exceptions in the table [above](#what-the-runs-show). `SlippageBounded` and `VestingSound` are conjuncts
of the sets of chains (`SwapChain`, `Covered`), which also lost transactions and others' moves
keep; the arithmetic of quotients is in `Quotients` and `VestedFacts`. That a claim never exceeds what
is shown (`ReleasedFacts`) compares two counts: the periods over by the program's rule are, by
either, at most the whole periods since the start.

*Success* (`StudioDone`). While a command runs, *what it has still to do is done already or is the
work of a transaction that is pending*, and nothing is pending of a command that has ended
(`Idle`). What each component needs beside that:

- a list is covered by its batches: `FarmCovers` and `AlphaCovers`, arithmetic of quotient and
  remainder; `OrderOfAll`, that a set put in order loses no member;
- what others do in between takes nothing back: farms, escrows, pools and vaults are never
  closed by somebody else, and a limit order is made only by the command that owns its key, lost
  ones included (`DlmmFresh`);
- a claim takes what it was built for: a bound read before it is no less than what is due
  (`DbcPays`), and a fee vault that nobody touches is owed what the command read (`ShareDue`);
- a removal asks for all that is not locked (`PosAsks`), so nothing but locked liquidity is left
  when the position is read again (`PosDrained`), and it is closed last (`PosGoesOn`);
- nobody has put less than nothing into a presale (`SaleFull`), so a refund that is not due is
  exactly zero (`SaleBack`).

*Shares of the LP tokens* (`LockDone`, a part of `StudioDone`). While a list of locks is sent and
nobody else moves the chain, some number k of them has landed: the queue holds the others, and
each wallet has gained its part of the first k amounts (`LocksSent`, over partial sums). That
all amounts together give a wallet its percentage up to one token per entry is arithmetic of the
split (`SplitIsFair`): a rounded share falls short by less than a token (`ShareOff`), what falls
short adds up (`OffSum`), and the last entry, which gets the rest, is over by no more than the
others together fall short.

*Limit orders.* An order on chain keeps the entries it was asked for and the bins made of them
(`DlmmOrders`, a part of `StudioInv`). What it holds in some bins is what the entries that fall into
them ask for (`HeldIsAsked`, bin by bin up to `LastBin`), and a price never falls into a worse
bin than its own (`BinBounds`).

The invariants of the compositions say that the one of the command, or of the page, that runs
holds. TLC has checked the inductive invariants on the instances of the runs.

Only model-checked: all liveness (fairness and ENABLED are outside the prover's reach); of the
single commands `TypeOK`; and `TreesDecide`, since what `MerkleTree` computes for lists of every
length needs induction over data.

## Where the code and its documents disagree

With a run that exhibits it:

- `zap_out_rerun` (`RerunConvertsAll`): a wide DLMM zap-out that aborts after its first
  removal is re-run as the message advises; the new snapshot counts the freed tokens as the
  wallet's own, and the run completes without converting them.
- `dbc_migration_claimed` (`AlreadyClaimedIsTrue`): with creator and partner one account, a
  half claimed pool (after a transfer of the creator role) is reported as claimed.
- `seed_liquidity_dry` (`DryRunSendsNothing`): `dryRun` is looked at in one of three sending
  stages; without the first, a dry run sends everything.
- `trade_page_live` (`StaysLive`): one RPC error during a silent refresh removes the pool
  from the page and, with it, the interval that would have brought it back.
- `lock_liquidity_80` (`LocksThePercentage`): the documentation says that one entry at 80 locks
  80 percent of the LP; the last wallet of a list gets what remains of all of it, for good.
- `fee_sharing_retransfer` (`RetransferIsNoOp`): transferring a position to a fee vault twice
  is said to do nothing the second time; it throws, as it looks at the wallet's positions only.

Met while modelling the single commands, and modelled as the code has it:

- An escrow whose claim landed but whose closing did not stays open: `claim` throws when there
  is nothing left to claim, and closing is reached through it only (`alpha_vault/participant.ts:230-321`).
  The creator's fee of a presale is collected only in a run that also withdraws
  (`presale_vault/creator.ts:62`). A removal that stops before the closing returns on the next
  run, which has no liquidity to remove (`damm_v2/index.ts:1197`); `closePosition` then needs a
  claim of the fees first.
- A re-run under a fresh key after a lost confirmation repeats what landed: a vesting escrow, a
  split, a seeded single bin, a limit order, a presale, a DBC configuration, a swap.
- The status of an escrow that was cancelled before its cliff shows the cliff's amount as
  vested once the cliff is past: the cliff is compared with now, and only the periods with the
  time of the cancellation (`lock/status.ts:38-44`).
- `createDbcPool` asks for the metadata after it has created the configuration, and prints a
  failed simulation of the pool as expected in every dry run. `claimAllFees` prints any failure
  to build its transactions as nothing to claim (`dlmm/index.ts:650`).

Stated in the modules as definitions that do not hold. To see the counterexample, check the
definition as the only INVARIANT, without fairness:

- `OrderedSend!ReportedLandedHaveLanded` (N = 2): the abort message says steps 1 to k have
  landed, with k the step that failed (`transaction.ts:409`).
- `ZapIn!OneDepositAtOnce`: an operator who inspects at once, as the message says
  (`transaction.ts:400-405`), and re-runs may deposit twice: the timed-out transaction lands
  after the inspection. `OneDeposit` holds for one who lets the blockhash expire first.
- `ZapIn!DependentsDeferred`: the first swap after a separate set-up is not deferred
  (`zap/index.ts:786`), so a dry run blames it.
- `DbcMigration!DryRunReachesEnd`: the dry-run branch at `dbc/index.ts:437` cannot be
  reached on a pool still to be migrated, because an earlier simulation throws.
- `Launch!RefusedEarlyOrNever`: the balance check asks for 0.015 SOL per step
  (`CurveVisualizer.tsx:160`) where the pool needs more; a wallet between the two pays for a
  config and is refused at step 2.
- `Lock!PeriodsAfterCliff` (one schedule, its cliff a period after its start):
  `lock_config.jsonc:24-27` describes periods after the cliff, in number, length and amount; a
  status counts them from the start (`lock/status.ts:50-52`), so with a cliff later than the
  start it shows, at the cliff, the instalments of the time before as vested and claimable.
  Line 22 of the same file calls the start the "reference point vesting periods are counted
  from": the comments disagree, and the code follows that one. If the program follows the
  others, a status shows more than can be claimed; it never shows less, whichever it is
  (`VestingSound`).
- `AlphaVaultWhitelist!DryRunCanPass`: the dry run of a Merkle vault that does not exist
  throws when it loads the vault it only simulated (`alpha_vault/index.ts:305`).

## Not modelled

Command line, configuration, prompting, output and formatting, key generation and the devnet
airdrop: sequential input and output with no state between calls. What a configuration file
may lack is a Boolean input of the commands' actions. Pages and API routes other than those
above: rendering and request handling without state. `DataStreamProvider` is mounted by no
page. `resolveFeeSchedule` and the clamping of share links are pure functions without
interaction. Curve and quote arithmetic of the SDKs: not in `src/`. Listing commands
(`get_status`, `get_positions`, `list_escrows`) change nothing; what they compute is modelled
where a property is about it (vesting, what is due of a fee vault). Rent, balances of SOL and
priority fees are left to the program unless the code checks them. The presale's and the Alpha
Vault's second whitelist services are external. The trade page does not tie an answer to the
latest question; the model lets answers apply in any order, but no document promises one, so
nothing is asserted. Vendored skills, images and lock files. `PROJECT.json` says, component by
component, what is modelled, partly modelled or not.

Of functions that are modelled, three branches are left out. `migrateDammV2` on a local
validator whose cluster lacks the migration configurations (`dbc/index.ts:683-695`): it creates
one, in a dry run too and always with index 0 (`helpers/common.ts:158`), while the look-up is at
another address, so the next run's creation is refused; the model has clusters where the
configurations exist. The steps of a DAMM v2 zap-in with swaps (`zap/index.ts:431-466`), which
by the function's own comment are not reached: the direct route has none. And the order of
uploads beyond ten chunks: proof files go by their names (`10.json` before `2.json`), which
matters only for a wallet that is listed in two such chunks.

## Plan

The modules are complete in the sense above: `OrderedChain`, `OrderedSend`; `ZapOut`, `ZapIn`
over it; `DbcMigration`; `Launch`; `TradePage`; `SeedLiquidity`; `MerkleTree`,
`AlphaVaultWhitelist`; then `Submission` with the thirteen components of `StudioCommands`.
All of them but `MerkleTree` are proved about.

One theorem is left: `TypeOK` of the single commands, which follows from the sets of `StudioInv` but
for the component's own fields.

Runs are kept few: a new module joins an existing question where it can (an instance next to
the one it composes with), and replaces a weaker property rather than adding one.
