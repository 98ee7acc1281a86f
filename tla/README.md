# A formal model of the Filecoin built-in actors

TLA+ modules for the actors under `src/actors/builtin`, for the machine that runs
them (`src/support/vm`) and for the state migration (`src/actors/migration/nv16`),
TLC configurations that check them on small instances, and proofs that TLAPS
checks for every instance.
`PROJECT.json` lists the components, the runs, the line of code behind every
definition, the hazards and the theorems; this file explains them.

## The system and its execution model

An actor is a state object and a set of methods. The chain executes one message
after the other. A message runs to its end before the next one starts; it may
send messages to other actors, which run inside it; an actor that aborts leaves
no trace of the call, nor of the calls made under it. At the end of every epoch
that has a tipset (epochs without one are *null rounds*) the cron actor calls
the power actor and the market actor, and ignores their failures.

So there is no preemption, but there is plenty of interleaving: messages of
many parties come in any order, calls come back into an actor that is waiting
for a send to return, cron fires between messages, and work is cut in batches
that continue epochs later. Most of the state is redundant (running totals,
memoized power, queues indexed by epoch) and is adjusted incrementally by every
handler. This is what the properties are about.

| Part | Source | Modelled in |
| --- | --- | --- |
| Storage market | `market/` | `Market`, `Sums`; `MarketProofs`, `MarketFundsProofs`, `MarketBooksProofs` |
| Verified registry: data cap | `verifreg/` | `VerifReg`; composed with the market in `VerifiedDeals`, `VerifiedDealsProofs` |
| Miner: sectors, partitions, expiration queues, one deadline | `miner/expiration_queue.go`, `partition_state.go`, `deadline_state.go`, the handlers of `miner_actor.go` that touch a deadline | `ExpirationQueue`, `Partition`, `Deadline` |
| Miner: pre-commitment, proofs, funds, debts, keys, deadline job | `miner/miner_actor.go`, `miner_state.go`, `vesting_state.go` | `Miner`, `Vesting` |
| Multisig wallet | `multisig/` | `Multisig`, `MultisigProofs` |
| Payment channel: lanes and vouchers | `paych/` | `Paych`, `Channel`, `PaychProofs` |
| Power: claims, totals, cron queue, proof batch | `power/` | `Power`, `PowerProofs` |
| Reward: network time, block rewards | `reward/` | `Reward`; composed with the power actor in `PowerReward` |
| Cron | `cron/` | its calls end every epoch of `Market`, `Deadline`, `Miner` and `Power` |
| Init, account, and the machine that runs messages | `init/`, `account/`, `support/vm` | `VM` |
| State migration | `migration/nv16` | `Migration`, `MigrationProofs` |

The market depends on the miner (who reports terminations), the verified
registry (data cap) and cron. The deadline depends on cron (through the power
actor), and tells the power actor of power changes and the market of terminated
deals; `Power` is the other side of that, with miners free to report any change.
The power actor tells the reward actor the power of the network at the end of its
tick. The wallet and the channel depend on nothing but the messages they get.
What all of them take for granted, that a call that fails leaves nothing behind,
is what `VM` is about.

Two compositions are modules of their own, because the interaction is the hazard:
`VerifiedDeals` (data cap is used while deals are filtered and given back after a
tick) and `PowerReward` (null rounds and power as the reward actor sees them).
Both only restrict what the component's module leaves open, and both are proved
to implement it.

## Storage market (`Market.tla`)

`st` is the actor's `State`: proposals, deal states, pending proposals, the
escrow and the locked table, the deal operations by epoch as a set of pairs,
`LastCron` and the three running totals. A proposal is a record of what the
accounting reads and is its own CID. `balance` is what the actor holds. `book`
is a history variable: what each deal has paid and until when it ran.

`AddBalance`, `WithdrawBalance`, `ActivateDeals` and `OnMinerSectorsTerminate`
are one step each. `PublishStorageDeals` and `CronTick` loop over deals and
work on a copy of the state (`marketStateMutation`, here `msm`); they are
unfolded, one step per deal, with nothing enabled in between:

- `PublishStorageDeals` → `FilterDeal`* → `OpenPublish` → `StoreDeal`* →
  `CommitPublish`, or `AbortPublish`. A verified deal asks the verified
  registry, whose answer is a free choice, as are the collateral bounds.
- `CronTick` → (`TimeOutDeal` | `UpdateDeal`)* → `CommitCron`, or `AbortCron`,
  by epoch, and within an epoch in any order. The balance operations
  (`unlockBalance`, `transferBalance`, `slashBalance`) do their subtraction and
  the step fails when an entry is negative, as `MustSubtract` does.
- `NextEpoch(n)` moves on by `n` epochs: `n - 1` null rounds.

`LateTerminations` says whether a miner's backlog of early terminations may
reach the market after a tick has passed the termination epoch. The backlog is
bounded work per epoch in `miner_actor.go`, so both cases occur.

Runs:

- `market_safety`: a client, two providers, three offers that compete for the
  client's balance, batches of two, two published deals, five epochs with a
  null round. Escrow covers locks (`EscrowCoversLocked`); locks are exactly what
  live deals owe, the three totals match the deals and tokens are conserved
  (`BooksBalance`); every live deal is scheduled once and in the future and no
  proposal is stored twice (`DealsTracked`); a provider is paid exactly for the
  epochs its deal ran (`PaymentExact`); no handler meets a broken invariant
  (`HandlersNeverFail`).
- `market_late_totals`: a violation. See *Findings*.

With late terminations, solvency, the schedule and the end of every deal are
checked in the composition with the registry, below.

Bounds. Two deals are enough for competition for a balance and for two entries
in a tick. `DealUpdatesInterval = 2` puts deals at both residues, and five
epochs hold publication, start, an update, an end and a null round. `MaxEscrow`
only stops deposits.

## Verified registry and verified deals (`VerifReg.tla`, `VerifiedDeals.tla`)

`reg` is the registry's `State`; `AddVerifier`, `RemoveVerifier`,
`AddVerifiedClient` and `RemoveVerifiedClientDataCap` are one step each, with the
aborts as guards. A removal needs two requests, each with the proposal ID that its
verifier signed; the signature itself only adds an abort. `UseBytes` and
`RestoreBytes` are operators on a registry state, which the market calls.

In `VerifiedDeals`, `VFilterDeal` asks the real registry and uses its data cap at
once; `VAbortPublish` brings back the registry kept in `checkpoint`; after a tick
that committed, `VRestoreBytes` runs once for each verified deal that timed out,
and a call that the registry refuses is forgotten, as the code only logs it.
Between messages the root key and the verifiers change the registry as they like.
`ledger`, `removals` and `activated` are history.

Run `verified_deals`: one client with data cap for one or two deals, two verifiers,
terminations that come late. Each scenario of `SomeRegistries` has its own number
of registry calls and of deals, so that neither multiplies the other. Every byte
granted is in one place (`DataCapAccounted`), where what is *lost* is a remainder
below `MinVerifiedDealSize` and what a client that became a verifier cannot be
given back; nobody is verifier and client at once (`VerifierNotClient`); a signed
removal request counts once, also after its verifier was removed and named again
(`RemovalOnce`); with late terminations the market is still solvent and no deal
loses its place in the schedule (`SolventAndScheduled`); every deal ends if the
tick does not fail for ever (`DealsSettle`). Fairness: handlers run to their end
(weak), a tick comes at the end of every epoch however many messages precede it
(strong for `CronTick`, since it is disabled while a handler runs), the sends of
the tick are made and epochs follow each other (weak). These are the chain's
execution rule; no message is assumed to be sent.

## Deadlines, partitions and expiration queues

`ExpirationQueue` is `expiration_queue.go`: a queue maps a quantized epoch to
an expiration set with its memoized pledge and power. `Partition` is
`partition_state.go`. Both are pure: an operation returns the new value and
whether the code's checks passed. `Deadline` has the variables: one deadline of
one miner, the sector table, the pledge, the power claim as the power actor has
it, the early-termination bit and the callbacks enrolled.

A handler is one step: `ConfirmSectorProofsValid` (the part that puts sectors
in a deadline), `SubmitWindowedPoSt`, `DisputeWindowedPoSt`, `DeclareFaults`,
`DeclareFaultsRecovered`, `ExtendSectorExpiration`, `ProveReplicaUpdates`,
`TerminateSectors`, `CompactPartitions`. An aborting message changes nothing,
so its conditions are guards. Epochs end with `EndEpoch`; at the last epoch of
the deadline `handleProvingDeadline` runs (or `DeadlineCronDiscontinued` when
the miner has nothing left), then `ProcessEarlyTerminationsEvent` for each
callback enrolled, then `NextEpoch`. A callback that aborts is dropped for good
by the power actor, so it sets `cronFailed`.

Data is reduced: raw power is 1 per sector, quality-adjusted power follows from
the deal weight the way `QAPowerForWeight` scales it, the pledge is
`PledgePerPower` per unit; proofs are valid or not. The limit on the partitions
that one proof or one compaction may name (`loadPartitionsSectorsMax`) and the one
on the sectors of one `ProveReplicaUpdates` are left out; they only add aborts.

Runs:

- `deadline_faults`: two sectors in one partition over two proving periods.
  Every live sector is scheduled exactly once and early only if faulty, nothing
  is overdue after the deadline closes, no fault outlives `FaultMaxAge`
  (`ExpirationsSound`); all memoized sums are those of the sectors, the claim is
  the power of the active sectors, the pledge that of the live and the unsettled
  ones (`AccountsExact`); no callback aborts (`CronNeverFails`).
- `deadline_partitions`: two partitions of one sector and one termination per
  callback. Every sector has one home through compaction, the deadline's
  expiration index covers the partitions' queues, a backlog always has a
  callback enrolled (`IndicesComplete`); a terminated sector never lives again
  (`TerminatedForever`); every backlog is worked off (`BacklogClears`).
  Fairness: cron and its callbacks run, epochs follow each other.
- `deadline_dispute`: a violation. See *Findings*. `StaleDisputes = FALSE` in
  the passing runs keeps to disputes of sectors that did not change since the
  snapshot.

Bounds. A proving period of four epochs with a challenge window of one gives
every position: mutable, cut off, open, in the dispute window. Six to eight
epochs are two occurrences of the deadline, so that faults age and recoveries
are proven. Two sectors allow partial faults, and two partitions of one sector
allow compaction to shift an index. In `deadline_faults` a sector may expire on
time when the deadline closes for the second time, together with one that was
faulty for too long, and a message may name both sectors; in
`deadline_partitions` a message names one and a callback settles one, so that
faults leave a backlog.

## Miner (`Miner.tla`, `Vesting.tla`)

The rest of the miner actor: what happens between its owner, cron, the power and
the reward actor. `st` and `info` are `State` and `MinerInfo`; `power` is what the
power actor holds of the miner, `owed` and `named` are history. `Vesting` has the
vesting table (`addLockedFunds`, `unlockVestedFunds`, `unlockUnvestedFunds`) as
pure operators.

Each handler is one step: pre-commitment in batches, single and aggregated proofs,
confirmation, replica updates, termination, compaction of sector numbers, rewards
(`ApplyRewards`), reported faults and disputes, `RepayDebt`, `WithdrawBalance`,
the changes of owner, worker and control addresses. The epoch ends with the
callbacks that the power actor makes: confirmation of proofs and the deadline job,
which stops itself when the miner holds nothing and is started again by a
pre-commitment.

Which sectors a deadline expires or finds faulty is a free choice here, and is
computed in `Deadline`. Deposit, pledge, fees and penalties are constants that
depend on whether a sector has deals. A miner is `eligible` for a reward if it was
so by the state of the epoch before, which over-approximates `election.go`; that is
how a reward reaches a miner that is in debt or has lost its sectors meanwhile.
`ProvingPeriodStart` is fixed, transfers to reporters of faults do not fail, and
one choice of skipped sectors stands for all the reasons the code has to skip one.

Run `miner`: each behaviour has one of five budgets (`MCBudgets`): commitments
with null rounds, rewards and penalties, withdrawals with debts, changes of keys
without and with a deadline job. Totals are the sums of what they stand for and
the debt is what was charged and not paid (`BooksExact`); the balance covers what
is promised (`PromisesCovered`); the deadline job is neither lost nor doubled
(`OneDeadlineJob`); after the job nothing due is left, null rounds or not, and no
pre-commit is cleaned up while its proof may still come (`DueIsDone`); the miner
refuses no reward and no deferred cron event, the deadline job or the one for
early terminations (`EventsAndRewardsAccepted`), while `ConfirmSectorProofsValid`
may well abort, for want of valid proofs or of funds for the pledge, and is only
logged; a worker takes over only after its full delay (`WorkerKeyDelayed`). A
backlog of early terminations arises when both sectors have been faulty for too
long, since a message may not name more sectors than are processed at once. Six epochs
are three deadlines, enough for a deposit to expire, funds to vest and a worker
to wait; amounts are small enough for the balance to run out. Deadlock is not
checked: the model ends with the last epoch and the budgets.

## Multisig wallet (`Multisig.tla`)

`st` is `State`; a pending transaction is its message and the order of its
approvals. `executeTransactionIfApproved` sends the message and deletes the
transaction only when the send returns, so the send is a *frame* on `stack`
with the state and the balance at the send. While a message to another actor
runs (`Method = "Send"`), signers that are wallets may call back and more value
may arrive. The send ends with `SendSucceeds`, or `SendFails`, which restores
the frame's state. When the message goes to the wallet itself, `AddSigner`,
`RemoveSigner`, `SwapSigner`, `ChangeNumApprovalsThreshold` or `LockBalance`
runs with the approved parameters, and ends the send. The hash of the proposal
that `Approve` and `Cancel` may be given only adds an abort and is left out.

Run:

- `multisig`: in a behaviour the *plan* is `signers` or `funds`. Under `signers`,
  three addresses, one of them a wallet, make two proposals with two nested sends
  and all reconfigurations, without funds. Under `funds`, two addresses deposit
  and spend amounts of one under a lock of three epochs from the constructor or
  from `LockBalance`. Approvals belong to present signers, none is missing,
  identifiers are fresh and the threshold can be met (`WalletSound`); every send
  had a quorum (`QuorumBehindEverySend`); once covered, the locked amount stays
  covered (`LockedFundsStay`) except when a failing send restores an older
  balance or a new lock begins.

Bounds. Two proposals let one transaction change the signers under another, and
a depth of two lets a call-back relay it while the first is being sent. Funds
and signers do not influence each other but through the guards, which is why
the plans are separate. Deadlock is not checked: a wallet whose proposals are
spent stands still.

## Payment channel (`Paych.tla`, `Channel.tla`)

`st` is `State`: what is to be sent, the two heights and the lanes. A voucher is
the record that `UpdateChannelState` reads; `Vouchers` holds the ones correctly
signed. Signature, secret and the `Extra` call only add aborts. The loop over
merges is unfolded: `UpdateChannelState` copies the lanes to `call`, each
`MergeLane` takes one merge, `CommitUpdate` stores or `AbortUpdate` drops the
copy. `Settle` and `Collect` are one step each. `Deposit` is value from outside.
`log` (vouchers redeemed) and `paid` are history. The two parties are accounts,
so nothing calls back.

`Channel` is what the parties rely on: a promise that the balance covers, moved
by agreement, frozen once settled, and paid. `Paych` implements it
(`KeepsPromises`): the promise is `ToSend`, the rest is history or hidden.

Run `paych`: two lanes and seven vouchers that overlap in lanes, nonces, time
locks and minimum settling heights, among them merges of several lanes and of
the same lane twice; a settling delay of two, five epochs, a balance of four.
That is enough for a voucher to arrive late, twice, in either order with another,
before and after settlement begins. Nonces rise (`NoncesRise`); the promise is
exactly the last voucher of every lane less what merges took over, each at its
time, as the history of redeemed vouchers has it (`CountedOnce`); settlement waits
for every redeemed voucher (`SettlementWaits`). Deadlock is not checked: a
collected channel stands still.

## Power and reward (`Power.tla`, `Reward.tla`, `PowerReward.tla`)

In `Power`, `st` is `State`, without the smoothed estimate; a claim carries the
minimum power of its proof type, positive for every type in `sector.go`. Miners
exist once created and then report power and pledge, enroll events and submit
proofs in any order. `CronTick` is unfolded: the batch is emptied, miners with good
proofs are called (`ConfirmSectorProofsValid`), due events leave the queue
(`LoadCronEvents`) and are called back in order (`OnDeferredCronEvent`), the claims
of the miners that failed are removed one by one (`DeleteClaim`), and the power of
the network is published (`FinishTick`). During a callback the miner may call the
power actor; `CallbackReturns(FALSE)` restores the state kept in `call.saved`. The
tick itself does not abort: the reward actor's methods it calls have no error path
for it. `NextEpoch(n)` passes over `n - 1` null rounds. `nextID` and `done` are
history: they number the events and record which were called back.

In `Reward`, `rw` is `State`. `UpdateNetworkKPI` catches up with the epochs since
the last tipset (`CatchUp`), adds the realized power, capped by the baseline, to
its cumulative sum and moves the effective network time on until the baseline sum
covers it. `AwardBlockReward` pays what the epoch's reward and the fund allow.
Fixed-point numbers have one fractional bit (`One = 2`), the two exponentials of
the minting schedule are tables, and the smoothed estimate of the reward is left
out. `credits` records the power that each epoch was counted with.

`PowerReward` composes them: the step that ends the tick reports the power, and
blocks are rewarded between ticks.

Run `power`: two miners, a minimum of two sectors, one sufficient miner to enforce
it. The four plans have two events and a null round, one event over two or three
ticks, pledges and two blocks, or claims of up to three sectors. So a claim crosses
the minimum both ways and moves above it, a miner
fails twice in one tick, a callback enrolls an event for an epoch that is over, a
null round is counted late, network time catches up by more than one step and the
fund runs out. The totals are those of the claims and the published power is the
power of exactly the miners that `MinerNominalPowerMeetsConsensusMinimum` lets win
blocks (`TotalsMatchClaims`); events wait within reach and run once (`EventsOnce`);
each is called back in the end, unless its miner has lost its claim (`EventsRun`); network time and rewards are what the history
of the power makes them (`RewardStateExact`). Fairness: the tick's steps are taken
(weak, one condition for all of them), which is the chain's execution rule.
Deadlock is not checked: the model ends with the last epoch.

## The machine, init and account (`VM.tla`)

`actors` is the state tree and `stack` the contexts of the message in progress.
`ApplyMessage` starts a message; `invoke` resolves the target, which may create an
account on the way, moves the value and runs the method; a nested send pushes a
context, and its end pops it, with the tree it had before if it aborts. `Exec` of the
init actor and the account actor's constructor are modelled as the code has them.
Wallets stand for every other actor: between their state transactions they send
what they like, end well or abort; a payment channel may delete itself, as
`Collect` does. Calls and state accesses cost gas, and a
message that runs out of it aborts where it stands. Genesis has a user, two
wallets and a key without an account.

A send to an address that cannot be resolved reads a nil actor
(`invocation_context.go:416`); the machine panics, and the model ends there with
`panicked`. `newActorAddressCount` is never incremented
(`invocation_context.go:67`), so two `Exec`s of one message would name one
address; no built-in actor sends two, and neither do the models. Left out are the
aborts on a negative value, on parameters that do not decode and on an account
whose ID is taken (which `RegistrySound` excludes); a deletion by an actor that is
gone is a wallet's abort.

Run `vm`: messages with up to four calls, or two messages with two calls each. The
tree after a message is explained by the calls that ended well within calls that
ended well (`TraceExplainsState`); addresses, IDs and accounts stay in step through
every rollback (`RegistrySound`); tokens are conserved at every step
(`FundsConserved`). `GasLimit` is such that some messages end and others run out.

## State migration (`Migration.tla`)

`MigrateStateTree` of `migration/nv16/top.go` with its goroutines as processes: the
creator walks the old tree and queues a job per actor, workers run jobs and queue
results, a closer closes the queue of results when all workers have ended, a writer
builds the new tree, and `Return` waits for all of them. Channels are bounded, and a
channel of size 0 hands over. Any job, read or write may fail and the context may be
cancelled at any time; whoever is in a `select` then leaves. The record that the walk
decodes every actor into is one variable (`actorIn`), as in the code. The market's
migration re-encodes labels that are not UTF-8 and moves the pending proposals to
their new CIDs, that of the system actor stores the new manifest, and the others
change only the code.

Run `migration`: two trees, two manifests, and no, one or two workers with queues
of size 0 or 1. A root is returned only for the whole tree (`TreeMigrated`), the
pending proposals follow (`PendingFollows`), nobody sends on a closed channel
(`NeverPanics`), and the migration always returns (`Returns`). Fairness: every
goroutine that can go on does (weak for each), as Go's scheduler guarantees.
Deadlock is not checked: the migration ends.

## Findings

- `market_late_totals`. `market_state.go:150` refunds
  `(EndEpoch - SlashEpoch) * price` to the client of a slashed deal although
  the provider was paid up to `LastUpdatedEpoch`. When a backlog of early
  terminations reports an older `SlashEpoch`, more is unlocked than the deal
  has locked and the running total of client storage fees becomes negative,
  which `market/testing.go` calls an error.
- `deadline_dispute`. The comment at `miner_actor.go:570` says recording the
  faults of a disputed proof always works. It uses the sector information of
  the snapshot; a sector extended since makes the expiration queue's validation
  fail, and the dispute aborts.

## Proofs

The market's theorems take three modules, each extending the one before; the first
is also what the proofs about the verified registry build on. They
assume that there are finitely many clients and providers and that these are
different accounts, that offers are well-formed (`StartEpoch < EndEpoch`, as the
code checks) and that amounts and bounds are natural numbers.

`MarketProofs.tla`: types, escrow, the schedule, and sums.

- `TypeCorrect`: `Spec => []TypeOK`. The inductive invariant `TypeInv` adds the
  types of the locals of the handler in progress and of the history. The
  working copy is shown to be a `WorkingState`, whose entries may be negative;
  it becomes a `MarketState` because the step is taken only if no entry is.
- `EscrowCovered`: `Spec => []EscrowCoversLocked`. The invariant `EscrowInv`
  asks the same of the open working copy; `UnlockStep`, `TransferStep` and
  `SlashStep` show that each balance operation keeps it, `UpdateStep` and
  `TimeOutStep` compose them.
- `DealsAlwaysTracked`: `Spec => []DealsTracked`. The invariant `DealsInv` asks of
  the working copy what it asks of the state. In the middle of a tick the
  queue of operations is in three places (later epochs, due and not yet
  processed, about to be added: `CronOps`), and together these have one
  operation per deal. It also says that the deals that passed the filter are
  distinct and not pending (`Chosen`), which the check for duplicates gives.
- `FiniteCovers` to `FiniteUnion` and `SumEmpty` to `SumDrop` are the laws of finite
  sets and sums that the other theorems need: a sum does not depend on the order,
  changes by what one entry changes, and so on. `SumOf` is a fold of the community
  modules, that is, a `CHOOSE` of a recursive function; that the function exists is
  `SumsChosen`. The inductions take a least counterexample (`LeastNat`,
  `MinimalSubset`), so that no predicate has to be passed to an induction rule.

`MarketFundsProofs.tla`: balances, and what the actor holds.

- `AlwaysSolvent`: `Spec => []Solvent`, with late terminations too. The invariant
  `FundsInv` says the same of the open working copy with what it slashed.
- `SolventAndScheduledAlways`: `Spec => []SolventAndScheduled`. By `ImplementsMarket`
  below it holds in the composition too, where the run checks it.
- The lemmas `TimeOutSettles`, `UpdateSettles` and `UpdateFees` say what one
  operation of a tick does to every account and total, and that it releases
  no more than the deal still owes. They carry the theorems of the next module.
- `RoomInvAlways`: while the filter runs, its totals are at least what the deals that
  passed will lock, and from then on there is room in escrow for those that are
  not stored yet (`RoomInv`).

`MarketBooksProofs.tla`: the books. Its theorems assume `LateTerminations = FALSE`,
that is, that a termination reaches the market before a tick has passed its
epoch. Otherwise none of the three properties holds: see `market_late_totals`.

- `BooksAlwaysBalance`: `Spec => []BooksBalance`. The locked table and each running
  total are sums over all deals, adjusted deal by deal; the invariant `BooksInv`
  asks that they agree in an open transaction too (`Balanced`), and that
  terminations lie between a deal's last update and its end (`TerminatedBy`).
- `PaymentsExact`: `Spec => []PaymentExact`, from the part of `BooksInv` that
  relates the history to the state (`Booked`).
- `HandlersSucceed`: `Spec => []HandlersNeverFail`. For a publication it follows from
  `RoomInv`; for a tick from `BooksInv` (no account is overdrawn, because all that a
  deal owes is locked), `DealsInv` (the deals and pending proposals that the tick
  looks up are there) and `FundsInv` (the burn is covered).

`MultisigProofs.tla` assumes finitely many addresses, `SignersMax > 0`, and
amounts and lock-ups of the right types.

- `WalletStaysSound`, `QuorumSafe`: `WalletSound` and `QuorumBehindEverySend` hold
  always. The inductive invariant `Inv` asks of every state kept in a frame
  what it asks of the current one (`Good`), because a failing send brings it
  back; it says that each frame's message is pending and approved in the
  frame's state (`Relay`), that all frames but the innermost are sends to
  others, and that while the innermost is a call to the wallet itself the state
  is the one at the send, so that the parameters in use are those approved.

`PaychProofs.tla` assumes that vouchers are well-formed, that deposits and bounds
are natural numbers and that `SettleDelay` is positive.

- `ChannelTypeCorrect`, `VouchersCountOnce`, `SettlementAlwaysWaits`: `TypeOK`,
  `NoncesRise` and `SettlementWaits` hold always. The inductive invariant `Inv`
  relates the log to the stored lanes (no voucher in it is ahead of its lane) and
  the working copy to the stored lanes (nonces in it are never behind), which is
  what keeps a merge from taking a nonce back.
- `ImplementsChannel`: `Spec => Abstract!Spec`, step by step: an update is
  a new promise when it commits and a stutter until then.

`PowerProofs.tla` needs of the constants only that epochs are natural numbers.

- `EventsCalledOnce`: `Spec => []EventsOnce`. The inductive invariant gives
  events identities of their own and asks of the state before a callback what it
  asks of the current one, because a failing callback brings it back.
- `ImplementsPower`: `PRSpec => Spec`. The composition with the reward actor takes
  only steps of the power actor, so `EventsOnce` holds there too, where the run
  checks it.

`VerifiedDealsProofs.tla` assumes that the registry of the start is well-formed,
that data caps and proposal IDs in it are natural numbers, and that clients of deals
have accounts.

- `ImplementsMarket`: `VSpec => Spec`. In `Market` the registry's answer is a free
  choice; the real registry only restricts it, so what is proved of the market
  holds of the composition.
- `RolesStayDisjoint`: `VSpec => []VerifierNotClient`, for any accounts.
- `NoReplay`: `VSpec => []RemovalOnce`. The inductive invariant `RegistryInv` says
  that every request used has an ID below the next one of its verifier and client,
  and asks of the checkpoint that it is sound and has the same IDs, because an abort
  brings it back.
- `DataCapAlwaysAccounted`: `VSpec => []DataCapAccounted`. The invariant `CapInv`
  follows the data cap of a client through a publication: what is out of the
  registry is in the deals that are live, were activated or await `RestoreBytes`,
  and, while the handler runs, in the deals stored so far and in the rest of the
  batch; the checkpoint accounts for the deals without the batch. `TrackInv` says
  which deals those are: an activated deal never awaits a restore, a deal awaits it
  once, and a tick lists exactly the verified deals that it times out.

`MigrationProofs.tla` assumes only the shape of trees and configurations.

- `WholeTree`: `Spec => []TreeMigrated`, for any tree, number of workers and sizes of
  queues. The inductive invariant `IInv` says that whatever is under way is the
  record of some actor (`Cargo`), that who has ended had nothing left to take
  (`EndedInOrder`), and that as long as nobody has failed every actor is in the
  walk, in a queue, in a worker's hands or in the new tree (`NoneLost`).
- `NoSendAfterClose`: `Spec => []NeverPanics`, from the same invariant.
- `PendingInStep`: `Spec => []PendingFollows`, from what the market's migration does
  to a market in step.

Only model-checked:

- the liveness properties, which need fairness;
- the books of the market when terminations are late, which are wrong;
- `CountedOnce`, `TotalsMatchClaims`, `AccountsExact`, `BooksExact`,
  `TraceExplainsState` and `FundsConserved`: sums over vouchers, claims, sectors
  and calls. The laws of sums are there, but the inductive invariants have not been
  worked out;
- `RewardStateExact`, which says what a recursive function computes and would need
  induction over the epochs, and `LockedFundsStay`, which needs division;
- everything else about `Deadline`, `Miner` and `VM`.

## Not modelled

- `system/`: a constructor only.
- `util/adt`: HAMT and AMT containers; functions and sets stand for them. What they
  promise is taken for granted.
- `util/math`, `util/smoothing`: polynomials in Q.128 fixed point. They are numerical
  code without protocol state, and their values are far beyond what TLC can compute
  with; where they matter (`Reward`) a table stands for them.
- Monetary formulas of the miner (`monies.go`, `policy.go`): constants of the models.
- `deadline_assignment.go` and the interaction of several deadlines: `Deadline` has
  one. Moving a sector between deadlines does not occur in the code.
- `ChangePeerID`, `ChangeMultiaddrs`, and read-only methods: they store or return
  bytes that nothing reads.
- CBOR encoders: generated.
- State checks (`testing.go`, `check.go`): test code; several properties come from
  them.
- The simulation agents of `support/agent`, and in the machine the checks on the
  caller (validated once, no state object changed outside a transaction), which
  detect mistakes in actors' code.
- Signatures, hashes and proofs: a value is valid or it is not there.
