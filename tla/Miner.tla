------------------------------- MODULE Miner --------------------------------
(* The life of a storage miner actor between its owner, the power actor,    *)
(* the reward actor and cron (miner_actor.go, miner_state.go): pre-commits, *)
(* proofs, rewards, penalties, debts, withdrawals, the deadline job that    *)
(* stops and starts, and the change of keys.  Which sectors a deadline      *)
(* expires or finds faulty is chosen freely here; Deadline has the detail.  *)
EXTENDS Vesting, FiniteSetsExt, Functions

CONSTANTS
    SectorNumbers,                        \* bound: the sector numbers
    Addresses,                            \* bound: the addresses of owners and workers
    InitialOwner, InitialWorker,          \* the constructor's parameters
    NoAddress,                            \* nil
    WPoStChallengeWindow,
    MaxProveCommitDuration,
    PreCommitChallengeDelay,
    ExpiredPreCommitCleanUpDelay,
    PreCommitSectorBatchMaxSize,
    MinAggregatedSectors, MaxAggregatedSectors,
    AddressedSectorsMax,
    ConsensusFaultIneligibilityDuration,
    WorkerKeyChangeDelay,
    PreCommitDepositForPower,             \* by whether the sector has deals
    InitialPledgeForPower,                \* by whether the sector has deals
    NetworkFeePerSector,                  \* of the aggregate fees
    PledgePenaltyForContinuedFault,       \* of a deadline with faults
    TerminationPenalty,                   \* of a sector
    ConsensusFaultPenalty,
    RewardForConsensusSlashReport,
    PledgePenaltyForInvalidWindowPoSt,
    RewardForDisputedWindowPoSt,
    ThisEpochReward,
    ExpectedLeadersPerEpoch,
    PenaltyMultiplier,
    InitialBalance,                       \* bound: what the owner funds the miner with
    RewardBalance,                        \* bound: what the reward actor has left
    ControlChoices,                       \* bound: the sets of control addresses
    Budgets,                              \* bound: how often what may happen
    MaxEpoch                              \* bound: the last epoch

ASSUME MinerAssumption ==
    /\ WPoStChallengeWindow \in Nat \ {0}
    /\ \A d \in BOOLEAN : PreCommitDepositForPower[d] > 0 /\ InitialPledgeForPower[d] > 0
    /\ {InitialOwner, InitialWorker} \subseteq Addresses

VARIABLES
    epoch,
    phase,       \* of the epoch: messages, then the tick's callbacks
    st,          \* State of the miner actor
    info,        \* MinerInfo
    balance,     \* of the miner actor
    power,       \* what the power actor holds of the miner
    reward,      \* balance of the reward actor
    owed,        \* history: penalties charged less what was burnt or paid out for them
    named,       \* history: when each worker waiting for the key was first named
    eligible,    \* could win a block, by the state before this epoch
    failed,      \* history: a deferred cron event or a reward was refused
    budget       \* bound: what may still happen

vars == <<epoch, phase, st, info, balance, power, reward, owed, named, eligible, failed, budget>>

Permitted == {info.Owner, info.Worker} \cup info.ControlAddresses

(* DeadlineInfo(e).Last() *)
LastEpoch(e) == GridUp(e + 1, WPoStChallengeWindow) - 1

(* ConsensusFaultActive *)
ConsensusFaultActive == epoch <= info.ConsensusFaultElapsed

(* The pledge of the sectors S of a sector table *)
PledgeOf(sectors, S) == MapThenSumSet(LAMBDA s : sectors[s].InitialPledge, S)

-----------------------------------------------------------------------------
(* A message in progress: the state it works on, the balance, what the      *)
(* power actor was told, the burn and the pledge delta gathered so far, and *)
(* whether every check passed.  Amounts that functions of the code return   *)
(* to be burnt or to be reported as pledge are added to burn/pledgeDelta.   *)
Message ==
    [st |-> st, balance |-> balance, told |-> power.pledge, owed |-> owed,
     burn |-> 0, pledgeDelta |-> 0, ok |-> TRUE]

GetUnlockedBalance(m) ==
    m.balance - m.st.LockedFunds - m.st.PreCommitDeposits - m.st.InitialPledge

GetAvailableBalance(m) == GetUnlockedBalance(m) - m.st.FeeDebt

AddPreCommitDeposit(m, amount) ==
    [m EXCEPT !.st.PreCommitDeposits = @ + amount,
              !.ok = @ /\ m.st.PreCommitDeposits + amount >= 0]

AddInitialPledge(m, amount) ==
    [m EXCEPT !.st.InitialPledge = @ + amount, !.ok = @ /\ m.st.InitialPledge + amount >= 0]

ApplyPenalty(m, penalty) ==
    [m EXCEPT !.st.FeeDebt = @ + penalty, !.owed = @ + penalty, !.ok = @ /\ penalty >= 0]

UnlockVestedFunds(m) ==
    LET v == unlockVestedFunds(m.st.VestingFunds, epoch)
    IN  IF m.st.LockedFunds = 0 THEN m
        ELSE [m EXCEPT !.st.LockedFunds = @ - v.amount, !.st.VestingFunds = v.funds,
                       !.pledgeDelta = @ - v.amount,
                       !.ok = @ /\ m.st.LockedFunds >= v.amount]

(* AddLockedFunds: what has vested is unlocked first *)
AddLockedFunds(m, vestingSum) ==
    LET v == unlockVestedFunds(m.st.VestingFunds, epoch)
    IN  [m EXCEPT !.st.LockedFunds = @ - v.amount + vestingSum,
                  !.st.VestingFunds = addLockedFunds(v.funds, epoch, vestingSum),
                  !.pledgeDelta = @ - v.amount,
                  !.ok = @ /\ m.st.LockedFunds >= v.amount]

UnlockUnvestedFunds(m, target) ==
    LET v == unlockUnvestedFunds(m.st.VestingFunds, epoch, target)
    IN  IF target = 0 \/ m.st.LockedFunds = 0 THEN [amount |-> 0, m |-> m]
        ELSE [amount |-> v.amount,
              m |-> [m EXCEPT !.st.LockedFunds = @ - v.amount, !.st.VestingFunds = v.funds,
                              !.ok = @ /\ m.st.LockedFunds >= v.amount]]

(* RepayPartialDebtInPriorityOrder: from the funds still vesting, then from *)
(* the balance that was unlocked before those funds were released.          *)
RepayFrom(unlocked, r) ==
    LET debt == r.m.st.FeeDebt - r.amount
        fromBalance == Min({unlocked, debt})
    IN  [r.m EXCEPT !.st.FeeDebt = debt - fromBalance,
                    !.burn = @ + r.amount + fromBalance,
                    !.pledgeDelta = @ - r.amount,
                    !.ok = @ /\ unlocked >= 0 /\ debt >= 0]
MutantUnlockedAfter(m) ==
    LET r == UnlockUnvestedFunds(m, m.st.FeeDebt)
    IN  RepayFrom(GetUnlockedBalance(r.m), r)
RepayPartialDebtInPriorityOrder(m) ==
    RepayFrom(GetUnlockedBalance(m), UnlockUnvestedFunds(m, m.st.FeeDebt))

(* RepayDebtsOrAbort, repayDebts *)
RepayDebtsOrAbort(m) ==
    [m EXCEPT !.burn = @ + m.st.FeeDebt, !.st.FeeDebt = 0,
              !.ok = @ /\ GetUnlockedBalance(m) >= m.st.FeeDebt]

burnFunds(m) ==
    [m EXCEPT !.balance = @ - m.burn, !.owed = @ - m.burn, !.burn = 0,
              !.ok = @ /\ m.balance >= m.burn]

(* The power actor refuses a negative total.                                *)
notifyPledgeChanged(m) ==
    [m EXCEPT !.told = @ + m.pledgeDelta, !.pledgeDelta = 0,
              !.ok = @ /\ m.told + m.pledgeDelta >= 0]

CheckBalanceInvariants(m) ==
    [m EXCEPT !.ok = /\ @
                     /\ \A x \in {m.st.PreCommitDeposits, m.st.LockedFunds, m.st.InitialPledge,
                                  m.st.FeeDebt, GetUnlockedBalance(m)} : x >= 0]

(* Burns and reports what a handler gathered, then checks the balances.     *)
Settle(m) == CheckBalanceInvariants(notifyPledgeChanged(burnFunds(m)))

(* What a message leaves behind, if every check passed; `p' is the power    *)
(* actor with the other calls it received.                                  *)
Commit(m, p) ==
    /\ m.ok
    /\ st' = m.st
    /\ balance' = m.balance
    /\ owed' = m.owed
    /\ power' = [p EXCEPT !.pledge = m.told]

(* What a call leaves behind whose failure the caller only logs: nothing,   *)
(* if it failed, but `q'.                                                   *)
CommitOrRevert(m, p, q) ==
    /\ st' = IF m.ok THEN m.st ELSE st
    /\ balance' = IF m.ok THEN m.balance ELSE balance
    /\ owed' = IF m.ok THEN m.owed ELSE owed
    /\ power' = IF m.ok THEN [p EXCEPT !.pledge = m.told] ELSE q
NeverFails(m) == failed' = (failed \/ ~m.ok)

Spend(what) ==
    /\ budget[what] > 0
    /\ budget' = [budget EXCEPT ![what] = @ - 1]

-----------------------------------------------------------------------------
(* enrollCronEvent with the power actor *)
EnrollDeadline(p, e) == [p EXCEPT !.deadline = Append(@, e)]
scheduleEarlyTerminationWork(p) == [p EXCEPT !.early = Append(@, epoch + 1)]

AddPreCommitCleanUps(m, S) ==
    LET cleanUpBound == epoch + MaxProveCommitDuration + ExpiredPreCommitCleanUpDelay
    IN  [m EXCEPT !.st.PreCommittedSectorsCleanUp = @ \cup
             ({GridUp(cleanUpBound, WPoStChallengeWindow)} \X S)]

(* AllocateSectorNumbers, which denies collisions with numbers ever used,   *)
(* and PutPrecommittedSectors, of a batch S with its deals                  *)
PutPrecommittedSectors(m, S, deals) ==
    LET onChainInfo(s) == [PreCommitEpoch |-> epoch, HasDeals |-> deals[s],
                           PreCommitDeposit |-> PreCommitDepositForPower[deals[s]]]
    IN  [AddPreCommitCleanUps(m, S) EXCEPT
           !.st.PreCommittedSectors = [s \in S |-> onChainInfo(s)] @@ @,
           !.st.AllocatedSectors = @ \cup S,
           !.ok = @ /\ S \cap m.st.AllocatedSectors = {}]

(* PreCommitSectorBatch: a batch of several pays the aggregate fee; debts   *)
(* are repaid first; the deposit comes out of what is then available.       *)
PreCommitBatch(m, available, total, S, deals) ==
    /\ available >= total
    /\ Commit(CheckBalanceInvariants(burnFunds(
                  [PutPrecommittedSectors(AddPreCommitDeposit(RepayDebtsOrAbort(m), total), S, deals)
                      EXCEPT !.st.DeadlineCronActive = TRUE])),
              IF st.DeadlineCronActive THEN power ELSE EnrollDeadline(power, LastEpoch(epoch)))
PreCommitSectorBatch(caller, S, deals) ==
    /\ phase = "messages"
    /\ Cardinality(S) \in 1 .. PreCommitSectorBatchMaxSize
    /\ caller \in Permitted
    /\ ~ConsensusFaultActive
    /\ Spend("precommit")
    /\ LET n == Cardinality(S)
           m == ApplyPenalty(Message, IF n > 1 THEN n * NetworkFeePerSector ELSE 0)
       IN  PreCommitBatch(m, GetAvailableBalance(m),
                          MapThenSumSet(LAMBDA s : PreCommitDepositForPower[deals[s]], S), S, deals)
    /\ UNCHANGED <<epoch, phase, info, reward, named, eligible, failed>>

(* ProveCommitSector: anyone may submit the proof, in its window; the power *)
(* actor verifies it at the end of the epoch.                               *)
ProveCommitSector(s) ==
    /\ phase = "messages"
    /\ s \in DOMAIN st.PreCommittedSectors
    /\ epoch <= st.PreCommittedSectors[s].PreCommitEpoch + MaxProveCommitDuration
    /\ epoch > st.PreCommittedSectors[s].PreCommitEpoch + PreCommitChallengeDelay
    /\ power' = [power EXCEPT !.proofs = @ \cup {s}]
    /\ UNCHANGED <<epoch, phase, st, info, balance, reward, owed, named, eligible, failed, budget>>

(* confirmSectorProofsValid: the sectors of the pre-commits S become proven *)
(* sectors, except those whose deals the market refuses to activate; their  *)
(* deposits are released and their pledge is locked.                        *)
Activate(m, valid, released) ==
    LET pre == m.st.PreCommittedSectors
        new == [s \in valid |-> [InitialPledge |-> InitialPledgeForPower[pre[s].HasDeals],
                                 HasDeals |-> pre[s].HasDeals]]
        totalPledge == PledgeOf(new, valid)
        unlocked == AddPreCommitDeposit(m, -MapThenSumSet(LAMBDA s : pre[s].PreCommitDeposit, released))
    IN  CheckBalanceInvariants(
            [AddInitialPledge(unlocked, totalPledge) EXCEPT
                !.st.PreCommittedSectors = Restrict(@, DOMAIN @ \ valid),
                !.st.Sectors = new @@ @,
                !.pledgeDelta = @ + totalPledge,
                !.ok = @ /\ valid # {} /\ GetUnlockedBalance(unlocked) >= totalPledge])
MutantReleasesAll(m, S, refused) == Activate(m, S \ refused, S)
confirmSectorProofsValid(m, S, refused) == Activate(m, S \ refused, S \ refused)

WithDeals(S) == {s \in S : st.PreCommittedSectors[s].HasDeals}

(* ProveCommitAggregate: too late ones are skipped, too early ones abort;   *)
(* the aggregate fee is paid out of what the pledge leaves.                 *)
PayAggregateFee(m, fee) ==
    Commit(CheckBalanceInvariants(burnFunds(
               [m EXCEPT !.burn = @ + fee, !.owed = @ + fee,
                         !.ok = @ /\ GetUnlockedBalance(m) >= fee])), power)
ProveCommitAggregate(caller, S, refused) ==
    LET due(s) == st.PreCommittedSectors[s].PreCommitEpoch + MaxProveCommitDuration
        onTime == {s \in S : epoch <= due(s)}
    IN  /\ phase = "messages"
        /\ Cardinality(S) \in MinAggregatedSectors .. MaxAggregatedSectors
        /\ caller \in Permitted
        /\ S \subseteq DOMAIN st.PreCommittedSectors
        /\ \A s \in S : epoch > st.PreCommittedSectors[s].PreCommitEpoch + PreCommitChallengeDelay
        /\ refused \subseteq onTime
        /\ PayAggregateFee(notifyPledgeChanged(confirmSectorProofsValid(Message, onTime, refused)),
                           Cardinality(onTime) * NetworkFeePerSector)
        /\ UNCHANGED <<epoch, phase, info, reward, named, eligible, failed, budget>>

(* CompactSectorNumbers: numbers are masked, collisions allowed *)
CompactSectorNumbers(caller, S) ==
    /\ phase = "messages"
    /\ caller \in Permitted
    /\ Spend("compact")
    /\ st' = [st EXCEPT !.AllocatedSectors = @ \cup S]
    /\ UNCHANGED <<epoch, phase, info, balance, power, reward, owed, named, eligible, failed>>

-----------------------------------------------------------------------------
(* AwardBlockReward of the reward actor, whose balance caps the reward, and *)
(* ApplyRewards of the miner it calls: most of the reward is locked, the    *)
(* penalty is charged.  If the miner refuses, the reward is burnt.          *)
TotalReward(gasReward, winCount) ==
    Min({reward + gasReward, (ThisEpochReward * winCount) \div ExpectedLeadersPerEpoch + gasReward})

LockedRewardFromReward(amount) == (amount * 3) \div 4

ApplyRewards(amount, penalty) ==
    LET toLock == LockedRewardFromReward(amount)
        m == [Message EXCEPT !.balance = @ + amount]
    IN  Settle(RepayPartialDebtInPriorityOrder(ApplyPenalty(
            [AddLockedFunds(m, toLock) EXCEPT
                !.pledgeDelta = @ + toLock,
                !.ok = @ /\ GetUnlockedBalance(m) >= toLock], penalty)))

AwardBlockReward(penalty, gasReward, winCount) ==
    /\ phase = "messages"
    /\ eligible
    /\ Spend("award")
    /\ reward' = reward + gasReward - TotalReward(gasReward, winCount)
    /\ \E m \in {ApplyRewards(TotalReward(gasReward, winCount), PenaltyMultiplier * penalty)} :
          CommitOrRevert(m, power, power) /\ NeverFails(m)
    /\ UNCHANGED <<epoch, phase, info, named, eligible>>

(* The part of a burn that goes to whoever reported the miner, at most what *)
(* could be collected.  The reporter is an account or a multisig, to which  *)
(* a transfer does not fail.                                                *)
PayReporter(m, target) ==
    LET toReward == Min({m.burn, target})
    IN  [m EXCEPT !.burn = @ - toReward, !.balance = @ - toReward, !.owed = @ - toReward,
                  !.ok = @ /\ m.balance >= toReward]

(* ReportConsensusFault: one report per fault, since the exclusion starts   *)
(* after it.                                                                *)
ReportConsensusFault(faultEpoch) ==
    /\ phase = "messages"
    /\ faultEpoch < epoch
    /\ faultEpoch >= info.ConsensusFaultElapsed
    /\ Spend("report")
    /\ Commit(Settle(PayReporter(RepayPartialDebtInPriorityOrder(
                  ApplyPenalty(Message, ConsensusFaultPenalty)), RewardForConsensusSlashReport)), power)
    /\ info' = [info EXCEPT !.ConsensusFaultElapsed = epoch + ConsensusFaultIneligibilityDuration]
    /\ UNCHANGED <<epoch, phase, reward, named, eligible, failed>>

Live == DOMAIN st.Sectors \ st.EarlyTerminations

(* DisputeWindowedPoSt, its penalty; the sectors of the proof may have      *)
(* expired since.                                                           *)
DisputeWindowedPoSt ==
    /\ phase = "messages"
    /\ st.AllocatedSectors # {}
    /\ Spend("dispute")
    /\ Commit(Settle(PayReporter(RepayPartialDebtInPriorityOrder(
                  ApplyPenalty(Message, PledgePenaltyForInvalidWindowPoSt + RewardForDisputedWindowPoSt)),
                  RewardForDisputedWindowPoSt)), power)
    /\ UNCHANGED <<epoch, phase, info, reward, named, eligible, failed>>

(* DeclareFaultsRecovered, which debts and an active fault forbid *)
DeclareFaultsRecovered(caller) ==
    /\ phase = "messages"
    /\ caller \in Permitted
    /\ ~ConsensusFaultActive
    /\ Commit(CheckBalanceInvariants(burnFunds(RepayDebtsOrAbort(Message))), power)
    /\ UNCHANGED <<epoch, phase, info, reward, named, eligible, failed, budget>>

(* ProveReplicaUpdates: a declaration that does not fit is skipped, be it   *)
(* for a sector that is not active or has deals, for an immutable deadline  *)
(* or for deals the market refuses to activate (`skipped').  Past that, any *)
(* failure fails the whole batch.  The pledge only grows.                   *)
ValidUpdates(S, skipped) == {s \in S \cap Live : ~st.Sectors[s].HasDeals} \ skipped

MutantDeficitUnchecked(m, s, deficit) ==
    [AddInitialPledge(m, Max({0, deficit})) EXCEPT
        !.st.Sectors[s] = [InitialPledge |-> @.InitialPledge + Max({0, deficit}), HasDeals |-> TRUE],
        !.pledgeDelta = @ + Max({0, deficit})]
UpgradeSector(m, s, deficit) ==
    [AddInitialPledge(m, Max({0, deficit})) EXCEPT
        !.st.Sectors[s] = [InitialPledge |-> @.InitialPledge + Max({0, deficit}), HasDeals |-> TRUE],
        !.pledgeDelta = @ + Max({0, deficit}),
        !.ok = @ /\ (deficit > 0 => GetUnlockedBalance(m) >= deficit)]

ProveReplicaUpdates(caller, S, skipped) ==
    /\ phase = "messages"
    /\ caller \in Permitted
    /\ ValidUpdates(S, skipped) # {}
    /\ Spend("update")
    /\ Commit(notifyPledgeChanged(FoldSet(
                  LAMBDA s, m : UpgradeSector(m, s, InitialPledgeForPower[TRUE] - m.st.Sectors[s].InitialPledge),
                  Message, ValidUpdates(S, skipped))), power)
    /\ UNCHANGED <<epoch, phase, info, reward, named, eligible, failed>>

(* WithdrawBalance: refused while early terminations are not settled; the   *)
(* available balance is taken before debts are repaid, so net of them.      *)
Withdraw(m, requested) ==
    LET amount == Min({GetAvailableBalance(m), requested})
    IN  Commit(Settle([RepayDebtsOrAbort(m) EXCEPT !.balance = @ - amount,
                                                   !.ok = @ /\ amount >= 0]), power)
WithdrawBalance(caller, requested) ==
    /\ phase = "messages"
    /\ caller = info.Owner
    /\ st.EarlyTerminations = {}
    /\ Spend("withdraw")
    /\ Withdraw(UnlockVestedFunds(Message), requested)
    /\ UNCHANGED <<epoch, phase, info, reward, named, eligible, failed>>

(* RepayDebt *)
RepayDebt(caller) ==
    /\ phase = "messages"
    /\ caller \in Permitted
    /\ Commit(Settle(RepayPartialDebtInPriorityOrder(Message)), power)
    /\ UNCHANGED <<epoch, phase, info, reward, named, eligible, failed, budget>>

(* A plain transfer to the miner *)
Receive(amount) ==
    /\ phase = "messages"
    /\ Spend("receive")
    /\ balance' = balance + amount
    /\ UNCHANGED <<epoch, phase, st, info, power, reward, owed, named, eligible, failed>>

-----------------------------------------------------------------------------
(* processEarlyTerminations: the pledge of the sectors it takes is released *)
(* and pays the penalty with the rest of what is unlocked.                  *)
TakenTerminations(pending) ==
    {s \in pending : Cardinality({t \in pending : t < s}) < AddressedSectorsMax}
processEarlyTerminations(m) ==
    LET taken == TakenTerminations(m.st.EarlyTerminations)
        pledge == PledgeOf(m.st.Sectors, taken)
        penalised == AddInitialPledge(ApplyPenalty(m, Cardinality(taken) * TerminationPenalty), -pledge)
    IN  IF taken = {} THEN m
        ELSE notifyPledgeChanged(burnFunds(RepayPartialDebtInPriorityOrder(
                 [penalised EXCEPT !.pledgeDelta = @ - pledge,
                                   !.st.Sectors = Restrict(@, DOMAIN @ \ taken),
                                   !.st.EarlyTerminations = @ \ taken])))
havePendingEarlyTerminations(m) == m.st.EarlyTerminations # {}

(* TerminateSectors; with no sectors it only goes on with those pending *)
TerminateSectors(caller, S) ==
    /\ phase = "messages"
    /\ caller \in Permitted
    /\ S \subseteq Live
    /\ Cardinality(S) <= AddressedSectorsMax
    /\ Spend("terminate")
    /\ \E m \in {CheckBalanceInvariants(processEarlyTerminations(
                     [Message EXCEPT !.st.EarlyTerminations = @ \cup S]))} :
          Commit(m, IF havePendingEarlyTerminations(m) /\ ~havePendingEarlyTerminations(Message)
                    THEN scheduleEarlyTerminationWork(power) ELSE power)
    /\ UNCHANGED <<epoch, phase, info, reward, named, eligible, failed>>

-----------------------------------------------------------------------------
(* CleanUpExpiredPreCommits and the penalty for them *)
CleanUpUntil(m, until) ==
    LET due == {x \in m.st.PreCommittedSectorsCleanUp : x[1] <= until}
        pre == m.st.PreCommittedSectors
        expired == {x[2] : x \in due} \cap DOMAIN pre
        depositToBurn == MapThenSumSet(LAMBDA s : pre[s].PreCommitDeposit, expired)
    IN  ApplyPenalty(AddPreCommitDeposit(
            [m EXCEPT !.st.PreCommittedSectorsCleanUp = @ \ due,
                      !.st.PreCommittedSectors = Restrict(@, DOMAIN @ \ expired)],
            -depositToBurn), depositToBurn)
MutantNextDeadline(m) == CleanUpUntil(m, epoch + WPoStChallengeWindow)
CleanUpExpiredPreCommits(m) == CleanUpUntil(m, epoch)

(* AdvanceDeadline: the pledge of the sectors that expire on time is        *)
(* released, that of sectors faulty for too long waits for their fee.       *)
AdvanceDeadline(m, onTime, early) ==
    LET pledge == PledgeOf(m.st.Sectors, onTime)
    IN  [AddInitialPledge(m, -pledge) EXCEPT
            !.pledgeDelta = @ - pledge,
            !.st.Sectors = Restrict(@, DOMAIN @ \ onTime),
            !.st.EarlyTerminations = @ \cup early]

(* ContinueDeadlineCron *)
MutantContinueOnPledge(s) == s.PreCommitDeposits # 0 \/ s.InitialPledge # 0
ContinueDeadlineCron(s) == s.PreCommitDeposits # 0 \/ s.InitialPledge # 0 \/ s.LockedFunds # 0

(* processPendingWorker *)
processPendingWorker(i) ==
    IF i.PendingWorkerKey.NewWorker = NoAddress \/ epoch < i.PendingWorkerKey.EffectiveAt THEN i
    ELSE [i EXCEPT !.Worker = i.PendingWorkerKey.NewWorker,
                   !.PendingWorkerKey = [NewWorker |-> NoAddress, EffectiveAt |-> 0]]

SaveInfo(i) ==
    /\ info' = i
    /\ named' = IF i.Worker # info.Worker THEN <<>> ELSE named

(* handleProvingDeadline: vesting, the pending worker, expired pre-commits, *)
(* the deadline and its fault fee; the job goes on while funds are locked;  *)
(* terminations that are new are processed at once.                         *)
EndTransaction(m) ==
    notifyPledgeChanged(burnFunds([m EXCEPT !.st.DeadlineCronActive = @ /\ ContinueDeadlineCron(m.st)]))
DeadlineClosed(onTime, early, fee) ==
    EndTransaction(RepayPartialDebtInPriorityOrder(ApplyPenalty(AdvanceDeadline(
        CleanUpExpiredPreCommits(UnlockVestedFunds(Message)), onTime, early), fee)))
ProcessNewTerminations(m) ==
    IF havePendingEarlyTerminations(Message) \/ ~havePendingEarlyTerminations(m) THEN m
    ELSE processEarlyTerminations(m)
AfterDeadline(p, m, last) ==
    LET p2 == IF ContinueDeadlineCron(m.st) THEN EnrollDeadline(p, LastEpoch(epoch + 1)) ELSE p
    IN  IF ~havePendingEarlyTerminations(Message) /\ havePendingEarlyTerminations(last)
        THEN scheduleEarlyTerminationWork(p2) ELSE p2
handleProvingDeadline(onTime, early, fee) ==
    /\ phase = "events"
    /\ power.deadline # <<>> /\ Head(power.deadline) <= epoch
    /\ budget.expire >= Cardinality(onTime \cup early)
    /\ fee > 0 => budget.fault > 0 /\ Live # {}
    /\ budget' = [budget EXCEPT !.expire = @ - Cardinality(onTime \cup early),
                                !.fault = IF fee > 0 THEN @ - 1 ELSE @]
    /\ \E m \in {DeadlineClosed(onTime, early, fee)} :
       \E last \in {CheckBalanceInvariants(ProcessNewTerminations(m))} :
       \E p \in {[power EXCEPT !.deadline = Tail(@)]} :
          /\ CommitOrRevert(last, AfterDeadline(p, m, last), p)
          /\ SaveInfo(IF last.ok THEN processPendingWorker(info) ELSE info)
          /\ NeverFails(last)
    /\ UNCHANGED <<epoch, phase, reward, eligible>>

(* OnDeferredCronEvent for early terminations *)
ProcessEarlyTerminationsEvent ==
    /\ phase = "events"
    /\ power.early # <<>> /\ Head(power.early) <= epoch
    /\ \E m \in {CheckBalanceInvariants(processEarlyTerminations(Message))} :
       \E p \in {[power EXCEPT !.early = Tail(@)]} :
          /\ CommitOrRevert(m, IF havePendingEarlyTerminations(m)
                               THEN scheduleEarlyTerminationWork(p) ELSE p, p)
          /\ NeverFails(m)
    /\ UNCHANGED <<epoch, phase, info, reward, named, eligible, budget>>

(* The power actor's tick begins: ConfirmSectorProofsValid for the proofs   *)
(* that verify; pre-commits that are gone are skipped.  If the miner        *)
(* aborts, the power actor only logs it.                                    *)
ConfirmSectorProofsValid(valid, refused) ==
    /\ phase = "messages"
    /\ phase' = "events"
    /\ \E p \in {[power EXCEPT !.proofs = {}]} :
       \E m \in {notifyPledgeChanged(confirmSectorProofsValid(Message,
                    valid \cap DOMAIN st.PreCommittedSectors, refused))} :
          CommitOrRevert(m, p, p)
    /\ UNCHANGED <<epoch, info, reward, named, eligible, failed, budget>>

(* The next epoch with a tipset, n - 1 null rounds later.  Whether the      *)
(* miner may win a block in it is settled by the state it starts from       *)
(* (MinerEligibleForElection).                                              *)
MinerEligibleForElection(i, e) ==
    Live # {} /\ st.FeeDebt <= 0 /\ ~(e <= i.ConsensusFaultElapsed)
NextEpoch(n) ==
    /\ phase = "events"
    /\ \A k \in DOMAIN power.deadline : power.deadline[k] > epoch
    /\ \A k \in DOMAIN power.early : power.early[k] > epoch
    /\ epoch + n <= MaxEpoch
    /\ n > 1 => budget.null > 0
    /\ budget' = [budget EXCEPT !.null = IF n > 1 THEN @ - 1 ELSE @]
    /\ epoch' = epoch + n
    /\ phase' = "messages"
    /\ eligible' = MinerEligibleForElection(info, epoch + n)
    /\ UNCHANGED <<st, info, balance, power, reward, owed, named, failed>>

-----------------------------------------------------------------------------
(* ChangeWorkerAddress: control addresses change at once, the worker when   *)
(* the delay is over; a change that is waiting is not replaced.             *)
MutantReplacesPending(i, w) ==
    IF w # i.Worker
    THEN [NewWorker |-> w,
          EffectiveAt |-> IF i.PendingWorkerKey.NewWorker = NoAddress
                          THEN epoch + WorkerKeyChangeDelay ELSE i.PendingWorkerKey.EffectiveAt]
    ELSE i.PendingWorkerKey
PendingAfter(i, w) ==
    IF w # i.Worker /\ i.PendingWorkerKey.NewWorker = NoAddress
    THEN [NewWorker |-> w, EffectiveAt |-> epoch + WorkerKeyChangeDelay]
    ELSE i.PendingWorkerKey
ChangeWorkerAddress(caller, w, controls) ==
    /\ phase = "messages"
    /\ caller = info.Owner
    /\ Spend("info")
    /\ info' = [info EXCEPT !.ControlAddresses = controls, !.PendingWorkerKey = PendingAfter(info, w)]
    /\ named' = IF w # info.Worker THEN named @@ (w :> epoch) ELSE named
    /\ UNCHANGED <<epoch, phase, st, balance, power, reward, owed, eligible, failed>>

(* ConfirmUpdateWorkerKey *)
ConfirmUpdateWorkerKey(caller) ==
    /\ phase = "messages"
    /\ caller = info.Owner
    /\ SaveInfo(processPendingWorker(info))
    /\ UNCHANGED <<epoch, phase, st, balance, power, reward, owed, eligible, failed, budget>>

(* ChangeOwnerAddress: the owner proposes (itself, to revoke), the proposed *)
(* address confirms.                                                        *)
ClearNoOp(i) == IF i.PendingOwnerAddress = i.Owner THEN [i EXCEPT !.PendingOwnerAddress = NoAddress] ELSE i
ChangeOwnerAddress(caller, new) ==
    /\ phase = "messages"
    /\ Spend("info")
    /\ \/ /\ caller = info.Owner
          /\ info' = ClearNoOp([info EXCEPT !.PendingOwnerAddress = new])
       \/ /\ caller # info.Owner
          /\ info.PendingOwnerAddress # NoAddress
          /\ caller = info.PendingOwnerAddress /\ new = info.PendingOwnerAddress
          /\ info' = ClearNoOp([info EXCEPT !.Owner = info.PendingOwnerAddress])
    /\ UNCHANGED <<epoch, phase, st, balance, power, reward, owed, named, eligible, failed>>

-----------------------------------------------------------------------------
(* ConstructState, ConstructMinerInfo, and the owner's first transfer *)
Init ==
    /\ epoch = 0
    /\ phase = "messages"
    /\ st = [PreCommitDeposits |-> 0, LockedFunds |-> 0, VestingFunds |-> <<>>, FeeDebt |-> 0,
             InitialPledge |-> 0, PreCommittedSectors |-> <<>>, PreCommittedSectorsCleanUp |-> {},
             AllocatedSectors |-> {}, Sectors |-> <<>>, EarlyTerminations |-> {},
             DeadlineCronActive |-> FALSE]
    /\ info = [Owner |-> InitialOwner, Worker |-> InitialWorker, ControlAddresses |-> {},
               PendingWorkerKey |-> [NewWorker |-> NoAddress, EffectiveAt |-> 0],
               PendingOwnerAddress |-> NoAddress, ConsensusFaultElapsed |-> -1]
    /\ balance = InitialBalance
    /\ power = [pledge |-> 0, deadline |-> <<>>, early |-> <<>>, proofs |-> {}]
    /\ reward = RewardBalance
    /\ owed = 0
    /\ named = <<>>
    /\ eligible = FALSE
    /\ failed = FALSE
    /\ budget \in Budgets

NonEmpty(S) == SUBSET S \ {{}}

MessageStep ==
    \/ \E caller \in Addresses : \E S \in NonEmpty(budget.sectors) :
          \/ \E deals \in [S -> BOOLEAN] : PreCommitSectorBatch(caller, S, deals)
          \/ CompactSectorNumbers(caller, S)
    \/ \E s \in SectorNumbers : ProveCommitSector(s)
    \/ \E caller \in Addresses : \E S \in NonEmpty(DOMAIN st.PreCommittedSectors) :
          \E refused \in SUBSET WithDeals(S) : ProveCommitAggregate(caller, S, refused)
    \/ \E penalty, gasReward \in 0 .. 1 : AwardBlockReward(penalty, gasReward, 2 - gasReward)
    \/ \E faultEpoch \in 0 .. MaxEpoch : ReportConsensusFault(faultEpoch)
    \/ DisputeWindowedPoSt
    \/ \E caller \in Addresses :
          \/ DeclareFaultsRecovered(caller)
          \/ \E S \in NonEmpty(SectorNumbers) : \E skipped \in SUBSET S :
                ProveReplicaUpdates(caller, S, skipped)
          \/ \E requested \in {1, InitialBalance} : WithdrawBalance(caller, requested)
          \/ RepayDebt(caller)
          \/ \E S \in SUBSET SectorNumbers : TerminateSectors(caller, S)
          \/ \E w \in Addresses, controls \in ControlChoices : ChangeWorkerAddress(caller, w, controls)
          \/ ConfirmUpdateWorkerKey(caller)
          \/ \E new \in Addresses : ChangeOwnerAddress(caller, new)
    \/ Receive(1)

CronStep ==
    \/ \E valid \in SUBSET power.proofs :
          \E refused \in SUBSET WithDeals(valid \cap DOMAIN st.PreCommittedSectors) :
             ConfirmSectorProofsValid(valid, refused)
    \/ \E fee \in {0, PledgePenaltyForContinuedFault} :
          \E onTime \in SUBSET Live : \E early \in SUBSET (Live \ onTime) :
             handleProvingDeadline(onTime, early, fee)
    \/ ProcessEarlyTerminationsEvent
    \/ \E n \in 1 .. 2 : NextEpoch(n)

Next == MessageStep \/ CronStep

Spec == Init /\ [][Next]_vars

-----------------------------------------------------------------------------
(* The vesting table does what its slices should: it stays sorted, with one *)
(* entry per epoch; paying a debt out of it takes exactly the debt or all   *)
(* that is still vesting, the soonest first, and leaves what has vested.    *)
VestingTableSound ==
    LET F == st.VestingFunds
        Vested(G) == FundsSum(SelectSeq(G, LAMBDA f : f.Epoch < epoch))
        By(G, e) == FundsSum(SelectSeq(G, LAMBDA f : f.Epoch >= epoch /\ f.Epoch <= e))
        Check(r, target) ==
            /\ r.amount = Min({target, FundsSum(F) - Vested(F)})
            /\ Vested(r.funds) = Vested(F)
            /\ \A i \in DOMAIN F :
                  By(r.funds, F[i].Epoch) = Max({0, By(F, F[i].Epoch) - target})
    IN  /\ \A i, j \in DOMAIN F : i < j => F[i].Epoch < F[j].Epoch
        /\ \A target \in 1 .. st.LockedFunds + 1 :
              Check(unlockUnvestedFunds(F, epoch, target), target)

(* Whatever the order of proofs, rewards, penalties, withdrawals and cron,  *)
(* every total is the sum of what it stands for: the deposits of the        *)
(* pre-commits, the pledge of the sectors, the vesting table; the pledge    *)
(* that the power actor was told, delta by delta, is what is locked; and    *)
(* the debt is what was charged and not yet burnt or paid out.  A sector    *)
(* number is used once, for a pre-commit or for the sector it becomes, even *)
(* after the numbers were compacted, and the vesting table is in order      *)
(* (VestingTableSound).                                                     *)
BooksExact ==
    /\ st.PreCommitDeposits = MapThenSumSet(LAMBDA s : st.PreCommittedSectors[s].PreCommitDeposit,
                                            DOMAIN st.PreCommittedSectors)
    /\ st.InitialPledge = PledgeOf(st.Sectors, DOMAIN st.Sectors)
    /\ st.LockedFunds = FundsSum(st.VestingFunds)
    /\ power.pledge = st.InitialPledge + st.LockedFunds
    /\ owed = st.FeeDebt
    /\ DOMAIN st.PreCommittedSectors \cup DOMAIN st.Sectors \subseteq st.AllocatedSectors
    /\ DOMAIN st.PreCommittedSectors \cap DOMAIN st.Sectors = {}
    /\ st.EarlyTerminations \subseteq DOMAIN st.Sectors
    /\ VestingTableSound

(* What is promised is there: the balance covers deposits, vesting funds    *)
(* and pledge after every message, so that no later handler finds a         *)
(* negative unlocked balance.                                               *)
PromisesCovered ==
    balance >= st.PreCommitDeposits + st.LockedFunds + st.InitialPledge

(* There is exactly one deadline job while DeadlineCronActive says so and   *)
(* none otherwise, however often the job stops itself and a pre-commit      *)
(* starts it again; and while deposits, pledge or vesting funds are held    *)
(* it is active, although rewards do not start it.                          *)
OneDeadlineJob ==
    /\ Len(power.deadline) = IF st.DeadlineCronActive THEN 1 ELSE 0
    /\ st.PreCommitDeposits + st.InitialPledge + st.LockedFunds > 0 => st.DeadlineCronActive

(* When the job is up to date, nothing that the last deadline should have   *)
(* settled is left: no expired pre-commit, no funds that had vested.        *)
NothingOverdue ==
    LET lastClosed == LastEpoch(epoch) - WPoStChallengeWindow
    IN  (phase = "messages" /\ power.deadline = <<LastEpoch(epoch)>>) =>
          /\ \A s \in DOMAIN st.PreCommittedSectors :
                GridUp(st.PreCommittedSectors[s].PreCommitEpoch + MaxProveCommitDuration
                          + ExpiredPreCommitCleanUpDelay, WPoStChallengeWindow) > lastClosed
          /\ \A i \in DOMAIN st.VestingFunds :
                st.VestingFunds[i].Amount > 0 => st.VestingFunds[i].Epoch >= lastClosed

(* What is due is done, however many null rounds delay the job, and not     *)
(* before its time: a pre-commit goes without becoming a sector only when   *)
(* the last epoch that accepts its proof is over, so that a proof accepted  *)
(* in that epoch still finds it.                                            *)
DueIsDone ==
    /\ []NothingOverdue
    /\ [][\A s \in DOMAIN st.PreCommittedSectors :
            s \in DOMAIN st'.PreCommittedSectors \cup DOMAIN st'.Sectors
            \/ epoch > st.PreCommittedSectors[s].PreCommitEpoch + MaxProveCommitDuration]_vars

(* The miner refuses no reward and no deferred cron event, neither the      *)
(* deadline job nor the one for early terminations, whatever debts, empty   *)
(* tables or late callbacks it meets: the funds sent along always cover     *)
(* what ApplyRewards locks, and no total goes negative.  A failing event    *)
(* would cost the miner its claim, and a refused reward is burnt.           *)
(* ConfirmSectorProofsValid is not meant: it aborts when no proof counts or *)
(* the pledge is not there, and the power actor only logs it.               *)
EventsAndRewardsAccepted == ~failed

(* A worker takes over only when the owner named it at least                *)
(* WorkerKeyChangeDelay epochs before, even if the owner named others while *)
(* it was waiting.                                                          *)
WorkerKeyDelayed ==
    [][info'.Worker # info.Worker =>
          /\ info'.Worker \in DOMAIN named
          /\ epoch >= named[info'.Worker] + WorkerKeyChangeDelay]_vars
=============================================================================
