------------------------------- MODULE Market -------------------------------
(***************************************************************************)
(* The storage market actor (src/actors/builtin/market).                   *)
(*                                                                         *)
(* st is the actor's committed State, msm the working copy that a state    *)
(* transaction mutates (marketStateMutation) and commitState writes back.  *)
(* The two handlers that loop over deals, PublishStorageDeals and          *)
(* CronTick, are unfolded: one step per iteration.  Messages execute one   *)
(* at a time, so no other action is enabled while phase names a handler in *)
(* progress, and an abort leaves st as it was.                             *)
(***************************************************************************)
EXTENDS Integers, Sequences, FiniteSets, Sums

CONSTANTS
    Clients,              \* account actors that sign deal proposals
    Providers,            \* storage miner actors
    Offers,               \* the proposals clients have signed; an offer is its own CID
    Deposits,             \* amounts AddBalance may receive
    Withdrawals,          \* amounts WithdrawBalance may ask for
    DealUpdatesInterval,  \* policy.go: epochs between two updates of a deal
    LateTerminations,     \* TRUE: a miner's early-termination backlog may take several ticks
    MaxEpoch,             \* bound: last epoch of the model
    MaxNullRounds,        \* bound: epochs that may pass without a tipset
    MaxBatch,             \* bound: deals in one PublishStorageDeals message
    MaxDeals,             \* bound: deals ever published
    MaxEscrow             \* bound: tokens held by the actor

Addrs == Clients \cup Providers
Epochs == 0 .. MaxEpoch
EpochUndefined == -1
DealIDs == 0 .. (MaxDeals - 1)

\* The part of a DealProposal that the accounting reads.
DealProposal == [Client : Clients, Provider : Providers, StartEpoch : Epochs, EndEpoch : Epochs,
                 StoragePricePerEpoch : Nat, ClientCollateral : Nat, ProviderCollateral : Nat,
                 VerifiedDeal : BOOLEAN]

ASSUME AddrsAssumption ==
    /\ Clients \cap Providers = {}
    /\ IsFiniteSet(Clients) /\ IsFiniteSet(Providers)
ASSUME OffersAssumption ==
    /\ Offers \subseteq DealProposal
    /\ \A p \in Offers : p.StartEpoch < p.EndEpoch
ASSUME AmountsAssumption ==
    /\ Deposits \subseteq Nat
    /\ Withdrawals \subseteq Nat
ASSUME BoundsAssumption ==
    /\ DealUpdatesInterval \in Nat \ {0}
    /\ LateTerminations \in BOOLEAN
    /\ MaxEpoch \in Nat
    /\ MaxNullRounds \in Nat
    /\ MaxBatch \in Nat
    /\ MaxDeals \in Nat
    /\ MaxEscrow \in Nat

VARIABLES
    epoch,    \* rt.CurrEpoch()
    phase,    \* what the chain is executing
    st,       \* the actor's state
    msm,      \* the open state transaction
    call,     \* locals of the handler in progress
    balance,  \* tokens the actor holds
    book      \* history: what each deal ever published has paid, and until when it ran

vars == <<epoch, phase, st, msm, call, balance, book>>

\* market/types.go: why an amount is locked.
BalanceLockingReason == {"ClientCollateral", "ClientStorageFee", "ProviderCollateral"}

DealState == [SectorStartEpoch : Epochs, LastUpdatedEpoch : Epochs \cup {EpochUndefined},
              SlashEpoch : Epochs \cup {EpochUndefined}]

Put(f, k, v) == [x \in DOMAIN f \cup {k} |-> IF x = k THEN v ELSE f[x]]
Without(f, k) == [x \in DOMAIN f \ {k} |-> f[x]]

Min2(a, b) == IF a <= b THEN a ELSE b
Max2(a, b) == IF a >= b THEN a ELSE b

-----------------------------------------------------------------------------
(* deal.go: what a proposal locks.                                          *)

TotalStorageFee(p) == p.StoragePricePerEpoch * (p.EndEpoch - p.StartEpoch)
ClientBalanceRequirement(p) == p.ClientCollateral + TotalStorageFee(p)
ProviderBalanceRequirement(p) == p.ProviderCollateral

(* quantize.go, for offset 0 and e >= 0.                                    *)
QuantizeUp(e, unit) == unit * ((e + unit - 1) \div unit)
QuantizeDown(e, unit) ==
    LET next == QuantizeUp(e, unit) IN IF e = next THEN next ELSE next - unit

MutantBeforeStart(startEpoch, dealID) ==
    QuantizeDown(startEpoch, DealUpdatesInterval) + (dealID % DealUpdatesInterval)

(* The first epoch at which cron looks at a deal: the first one at or after *)
(* its start that is congruent to its ID.                                   *)
GenRandNextEpoch(startEpoch, dealID) ==
    LET offset == dealID % DealUpdatesInterval
        prevDay == QuantizeDown(startEpoch, DealUpdatesInterval)
    IN IF prevDay + offset >= startEpoch
       THEN prevDay + offset
       ELSE QuantizeUp(startEpoch, DealUpdatesInterval) + offset

-----------------------------------------------------------------------------
(* market_balances.go, on the working copy m.  MustSubtract fails when an   *)
(* entry would become negative; the subtraction is done here regardless,    *)
(* and the transaction aborts when a table has a negative entry.            *)

MutantTotalsNotUpdated(m, addr, amount, lockReason) == [m EXCEPT !.LockedTable[addr] = @ - amount]

unlockBalance(m, addr, amount, lockReason) ==
    [m EXCEPT !.LockedTable[addr] = @ - amount, !.Totals[lockReason] = @ - amount]

transferBalance(m, fromAddr, toAddr, amount) ==
    LET paid == unlockBalance([m EXCEPT !.EscrowTable[fromAddr] = @ - amount],
                              fromAddr, amount, "ClientStorageFee")
    IN [paid EXCEPT !.EscrowTable[toAddr] = @ + amount]

MutantSlashOnlyUnlocks(m, addr, amount, reason) == unlockBalance(m, addr, amount, reason)

slashBalance(m, addr, amount, reason) ==
    unlockBalance([m EXCEPT !.EscrowTable[addr] = @ - amount], addr, amount, reason)

balanceCovered(s, addr, amountToLock) == s.LockedTable[addr] + amountToLock <= s.EscrowTable[addr]

CanLockClientAndProviderBalances(m, p) ==
    /\ balanceCovered(m, p.Client, ClientBalanceRequirement(p))
    /\ balanceCovered(m, p.Provider, p.ProviderCollateral)

lockClientAndProviderBalances(m, p) ==
    [m EXCEPT !.LockedTable = [a \in Addrs |->
                  @[a] + (IF a = p.Client THEN ClientBalanceRequirement(p) ELSE 0)
                       + (IF a = p.Provider THEN p.ProviderCollateral ELSE 0)],
              !.Totals = [r \in BalanceLockingReason |->
                  @[r] + (CASE r = "ClientCollateral" -> p.ClientCollateral
                            [] r = "ClientStorageFee" -> TotalStorageFee(p)
                            [] r = "ProviderCollateral" -> p.ProviderCollateral)]]

NoNegativeBalance(m) == \A a \in Addrs : m.EscrowTable[a] >= 0 /\ m.LockedTable[a] >= 0

-----------------------------------------------------------------------------
Idle == [kind |-> "idle"]

Init ==
    /\ epoch = 0
    /\ phase = "messages"
    /\ st = [Proposals |-> [d \in {} |-> 0], States |-> [d \in {} |-> 0], PendingProposals |-> {},
             EscrowTable |-> [a \in Addrs |-> 0], LockedTable |-> [a \in Addrs |-> 0],
             NextID |-> 0, DealOpsByEpoch |-> {}, LastCron |-> -1,
             Totals |-> [r \in BalanceLockingReason |-> 0]]
    /\ msm = Idle
    /\ call = Idle
    /\ balance = 0
    /\ book = [d \in {} |-> 0]

AddBalance(addr, msgValue) ==
    /\ phase = "messages"
    /\ msgValue > 0
    /\ balance + msgValue <= MaxEscrow
    /\ st' = [st EXCEPT !.EscrowTable[addr] = @ + msgValue]
    /\ balance' = balance + msgValue
    /\ UNCHANGED <<epoch, phase, msm, call, book>>

MutantIgnoreFloor(prev, req, floor) == Min2(req, prev)

\* BalanceTable.SubtractWithMinimum: what can be taken without going below floor.
SubtractWithMinimum(prev, req, floor) == Min2(req, Max2(0, prev - floor))

WithdrawBalance(addr, amount) ==
    LET ex == SubtractWithMinimum(st.EscrowTable[addr], amount, st.LockedTable[addr])
    IN /\ phase = "messages"
       /\ ex <= balance
       /\ st' = [st EXCEPT !.EscrowTable[addr] = @ - ex]
       /\ balance' = balance - ex
       /\ UNCHANGED <<epoch, phase, msm, call, book>>
-----------------------------------------------------------------------------
(* PublishStorageDeals.  The first loop drops invalid deals, reading st and *)
(* totting up the lockups; the second one stores those that are left in a   *)
(* state transaction.                                                       *)

PublishStorageDeals(deals) ==
    /\ phase = "messages"
    /\ st.NextID + Len(deals) <= MaxDeals
    /\ phase' = "filter"
    /\ call' = [kind |-> "publish", deals |-> deals, provider |-> Head(deals).Provider,
                validDeals |-> <<>>, totalClientLockup |-> [c \in Clients |-> 0],
                totalProviderLockup |-> 0]
    /\ UNCHANGED <<epoch, st, msm, balance, book>>

\* validateDeal, and the batch's provider.  The signature and the static checks hold of every
\* offer; inBounds: the provider collateral is within the bounds that the network's power and
\* circulating supply give at the time.
ValidDeal(deal, inBounds) == epoch <= deal.StartEpoch /\ deal.Provider = call.provider /\ inBounds

MutantNotCumulative(deal) == ClientBalanceRequirement(deal)

ClientLockup(deal) == call.totalClientLockup[deal.Client] + ClientBalanceRequirement(deal)
ClientBalanceOk(deal) == balanceCovered(st, deal.Client, ClientLockup(deal))
ProviderLockup(deal) == call.totalProviderLockup + deal.ProviderCollateral
ProviderBalanceOk(deal) == balanceCovered(st, deal.Provider, ProviderLockup(deal))
Duplicate(deal) ==
    \/ deal \in st.PendingProposals
    \/ \E i \in 1 .. Len(call.validDeals) : call.validDeals[i] = deal

\* The deal gets as far as the UseBytes call of a verified deal.
PassesMarketChecks(deal, inBounds) ==
    ValidDeal(deal, inBounds) /\ ClientBalanceOk(deal) /\ ProviderBalanceOk(deal) /\ ~Duplicate(deal)

\* datacapOk: whether the verified registry accepts the UseBytes call.  A deal that is
\* dropped after its lockup was added keeps the running totals as they are.
FilterDeal(inBounds, datacapOk) ==
    /\ phase = "filter"
    /\ call.deals /= <<>>
    /\ LET deal == Head(call.deals)
       IN call' = [call EXCEPT
            !.deals = Tail(@),
            !.totalClientLockup[deal.Client] = IF ValidDeal(deal, inBounds) THEN ClientLockup(deal) ELSE @,
            !.totalProviderLockup =
                IF ValidDeal(deal, inBounds) /\ ClientBalanceOk(deal) THEN ProviderLockup(deal) ELSE @,
            !.validDeals =
                IF PassesMarketChecks(deal, inBounds) /\ (deal.VerifiedDeal => datacapOk)
                THEN Append(@, deal) ELSE @]
    /\ UNCHANGED <<epoch, phase, st, msm, balance, book>>

OpenPublish ==
    /\ phase = "filter"
    /\ call.deals = <<>>
    /\ call.validDeals /= <<>>
    /\ phase' = "store"
    /\ msm' = st
    /\ UNCHANGED <<epoch, st, call, balance, book>>

StoreDeal ==
    /\ phase = "store"
    /\ call.validDeals /= <<>>
    /\ LET deal == Head(call.validDeals)
           id == msm.NextID
       IN /\ CanLockClientAndProviderBalances(msm, deal)
          /\ msm' = [lockClientAndProviderBalances(msm, deal) EXCEPT
                        !.NextID = @ + 1,
                        !.PendingProposals = @ \cup {deal},
                        !.Proposals = Put(@, id, deal),
                        !.DealOpsByEpoch = @ \cup {<<GenRandNextEpoch(deal.StartEpoch, id), id>>}]
    /\ call' = [call EXCEPT !.validDeals = Tail(@)]
    /\ UNCHANGED <<epoch, phase, st, balance, book>>

CommitPublish ==
    /\ phase = "store"
    /\ call.validDeals = <<>>
    /\ phase' = "messages"
    /\ st' = msm
    /\ msm' = Idle
    /\ call' = Idle
    /\ book' = [d \in DOMAIN book \cup (st.NextID .. msm.NextID - 1) |->
                   IF d \in DOMAIN book THEN book[d]
                   ELSE [deal |-> msm.Proposals[d], earned |-> 0, until |-> EpochUndefined]]
    /\ UNCHANGED <<epoch, balance>>

\* No deal passed the filter, or locking failed after all.
PublishFails ==
    CASE phase = "filter" -> call.deals = <<>> /\ call.validDeals = <<>>
      [] phase = "store" -> /\ call.validDeals /= <<>>
                            /\ ~CanLockClientAndProviderBalances(msm, Head(call.validDeals))
      [] OTHER -> FALSE

AbortPublish ==
    /\ PublishFails
    /\ phase' = "messages"
    /\ msm' = Idle
    /\ call' = Idle
    /\ UNCHANGED <<epoch, st, balance, book>>

-----------------------------------------------------------------------------
(* Calls from miners.                                                       *)

validateDealCanActivate(deal, miner, sectorExpiration) ==
    /\ deal.Provider = miner
    /\ epoch <= deal.StartEpoch
    /\ deal.EndEpoch <= sectorExpiration

ActivateDeals(miner, ids, sectorExpiry) ==
    /\ phase = "messages"
    /\ \A d \in ids : /\ d \in DOMAIN st.Proposals
                      /\ validateDealCanActivate(st.Proposals[d], miner, sectorExpiry)
                      /\ d \notin DOMAIN st.States
                      /\ st.Proposals[d] \in st.PendingProposals
    /\ st' = [st EXCEPT !.States = [d \in DOMAIN @ \cup ids |->
                IF d \in ids
                THEN [SectorStartEpoch |-> epoch, LastUpdatedEpoch |-> EpochUndefined,
                      SlashEpoch |-> EpochUndefined]
                ELSE @[d]]]
    /\ UNCHANGED <<epoch, phase, msm, call, balance, book>>

\* The miner reports a sector after its activation and, unless its backlog of early
\* terminations is long, before the market's next tick.
TerminationEpochPossible(e, ids) ==
    /\ e <= epoch
    /\ LateTerminations \/ e >= st.LastCron
    /\ \A d \in ids \cap DOMAIN st.States : st.States[d].SectorStartEpoch <= e

OnMinerSectorsTerminate(miner, e, ids) ==
    /\ phase = "messages"
    /\ TerminationEpochPossible(e, ids)
    /\ \A d \in ids \cap DOMAIN st.Proposals :
            /\ st.Proposals[d].Provider = miner
            /\ st.Proposals[d].EndEpoch > e => d \in DOMAIN st.States
    /\ st' = [st EXCEPT !.States = [d \in DOMAIN @ |->
                IF /\ d \in ids \cap DOMAIN st.Proposals
                   /\ st.Proposals[d].EndEpoch > e
                   /\ @[d].SlashEpoch = EpochUndefined
                THEN [@[d] EXCEPT !.SlashEpoch = e]
                ELSE @[d]]]
    /\ UNCHANGED <<epoch, phase, msm, call, balance, book>>

-----------------------------------------------------------------------------
(* market_state.go: one deal at a cron tick.                                *)

everSlashed(state) == state.SlashEpoch /= EpochUndefined

paymentEndEpoch(state, deal) ==
    IF everSlashed(state) THEN state.SlashEpoch ELSE Min2(deal.EndEpoch, epoch)

MutantPayFromStart(state, deal) == deal.StartEpoch

\* LastUpdatedEpoch is EpochUndefined, below every start epoch, before the first update.
paymentStartEpoch(state, deal) == Max2(deal.StartEpoch, state.LastUpdatedEpoch)

totalPayment(state, deal) ==
    Max2(0, (paymentEndEpoch(state, deal) - paymentStartEpoch(state, deal))
            * deal.StoragePricePerEpoch)

dealGetPaymentRemaining(deal, slashEpoch) ==
    (deal.EndEpoch - Max2(slashEpoch, deal.StartEpoch)) * deal.StoragePricePerEpoch

processDealSlashed(m, state, deal) ==
    LET feeBack == unlockBalance(m, deal.Client,
                                 dealGetPaymentRemaining(deal, state.SlashEpoch), "ClientStorageFee")
        collateralBack == unlockBalance(feeBack, deal.Client, deal.ClientCollateral,
                                        "ClientCollateral")
    IN slashBalance(collateralBack, deal.Provider, deal.ProviderCollateral, "ProviderCollateral")

processDealExpired(m, deal) ==
    unlockBalance(unlockBalance(m, deal.Provider, deal.ProviderCollateral, "ProviderCollateral"),
                  deal.Client, deal.ClientCollateral, "ClientCollateral")

MutantNeverExpire(state, deal) == everSlashed(state)

removeDeal(state, deal) == everSlashed(state) \/ epoch >= deal.EndEpoch

updatePendingDealState(m, state, deal) ==
    LET paid == transferBalance(m, deal.Client, deal.Provider, totalPayment(state, deal))
    IN CASE everSlashed(state) -> processDealSlashed(paid, state, deal)
         [] ~everSlashed(state) /\ epoch >= deal.EndEpoch -> processDealExpired(paid, deal)
         [] OTHER -> paid

\* The whole provider collateral is the penalty, so nothing of it is left to unlock.
CollateralPenaltyForDealActivationMissed(providerCollateral) == providerCollateral

processDealInitTimedOut(m, deal) ==
    LET feeBack == unlockBalance(m, deal.Client, TotalStorageFee(deal), "ClientStorageFee")
        collateralBack == unlockBalance(feeBack, deal.Client, deal.ClientCollateral,
                                        "ClientCollateral")
        amountSlashed == CollateralPenaltyForDealActivationMissed(deal.ProviderCollateral)
    IN unlockBalance(slashBalance(collateralBack, deal.Provider, amountSlashed,
                                  "ProviderCollateral"),
                     deal.Provider, ProviderBalanceRequirement(deal) - amountSlashed,
                     "ProviderCollateral")

-----------------------------------------------------------------------------
(* CronTick: every deal operation scheduled since the last tick, by epoch.  *)

CronTick ==
    /\ phase = "messages"
    /\ phase' = "cron"
    /\ msm' = st
    /\ call' = [kind |-> "cron", updatesNeeded |-> {}, amountSlashed |-> 0,
                due |-> {op \in st.DealOpsByEpoch : st.LastCron < op[1] /\ op[1] <= epoch},
                timedOutVerifiedDeals |-> {}, book |-> book]
    /\ UNCHANGED <<epoch, st, balance, book>>

\* The operations of the earliest epoch left; the order within an epoch is the map's.
NextOps == {op \in call.due : \A other \in call.due : op[1] <= other[1]}

\* RequireState and RequireNoErr in the loop body.
DealOpFails(id) ==
    \/ id \notin DOMAIN msm.Proposals
    \/ LET deal == msm.Proposals[id]
       IN \/ epoch < deal.StartEpoch
          \/ IF id \notin DOMAIN msm.States
             THEN \/ deal \notin msm.PendingProposals
                  \/ ~NoNegativeBalance(processDealInitTimedOut(msm, deal))
             ELSE LET state == msm.States[id]
                  IN \/ state.LastUpdatedEpoch = EpochUndefined /\ deal \notin msm.PendingProposals
                     \/ state.LastUpdatedEpoch > epoch
                     \/ state.SlashEpoch > epoch
                     \/ state.SlashEpoch > deal.EndEpoch
                     \/ ~NoNegativeBalance(updatePendingDealState(msm, state, deal))

\* Published, never activated: refund the client, slash the provider, drop the proposal.
TimeOutDeal(op) ==
    LET id == op[2]
        deal == msm.Proposals[id]
    IN /\ phase = "cron"
       /\ op \in NextOps
       /\ ~DealOpFails(id)
       /\ id \notin DOMAIN msm.States
       /\ msm' = [processDealInitTimedOut(msm, deal) EXCEPT
                     !.Proposals = Without(@, id),
                     !.PendingProposals = @ \ {deal}]
       /\ call' = [call EXCEPT
                     !.due = @ \ {op},
                     !.amountSlashed =
                         @ + CollateralPenaltyForDealActivationMissed(deal.ProviderCollateral),
                     !.timedOutVerifiedDeals = IF deal.VerifiedDeal THEN @ \cup {<<id, deal>>} ELSE @,
                     !.book[id].until = deal.StartEpoch]
       /\ UNCHANGED <<epoch, phase, st, balance, book>>

\* An active deal: pay for the epochs elapsed, then end it or schedule its next update.
UpdateDeal(op) ==
    LET id == op[2]
        deal == msm.Proposals[id]
        state == msm.States[id]
        updated == updatePendingDealState(msm, state, deal)
        pending == IF state.LastUpdatedEpoch = EpochUndefined
                   THEN msm.PendingProposals \ {deal} ELSE msm.PendingProposals
    IN /\ phase = "cron"
       /\ op \in NextOps
       /\ ~DealOpFails(id)
       /\ id \in DOMAIN msm.States
       /\ IF removeDeal(state, deal)
          THEN /\ msm' = [updated EXCEPT !.PendingProposals = pending,
                                         !.Proposals = Without(@, id),
                                         !.States = Without(@, id)]
               /\ call' = [call EXCEPT
                             !.due = @ \ {op},
                             !.amountSlashed =
                                 @ + (IF everSlashed(state) THEN deal.ProviderCollateral ELSE 0),
                             !.book[id] =
                                 [deal |-> @.deal, earned |-> @.earned + totalPayment(state, deal),
                                  until |-> IF everSlashed(state) THEN state.SlashEpoch
                                            ELSE deal.EndEpoch]]
          ELSE /\ msm' = [updated EXCEPT !.PendingProposals = pending,
                                         !.States[id].LastUpdatedEpoch = epoch]
               /\ call' = [call EXCEPT
                             !.due = @ \ {op},
                             !.updatesNeeded = @ \cup {<<epoch + DealUpdatesInterval, id>>},
                             !.book[id].earned = @ + totalPayment(state, deal)]
       /\ UNCHANGED <<epoch, phase, st, balance, book>>

\* Commit, restore the data cap of timed-out verified deals, burn what was slashed.
CommitCron ==
    /\ phase = "cron"
    /\ call.due = {}
    /\ call.amountSlashed <= balance
    /\ phase' = "ticked"
    /\ st' = [msm EXCEPT
                !.DealOpsByEpoch = {op \in @ : ~(msm.LastCron < op[1] /\ op[1] <= epoch)}
                                   \cup call.updatesNeeded,
                !.LastCron = epoch]
    /\ msm' = Idle
    /\ call' = Idle
    /\ balance' = balance - call.amountSlashed
    /\ book' = call.book
    /\ UNCHANGED epoch

CronFails ==
    /\ phase = "cron"
    /\ IF call.due = {} THEN call.amountSlashed > balance
       ELSE \E op \in NextOps : DealOpFails(op[2])

\* The cron actor ignores the error; the state is as before the tick.
AbortCron ==
    /\ CronFails
    /\ phase' = "ticked"
    /\ msm' = Idle
    /\ call' = Idle
    /\ UNCHANGED <<epoch, st, balance, book>>

EndCron == IF CronFails THEN AbortCron ELSE CommitCron

NextEpoch(n) ==
    /\ phase = "ticked"
    /\ epoch + n <= MaxEpoch
    /\ epoch' = epoch + n
    /\ phase' = "messages"
    /\ UNCHANGED <<st, msm, call, balance, book>>

\* The model stops at its horizon.
Horizon ==
    /\ phase = "ticked"
    /\ epoch = MaxEpoch
    /\ UNCHANGED vars

Batches == UNION {[1 .. n -> Offers] : n \in 1 .. MaxBatch}

Next ==
    \/ \E a \in Addrs, v \in Deposits : AddBalance(a, v)
    \/ \E a \in Addrs, v \in Withdrawals : WithdrawBalance(a, v)
    \/ \E deals \in Batches : PublishStorageDeals(deals)
    \/ \E inBounds, datacapOk \in BOOLEAN : FilterDeal(inBounds, datacapOk)
    \/ OpenPublish
    \/ StoreDeal
    \/ CommitPublish
    \/ AbortPublish
    \/ \E miner \in Providers, ids \in SUBSET DOMAIN st.Proposals, expiry \in Epochs :
            ActivateDeals(miner, ids, expiry)
    \/ \E miner \in Providers, ids \in SUBSET DOMAIN st.Proposals, e \in Epochs :
            OnMinerSectorsTerminate(miner, e, ids)
    \/ CronTick
    \/ \E op \in st.DealOpsByEpoch : TimeOutDeal(op)
    \/ \E op \in st.DealOpsByEpoch : UpdateDeal(op)
    \/ EndCron
    \/ \E n \in 1 .. MaxNullRounds + 1 : NextEpoch(n)
    \/ Horizon

Spec == Init /\ [][Next]_vars

-----------------------------------------------------------------------------
(* Properties.                                                              *)

PartialFunctions(K, V) == UNION {[D -> V] : D \in SUBSET K}

MarketState ==
    [Proposals : PartialFunctions(DealIDs, Offers),
     States : PartialFunctions(DealIDs, DealState),
     PendingProposals : SUBSET Offers,
     EscrowTable : [Addrs -> Nat], LockedTable : [Addrs -> Nat],
     NextID : Nat, DealOpsByEpoch : SUBSET (Nat \X DealIDs),
     LastCron : Epochs \cup {-1}, Totals : [BalanceLockingReason -> Int]]

\* Every variable has the type its field has in the code's State.
TypeOK ==
    /\ epoch \in Epochs
    /\ phase \in {"messages", "filter", "store", "cron", "ticked"}
    /\ st \in MarketState
    /\ phase \in {"store", "cron"} => msm \in MarketState
    /\ balance \in Nat

\* No account's locked funds exceed what it has in escrow, whatever deposits, withdrawals,
\* publications, payments and slashes came before (locked <= escrow in CheckStateInvariants).
EscrowCoversLocked == \A a \in Addrs : st.LockedTable[a] <= st.EscrowTable[a]

\* Until when a live deal has paid, and the storage fee it has still to pay.
PaidUntil(s, d) ==
    IF d \in DOMAIN s.States THEN Max2(s.Proposals[d].StartEpoch, s.States[d].LastUpdatedEpoch)
    ELSE s.Proposals[d].StartEpoch

FeeOwed(s, d) ==
    (s.Proposals[d].EndEpoch - PaidUntil(s, d)) * s.Proposals[d].StoragePricePerEpoch

\* What live deal d keeps locked for account a, and for reason r.
Owes(s, d, a) ==
    (IF s.Proposals[d].Client = a THEN s.Proposals[d].ClientCollateral + FeeOwed(s, d) ELSE 0)
    + (IF s.Proposals[d].Provider = a THEN s.Proposals[d].ProviderCollateral ELSE 0)

OwesFor(s, d, r) ==
    CASE r = "ClientCollateral" -> s.Proposals[d].ClientCollateral
      [] r = "ClientStorageFee" -> FeeOwed(s, d)
      [] r = "ProviderCollateral" -> s.Proposals[d].ProviderCollateral

OwedBy(s, a) == SumOf([d \in DOMAIN s.Proposals |-> Owes(s, d, a)], DOMAIN s.Proposals)
TotalOwed(s, r) == SumOf([d \in DOMAIN s.Proposals |-> OwesFor(s, d, r)], DOMAIN s.Proposals)

\* Tokens are conserved: the actor holds exactly what the escrow table promises, so payments
\* move tokens between accounts and only withdrawals and burnt slashes take them out.
Solvent == balance = SumOf(st.EscrowTable, Addrs)

\* The books balance.  What is locked for an account is exactly what its live deals still owe:
\* publication locks it, each update releases what it pays, and the end of a deal, by expiry,
\* slash or timeout, releases the rest, in whatever order ticks, activations and terminations
\* come.  The three running totals of State, kept beside it, agree with the live deals too, and
\* the actor holds what the escrow table promises.
BooksBalance ==
    /\ \A a \in Addrs : st.LockedTable[a] = OwedBy(st, a)
    /\ \A r \in BalanceLockingReason : st.Totals[r] = TotalOwed(st, r)
    /\ Solvent

\* "negative total client storage fee" and its two companions in CheckStateInvariants
\* (market/testing.go): no running total of State is negative.
TotalsNonNegative == \A r \in BalanceLockingReason : st.Totals[r] >= 0

\* Cron never loses or repeats a deal: every live deal has exactly one scheduled operation, in
\* an epoch no tick has passed and not before its start, and no operation outlives its deal.
ScheduleMatchesDeals ==
    /\ \A d \in DOMAIN st.Proposals : \E op \in st.DealOpsByEpoch : op[2] = d
    /\ \A op \in st.DealOpsByEpoch :
            /\ op[2] \in DOMAIN st.Proposals
            /\ op[1] > st.LastCron
            /\ op[1] >= st.Proposals[op[2]].StartEpoch
            /\ \A other \in st.DealOpsByEpoch : other[2] = op[2] => other = op

\* A live deal is in PendingProposals exactly until cron first updates it.
AwaitsFirstUpdate(s, d) ==
    d \notin DOMAIN s.States \/ s.States[d].LastUpdatedEpoch = EpochUndefined

\* Deals are tracked exactly: cron has one operation for each (ScheduleMatchesDeals), and a
\* client's signature is used at most once.  The proposal of a live deal cannot be published
\* again, because it is pending until cron first updates the deal and by then its start epoch
\* has passed; distinct live deals have distinct proposals.
DealsTracked ==
    /\ ScheduleMatchesDeals
    /\ \A d1, d2 \in DOMAIN st.Proposals : st.Proposals[d1] = st.Proposals[d2] => d1 = d2
    /\ st.PendingProposals = {st.Proposals[d] : d \in {x \in DOMAIN st.Proposals : AwaitsFirstUpdate(st, x)}}

\* When a deal is over its provider has been paid the price of the epochs from the deal's start
\* to its end or its termination, and not a token more, however the updates were spaced;
\* while it runs the provider is never paid ahead of time.
PaymentExact ==
    \A d \in DOMAIN book :
        LET deal == book[d].deal
            owing(e) == Max2(0, e - deal.StartEpoch) * deal.StoragePricePerEpoch
        IN IF d \in DOMAIN st.Proposals
           THEN book[d].earned <= owing(Min2(epoch, deal.EndEpoch))
           ELSE book[d].earned = owing(book[d].until)

\* "This should only fail on programmer error": a deal that passed the filter can be locked when
\* its turn comes, although the filter only ever looked at the state before the batch; and no
\* operation of a tick fails, so a tick never leaves the other deals unprocessed.
HandlersNeverFail ==
    /\ phase = "store" => ~PublishFails
    /\ ~CronFails

\* Terminations that a backlog of the miner reports late may make a tick fail, and even then the
\* market holds what it owes and cron has one operation for every live deal.
SolventAndScheduled == Solvent /\ ScheduleMatchesDeals

\* Every deal published is settled in the end: it leaves the state and its funds are unlocked.
DealsEnd == \A d \in DealIDs : (d \in DOMAIN st.Proposals) ~> (d \notin DOMAIN st.Proposals)

=============================================================================
