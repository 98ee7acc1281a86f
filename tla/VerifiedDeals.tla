--------------------------- MODULE VerifiedDeals ---------------------------
(***************************************************************************)
(* The storage market composed with the verified registry: the market      *)
(* calls UseBytes for each verified deal that it publishes and             *)
(* RestoreBytes for each one that times out.  Between the two the root key *)
(* and the verifiers go on changing the registry.                          *)
(***************************************************************************)
EXTENDS Market, VerifReg

CONSTANT PieceSize   \* bytes of an offer's piece

ASSUME PieceSizeAssumption == PieceSize \in [Offers -> Nat]
ASSUME ClientsAssumption == Clients \subseteq Accounts

VARIABLES
    checkpoint,  \* reg and ledger before the PublishStorageDeals in progress
    restoring,   \* timedOutVerifiedDeals of the tick that RestoreBytes is still to be sent for
    activated    \* history: deals that were ever activated

allVars == <<vars, registry, checkpoint, restoring, activated>>
registryVars == <<registry, checkpoint, restoring, activated>>

VInit ==
    /\ Init
    /\ RegistryInit
    /\ checkpoint = [reg |-> reg, ledger |-> ledger]
    /\ restoring = {}
    /\ activated = {}

VPublishStorageDeals(deals) ==
    /\ st.NextID + Len(deals) <= bounds.deals
    /\ PublishStorageDeals(deals)
    /\ checkpoint' = [reg |-> reg, ledger |-> ledger]
    /\ UNCHANGED <<registry, restoring, activated>>

\* History: what a client with this cap loses by a deal, a remainder too small for any other.
Remainder(cap, dealSize) == IF cap - dealSize < MinVerifiedDealSize THEN cap - dealSize ELSE 0

\* The send of UseBytes for a deal that has passed the market's own checks.
AcquireDataCap(deal) ==
    /\ reg' = UseBytes(reg, deal.Client, PieceSize[deal])
    /\ ledger' = [ledger EXCEPT ![deal.Client].lost =
                    @ + Remainder(reg.VerifiedClients[deal.Client], PieceSize[deal])]

VFilterDeal(inBounds) ==
    /\ phase = "filter" /\ call.deals # <<>>
    /\ \E deal \in {Head(call.deals)} :
          \E datacapOk \in {CanUseBytes(reg, deal.Client, PieceSize[deal])} :
             /\ IF deal.VerifiedDeal /\ PassesMarketChecks(deal, inBounds) /\ datacapOk
                THEN AcquireDataCap(deal) ELSE UNCHANGED <<reg, ledger>>
             /\ FilterDeal(inBounds, datacapOk)
    /\ UNCHANGED <<removals, bounds, checkpoint, restoring, activated>>

\* The abort of a message undoes what its sends have done.
VAbortPublish ==
    /\ AbortPublish
    /\ reg' = checkpoint.reg
    /\ ledger' = checkpoint.ledger
    /\ UNCHANGED <<removals, bounds, checkpoint, restoring, activated>>

VActivateDeals(miner, ids, expiry) ==
    /\ ActivateDeals(miner, ids, expiry)
    /\ activated' = activated \cup ids
    /\ UNCHANGED <<registry, checkpoint, restoring>>

\* The tick's sends follow the commit of the market's state.
VEndCron ==
    /\ EndCron
    /\ restoring' = IF CronFails THEN {} ELSE call.timedOutVerifiedDeals
    /\ UNCHANGED <<registry, checkpoint, activated>>

\* RestoreBytes for one deal that timed out; a call that fails is logged and forgotten.
VRestoreBytes(d) ==
    /\ d \in restoring
    /\ restoring' = restoring \ {d}
    /\ \E client \in {d[2].Client}, dealSize \in {PieceSize[d[2]]} :
          /\ reg' = RestoreBytes(reg, client, dealSize)
          /\ ledger' = [ledger EXCEPT ![client].lost =
                            @ + (IF CanRestoreBytes(reg, client, dealSize) THEN 0 ELSE dealSize)]
    /\ UNCHANGED <<vars, removals, bounds, checkpoint, activated>>

\* The steps of the market that send nothing to the registry.
MarketAlone ==
    /\ \/ \E a \in Addrs, v \in Deposits : AddBalance(a, v)
       \/ \E a \in Addrs, v \in Withdrawals : WithdrawBalance(a, v)
       \/ OpenPublish
       \/ StoreDeal
       \/ CommitPublish
       \/ \E miner \in Providers, ids \in SUBSET DOMAIN st.Proposals, e \in Epochs :
             OnMinerSectorsTerminate(miner, e, ids)
       \/ CronTick
       \/ \E op \in st.DealOpsByEpoch : TimeOutDeal(op) \/ UpdateDeal(op)
       \/ \E n \in 1 .. MaxNullRounds + 1 : NextEpoch(n)
       \/ Horizon
    /\ restoring = {}
    /\ UNCHANGED registryVars

RegistryAlone ==
    /\ phase = "messages"
    /\ RegistryNext
    /\ UNCHANGED <<vars, checkpoint, restoring, activated>>

VNext ==
    \/ MarketAlone
    \/ RegistryAlone
    \/ \E deals \in Batches : VPublishStorageDeals(deals)
    \/ \E inBounds \in BOOLEAN : VFilterDeal(inBounds)
    \/ VAbortPublish
    \/ \E miner \in Providers, ids \in SUBSET DOMAIN st.Proposals, expiry \in Epochs :
            VActivateDeals(miner, ids, expiry)
    \/ VEndCron
    \/ \E d \in restoring : VRestoreBytes(d)

VSpec == VInit /\ [][VNext]_allVars

\* A handler runs to its end, and every epoch ends with a tick.
VFairSpec ==
    /\ VSpec
    /\ WF_allVars(\E inBounds \in BOOLEAN : VFilterDeal(inBounds))
    /\ WF_allVars(VAbortPublish \/ ((OpenPublish \/ StoreDeal \/ CommitPublish) /\ UNCHANGED registryVars))
    /\ SF_allVars(CronTick /\ UNCHANGED registryVars)
    /\ WF_allVars((\E op \in st.DealOpsByEpoch : TimeOutDeal(op) \/ UpdateDeal(op)) /\ UNCHANGED registryVars)
    /\ WF_allVars(VEndCron)
    /\ WF_allVars(\E d \in restoring : VRestoreBytes(d))
    /\ WF_allVars((\E n \in 1 .. MaxNullRounds + 1 : NextEpoch(n)) /\ restoring = {} /\ UNCHANGED registryVars)

-----------------------------------------------------------------------------
(* Properties *)

\* The data cap that verified deals hold: while they are live, and for good once activated.
Spent(client) ==
    SumOf([d \in DOMAIN book |-> PieceSize[book[d].deal]],
          {d \in DOMAIN book : /\ book[d].deal.VerifiedDeal
                               /\ book[d].deal.Client = client
                               /\ d \in DOMAIN st.Proposals \cup activated})

\* Every byte of data cap granted to a client is, between messages, in exactly one place: still
\* its cap, in a deal that is live or was activated, removed, or lost.  A batch that aborts has
\* used nothing, a deal that timed out has given back what it used, once, and a tick that fails
\* has restored nothing.  Lost are the remainders below MinVerifiedDealSize, and what a client
\* that has become a verifier cannot be given back.
DataCapAccounted ==
    phase \in {"messages", "cron", "ticked"} /\ restoring = {} =>
        \A c \in Clients :
            ledger[c].granted =
                Lookup(reg.VerifiedClients, c) + Spent(c) + ledger[c].removed + ledger[c].lost

\* As long as no tick fails every deal, verified or not, is settled in the end, whatever happens
\* to its client in the registry.
DealsSettle == []~CronFails => DealsEnd
=============================================================================
