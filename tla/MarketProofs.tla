---------------------------- MODULE MarketProofs ----------------------------
(***************************************************************************)
(* Theorems about Market, for every set of accounts and offers and every   *)
(* bound: types, the locks that the escrow covers, and the deals and their *)
(* operations; and the laws of sums that the other proofs about the market *)
(* need.  MarketFundsProofs and MarketBooksProofs go on to what the        *)
(* operations do to the balances and to the sums.                          *)
(***************************************************************************)
EXTENDS Market, TLAPS

\* Both provers, with room for a slow machine.
USE SMTT(40), ZenonT(40)

\* A number above all members of a set is not one of them.
LEMMA AboveAll == ASSUME NEW S, NEW n \in Nat, \A d \in S : d \in Nat /\ d < n PROVE n \notin S
OBVIOUS

\* A later epoch is after whatever the earlier one is after.
LEMMA Later ==
    \A e, k \in Nat, c \in Int : k > 0 /\ c < e => e + k \in Nat /\ e + k > e /\ e + k >= e /\ e + k > c
OBVIOUS

\* No x is after y, before z, and at least z.
LEMMA NotBetween == \A x, y, z \in Int : ~(y < z /\ z <= x /\ x <= y)
OBVIOUS

\* Working copies of the state: a table entry may be negative until NoNegativeBalance is checked.
WorkingState ==
    [Proposals : PartialFunctions(DealIDs, Offers),
     States : PartialFunctions(DealIDs, DealState),
     PendingProposals : SUBSET Offers,
     EscrowTable : [Addrs -> Int], LockedTable : [Addrs -> Int],
     NextID : Nat, DealOpsByEpoch : SUBSET (Nat \X DealIDs),
     LastCron : Epochs \cup {-1}, Totals : [BalanceLockingReason -> Int]]

Covered(m) == \A a \in Addrs : m.LockedTable[a] <= m.EscrowTable[a]

\* The balance operations touch the tables and the totals only.
SameDeals(m, n) ==
    /\ n.Proposals = m.Proposals
    /\ n.States = m.States
    /\ n.PendingProposals = m.PendingProposals
    /\ n.NextID = m.NextID
    /\ n.DealOpsByEpoch = m.DealOpsByEpoch
    /\ n.LastCron = m.LastCron

SameBalances(m, n) ==
    n.EscrowTable = m.EscrowTable /\ n.LockedTable = m.LockedTable /\ n.Totals = m.Totals

\* n is a working copy that covers its locks if m is one that does.
BalanceStep(m, n) ==
    /\ n \in WorkingState
    /\ SameDeals(m, n)
    /\ Covered(m) => Covered(n)

\* The amounts of a signed proposal are natural numbers.
LEMMA OfferAmounts ==
    ASSUME NEW p \in Offers
    PROVE  /\ p.Client \in Addrs /\ p.Provider \in Addrs /\ p.Client /= p.Provider
           /\ p.StartEpoch \in Nat /\ p.EndEpoch \in Nat /\ p.StartEpoch < p.EndEpoch
           /\ p.StoragePricePerEpoch \in Nat
           /\ p.ClientCollateral \in Nat /\ p.ProviderCollateral \in Nat
           /\ TotalStorageFee(p) \in Nat /\ ClientBalanceRequirement(p) \in Nat
<1>1. p \in DealProposal /\ p.StartEpoch < p.EndEpoch
  BY OffersAssumption
<1>2. /\ p.Client \in Clients /\ p.Provider \in Providers
      /\ p.StartEpoch \in Nat /\ p.EndEpoch \in Nat
      /\ p.StoragePricePerEpoch \in Nat
      /\ p.ClientCollateral \in Nat /\ p.ProviderCollateral \in Nat
  BY <1>1, BoundsAssumption DEF DealProposal, Epochs
<1>3. p.EndEpoch - p.StartEpoch \in Nat
  BY <1>1, <1>2
<1>4. TotalStorageFee(p) \in Nat
  BY <1>2, <1>3 DEF TotalStorageFee
<1> QED
  BY <1>1, <1>2, <1>4, AddrsAssumption DEF ClientBalanceRequirement, Addrs

\* A working copy with other balances is a working copy.
LEMMA TablesType ==
    ASSUME NEW m \in WorkingState, NEW E \in [Addrs -> Int], NEW L \in [Addrs -> Int],
           NEW T \in [BalanceLockingReason -> Int]
    PROVE  [m EXCEPT !.EscrowTable = E, !.LockedTable = L, !.Totals = T] \in WorkingState
BY Zenon DEF WorkingState

\* unlockBalance frees funds: it never makes an account owe more than it has.
LEMMA UnlockStep ==
    ASSUME NEW m \in WorkingState, NEW a \in Addrs, NEW amount \in Nat,
           NEW r \in BalanceLockingReason
    PROVE  BalanceStep(m, unlockBalance(m, a, amount, r))
<1> DEFINE L == [m.LockedTable EXCEPT ![a] = @ - amount]
           T == [m.Totals EXCEPT ![r] = @ - amount]
           n == [m EXCEPT !.EscrowTable = m.EscrowTable, !.LockedTable = L, !.Totals = T]
<1>1. m.EscrowTable \in [Addrs -> Int] /\ L \in [Addrs -> Int] /\ T \in [BalanceLockingReason -> Int]
  BY DEF WorkingState
<1>2. unlockBalance(m, a, amount, r) = n
  BY Zenon DEF WorkingState, unlockBalance
<1>3. n \in WorkingState
  <2> HIDE DEF L, T
  <2> QED BY <1>1, TablesType, Zenon
<1>4. SameDeals(m, unlockBalance(m, a, amount, r))
  BY DEF WorkingState, unlockBalance, SameDeals
<1>5. ASSUME Covered(m) PROVE Covered(unlockBalance(m, a, amount, r))
  BY <1>5 DEF WorkingState, unlockBalance, Covered
<1> QED BY <1>2, <1>3, <1>4, <1>5 DEF BalanceStep

\* transferBalance pays from what the payer had locked, so both stay covered.
LEMMA TransferStep ==
    ASSUME NEW m \in WorkingState, NEW a \in Addrs, NEW b \in Addrs, NEW amount \in Nat
    PROVE  BalanceStep(m, transferBalance(m, a, b, amount))
<1> DEFINE r == "ClientStorageFee"
           E == [[m.EscrowTable EXCEPT ![a] = @ - amount] EXCEPT ![b] = @ + amount]
           L == [m.LockedTable EXCEPT ![a] = @ - amount]
           T == [m.Totals EXCEPT ![r] = @ - amount]
           n == [m EXCEPT !.EscrowTable = E, !.LockedTable = L, !.Totals = T]
<1>1. E \in [Addrs -> Int] /\ L \in [Addrs -> Int] /\ T \in [BalanceLockingReason -> Int]
  BY DEF WorkingState, BalanceLockingReason
<1>2. transferBalance(m, a, b, amount) = n
  BY Zenon DEF WorkingState, transferBalance, unlockBalance
<1>3. n \in WorkingState
  <2> HIDE DEF E, L, T
  <2> QED BY <1>1, TablesType, Zenon
<1>4. SameDeals(m, n)
  BY DEF WorkingState, SameDeals
<1>5. ASSUME Covered(m) PROVE Covered(n)
  BY <1>5 DEF WorkingState, Covered
<1> QED BY <1>2, <1>3, <1>4, <1>5 DEF BalanceStep

\* slashBalance burns locked funds only.
LEMMA SlashStep ==
    ASSUME NEW m \in WorkingState, NEW a \in Addrs, NEW amount \in Nat,
           NEW r \in BalanceLockingReason
    PROVE  BalanceStep(m, slashBalance(m, a, amount, r))
<1> DEFINE E == [m.EscrowTable EXCEPT ![a] = @ - amount]
           L == [m.LockedTable EXCEPT ![a] = @ - amount]
           T == [m.Totals EXCEPT ![r] = @ - amount]
           n == [m EXCEPT !.EscrowTable = E, !.LockedTable = L, !.Totals = T]
<1>1. E \in [Addrs -> Int] /\ L \in [Addrs -> Int] /\ T \in [BalanceLockingReason -> Int]
  BY DEF WorkingState
<1>2. slashBalance(m, a, amount, r) = n
  BY DEF WorkingState, slashBalance, unlockBalance
<1>3. n \in WorkingState
  <2> HIDE DEF E, L, T
  <2> QED BY <1>1, TablesType, Zenon
<1>4. SameDeals(m, n)
  BY DEF WorkingState, SameDeals
<1>5. ASSUME Covered(m) PROVE Covered(n)
  BY <1>5 DEF WorkingState, Covered
<1> QED BY <1>2, <1>3, <1>4, <1>5 DEF BalanceStep

\* Balance operations compose: two that keep every lock covered do so together.
LEMMA BalanceStepTrans ==
    ASSUME NEW m, NEW n, NEW k, BalanceStep(m, n), BalanceStep(n, k)
    PROVE  BalanceStep(m, k)
BY DEF BalanceStep, SameDeals

\* One deal of a tick: whatever its state, the payment, refund and slash keep every lock covered.
LEMMA UpdateStep ==
    ASSUME NEW m \in WorkingState, NEW deal \in Offers, NEW state \in DealState,
           epoch \in Epochs, state.SlashEpoch <= deal.EndEpoch
    PROVE  BalanceStep(m, updatePendingDealState(m, state, deal)) /\ totalPayment(state, deal) \in Nat
<1> DEFINE remaining == dealGetPaymentRemaining(deal, state.SlashEpoch)
           paid == transferBalance(m, deal.Client, deal.Provider, totalPayment(state, deal))
<1>1. /\ deal.Client \in Addrs /\ deal.Provider \in Addrs
      /\ deal.StartEpoch \in Nat /\ deal.EndEpoch \in Nat /\ deal.StartEpoch < deal.EndEpoch
      /\ deal.StoragePricePerEpoch \in Nat
      /\ deal.ClientCollateral \in Nat /\ deal.ProviderCollateral \in Nat
  BY OfferAmounts
<1>2. state.LastUpdatedEpoch \in Int /\ state.SlashEpoch \in Int /\ epoch \in Int
  BY BoundsAssumption DEF DealState, Epochs, EpochUndefined
<1>3. totalPayment(state, deal) \in Nat
  <2>1. paymentEndEpoch(state, deal) - paymentStartEpoch(state, deal) \in Int
    BY <1>1, <1>2 DEF paymentEndEpoch, paymentStartEpoch, Min2, Max2
  <2>2. (paymentEndEpoch(state, deal) - paymentStartEpoch(state, deal))
            * deal.StoragePricePerEpoch \in Int
    BY <2>1, <1>1
  <2> QED BY <2>2 DEF totalPayment, Max2
<1>4. remaining \in Nat
  <2>1. deal.EndEpoch - Max2(state.SlashEpoch, deal.StartEpoch) \in Nat
    BY <1>1, <1>2 DEF Max2
  <2> QED BY <2>1, <1>1 DEF dealGetPaymentRemaining
<1>5. BalanceStep(m, paid)
  BY <1>1, <1>3, TransferStep
<1>6. paid \in WorkingState
  BY <1>5 DEF BalanceStep
<1> HIDE DEF paid, remaining
<1>r. {"ClientStorageFee", "ClientCollateral", "ProviderCollateral"} \subseteq BalanceLockingReason
  BY DEF BalanceLockingReason
<1>s. \A w, n : BalanceStep(w, n) => n \in WorkingState
  BY Zenon DEF BalanceStep
<1>7. BalanceStep(paid, processDealSlashed(paid, state, deal))
  <2> DEFINE u1 == unlockBalance(paid, deal.Client, remaining, "ClientStorageFee")
             u2 == unlockBalance(u1, deal.Client, deal.ClientCollateral, "ClientCollateral")
             u3 == slashBalance(u2, deal.Provider, deal.ProviderCollateral, "ProviderCollateral")
  <2>1. BalanceStep(paid, u1) /\ u1 \in WorkingState
    BY <1>1, <1>4, <1>6, <1>r, <1>s, UnlockStep
  <2>2. processDealSlashed(paid, state, deal) = u3
    BY DEF processDealSlashed, remaining
  <2> HIDE DEF u1
  <2>3. BalanceStep(u1, u2) /\ u2 \in WorkingState
    BY <1>1, <2>1, <1>r, <1>s, UnlockStep
  <2> HIDE DEF u2
  <2>4. BalanceStep(u2, u3)
    BY <1>1, <2>3, <1>r, SlashStep
  <2> HIDE DEF u3
  <2> QED BY <2>1, <2>2, <2>3, <2>4, BalanceStepTrans
<1>8. BalanceStep(paid, processDealExpired(paid, deal))
  <2> DEFINE u1 == unlockBalance(paid, deal.Provider, deal.ProviderCollateral, "ProviderCollateral")
             u2 == unlockBalance(u1, deal.Client, deal.ClientCollateral, "ClientCollateral")
  <2>1. BalanceStep(paid, u1) /\ u1 \in WorkingState
    BY <1>1, <1>6, <1>r, <1>s, UnlockStep
  <2>2. processDealExpired(paid, deal) = u2
    BY DEF processDealExpired
  <2> HIDE DEF u1
  <2>3. BalanceStep(u1, u2)
    BY <1>1, <2>1, <1>r, UnlockStep
  <2> HIDE DEF u2
  <2> QED BY <2>1, <2>2, <2>3, BalanceStepTrans
<1>9. updatePendingDealState(m, state, deal)
         \in {paid, processDealSlashed(paid, state, deal), processDealExpired(paid, deal)}
  BY DEF updatePendingDealState, paid
<1> QED BY <1>3, <1>5, <1>7, <1>8, <1>9, BalanceStepTrans

\* A deal that was never activated: the same.
LEMMA TimeOutStep ==
    ASSUME NEW m \in WorkingState, NEW deal \in Offers
    PROVE  BalanceStep(m, processDealInitTimedOut(m, deal))
<1> DEFINE u1 == unlockBalance(m, deal.Client, TotalStorageFee(deal), "ClientStorageFee")
           u2 == unlockBalance(u1, deal.Client, deal.ClientCollateral, "ClientCollateral")
           u3 == slashBalance(u2, deal.Provider, deal.ProviderCollateral, "ProviderCollateral")
           u4 == unlockBalance(u3, deal.Provider,
                               deal.ProviderCollateral - deal.ProviderCollateral, "ProviderCollateral")
<1>1. /\ deal.Client \in Addrs /\ deal.Provider \in Addrs /\ TotalStorageFee(deal) \in Nat
      /\ deal.ClientCollateral \in Nat /\ deal.ProviderCollateral \in Nat
      /\ deal.ProviderCollateral - deal.ProviderCollateral \in Nat
  BY OfferAmounts
<1>2. BalanceStep(m, u1) /\ u1 \in WorkingState
  BY <1>1, UnlockStep DEF BalanceLockingReason, BalanceStep
<1>3. processDealInitTimedOut(m, deal) = u4
  BY DEF processDealInitTimedOut, CollateralPenaltyForDealActivationMissed, ProviderBalanceRequirement
<1> HIDE DEF u1
<1>4. BalanceStep(u1, u2) /\ u2 \in WorkingState
  BY <1>1, <1>2, UnlockStep DEF BalanceLockingReason, BalanceStep
<1> HIDE DEF u2
<1>5. BalanceStep(u2, u3) /\ u3 \in WorkingState
  BY <1>1, <1>4, SlashStep DEF BalanceLockingReason, BalanceStep
<1> HIDE DEF u3
<1>6. BalanceStep(u3, u4)
  BY <1>1, <1>5, UnlockStep DEF BalanceLockingReason
<1> HIDE DEF u4
<1> QED BY <1>2, <1>3, <1>4, <1>5, <1>6, BalanceStepTrans

\* Working copies and committed states differ in the sign of the balances only.
LEMMA WorkingStates ==
    /\ \A m \in MarketState : m \in WorkingState /\ NoNegativeBalance(m)
    /\ \A m \in WorkingState : NoNegativeBalance(m) => m \in MarketState
<1>1. ASSUME NEW m \in MarketState PROVE m \in WorkingState /\ NoNegativeBalance(m)
  BY DEF MarketState, WorkingState, NoNegativeBalance
<1>2. ASSUME NEW m \in WorkingState, NoNegativeBalance(m) PROVE m \in MarketState
  <2>1. m.EscrowTable \in [Addrs -> Nat] /\ m.LockedTable \in [Addrs -> Nat]
    BY <1>2 DEF WorkingState, NoNegativeBalance
  <2> QED BY <2>1 DEF MarketState, WorkingState
<1> QED BY <1>1, <1>2

\* Removing an entry of a table keeps the type of the table.
LEMMA WithoutType ==
    ASSUME NEW V, NEW f \in PartialFunctions(DealIDs, V), NEW k
    PROVE  /\ Without(f, k) \in PartialFunctions(DealIDs, V)
           /\ DOMAIN Without(f, k) = DOMAIN f \ {k}
           /\ \A x \in DOMAIN f \ {k} : Without(f, k)[x] = f[x]
<1>1. PICK D \in SUBSET DealIDs : f \in [D -> V]
  BY DEF PartialFunctions
<1>2. Without(f, k) \in [D \ {k} -> V] /\ D \ {k} \in SUBSET DealIDs
  BY <1>1 DEF Without
<1> QED BY <1>2, Zenon DEF PartialFunctions, Without

\* A table maps its keys to values, and setting an entry it has keeps its type.
LEMMA PartialFunctionType ==
    ASSUME NEW K, NEW V, NEW f \in PartialFunctions(K, V)
    PROVE  /\ DOMAIN f \subseteq K
           /\ \A x \in DOMAIN f : f[x] \in V
           /\ \A k \in DOMAIN f, v \in V : [f EXCEPT ![k] = v] \in PartialFunctions(K, V)
<1>1. PICK D \in SUBSET K : f \in [D -> V]
  BY DEF PartialFunctions
<1> QED BY <1>1 DEF PartialFunctions

\* GenRandNextEpoch never schedules a deal before its start.
LEMMA NextEpochAfterStart ==
    ASSUME NEW start \in Nat, NEW id \in Nat
    PROVE  GenRandNextEpoch(start, id) \in Nat /\ GenRandNextEpoch(start, id) >= start
<1> DEFINE unit == DealUpdatesInterval
           up == QuantizeUp(start, unit)
           down == QuantizeDown(start, unit)
<1>1. unit \in Nat /\ unit > 0 /\ id % unit \in Nat
  BY BoundsAssumption
<1>2. up \in Nat /\ up >= start
  <2> DEFINE x == start + unit - 1
             q == x \div unit
  <2>1. x \in Nat
    BY <1>1
  <2> HIDE DEF x
  <2>2. q \in Nat /\ unit * q + (x % unit) = x /\ x % unit <= unit - 1 /\ x % unit \in Nat
    BY <1>1, <2>1
  <2>3. unit * q \in Nat
    BY <1>1, <2>2
  <2> HIDE DEF q
  <2>4. unit * q >= x - unit + 1
    BY <1>1, <2>1, <2>2, <2>3
  <2> QED BY <1>1, <2>3, <2>4 DEF QuantizeUp, x, q
<1>3. down \in Int
  BY <1>1, <1>2 DEF QuantizeDown
<1> HIDE DEF up, down
<1> QED BY <1>1, <1>2, <1>3 DEF GenRandNextEpoch, up, down

-----------------------------------------------------------------------------
(* Type correctness.                                                        *)

BookEntry == [deal : Offers, earned : Nat, until : Epochs \cup {EpochUndefined}]

Book == PartialFunctions(DealIDs, BookEntry)

PublishCall ==
    [kind : {"publish"}, deals : Seq(Offers), provider : Providers, validDeals : Seq(Offers),
     totalClientLockup : [Clients -> Nat], totalProviderLockup : Nat]

CronCall ==
    [kind : {"cron"}, updatesNeeded : SUBSET (Nat \X DealIDs), amountSlashed : Nat,
     due : SUBSET (Nat \X DealIDs), timedOutVerifiedDeals : SUBSET (DealIDs \X Offers), book : Book]

\* TypeOK, the type of the handler's locals, and enough deal IDs for the deals in hand.
TypeInv ==
    /\ TypeOK
    /\ book \in Book
    /\ phase \in {"filter", "store"} => call \in PublishCall
    /\ phase = "cron" => call \in CronCall
    /\ phase = "filter" => st.NextID + Len(call.deals) + Len(call.validDeals) <= MaxDeals
    /\ phase = "store" => /\ msm.NextID + Len(call.validDeals) <= MaxDeals
                          /\ st.NextID .. (msm.NextID - 1) \subseteq DOMAIN msm.Proposals

\* What storing a deal changes.
StoreEffect ==
    LET deal == Head(call.validDeals)
        id == msm.NextID
    IN /\ deal \in Offers /\ id \in DealIDs
       /\ msm'.Proposals = Put(msm.Proposals, id, deal)
       /\ msm'.States = msm.States
       /\ msm'.PendingProposals = msm.PendingProposals \cup {deal}
       /\ msm'.NextID = id + 1
       /\ msm'.DealOpsByEpoch =
             msm.DealOpsByEpoch \cup {<<GenRandNextEpoch(deal.StartEpoch, id), id>>}
       /\ msm'.LastCron = msm.LastCron
       /\ SameBalances(lockClientAndProviderBalances(msm, deal), msm')
       /\ Covered(msm) => Covered(msm')
       /\ call'.validDeals = Tail(call.validDeals)

\* Storing a deal locks what both parties owe, in a well-formed copy.
LEMMA StoreType ==
    ASSUME TypeInv, StoreDeal
    PROVE  TypeInv' /\ StoreEffect
\* Setting an entry of a table keeps the type of the table.
<1>PutType.
    ASSUME NEW f \in PartialFunctions(DealIDs, Offers), NEW k \in DealIDs, NEW v \in Offers
    PROVE  /\ Put(f, k, v) \in PartialFunctions(DealIDs, Offers)
           /\ DOMAIN Put(f, k, v) = DOMAIN f \cup {k}
           /\ \A x \in DOMAIN f \cup {k} : Put(f, k, v)[x] = IF x = k THEN v ELSE f[x]
  <2> USE <1>PutType
  <2>1. PICK D \in SUBSET DealIDs : f \in [D -> Offers]
    BY DEF PartialFunctions
  <2>2. Put(f, k, v) \in [D \cup {k} -> Offers] /\ D \cup {k} \in SUBSET DealIDs
    BY <2>1 DEF Put
  <2> QED BY <2>2 DEF PartialFunctions, Put
\* Locking a deal's funds keeps the working copy well typed, and covered if the balances are.
<1>LockType.
    ASSUME NEW m \in MarketState, NEW deal \in Offers
    PROVE  LET n == lockClientAndProviderBalances(m, deal)
           IN /\ n \in MarketState
              /\ SameDeals(m, n)
              /\ Covered(m) /\ CanLockClientAndProviderBalances(m, deal) => Covered(n)
  <2> USE <1>LockType
  <2> DEFINE L == [a \in Addrs |->
                    m.LockedTable[a] + (IF a = deal.Client THEN ClientBalanceRequirement(deal) ELSE 0)
                         + (IF a = deal.Provider THEN deal.ProviderCollateral ELSE 0)]
             T == [r \in BalanceLockingReason |->
                    m.Totals[r] + (CASE r = "ClientCollateral" -> deal.ClientCollateral
                              [] r = "ClientStorageFee" -> TotalStorageFee(deal)
                              [] r = "ProviderCollateral" -> deal.ProviderCollateral)]
             n == lockClientAndProviderBalances(m, deal)
  <2>1. /\ deal.Client \in Addrs /\ deal.Provider \in Addrs /\ deal.Client /= deal.Provider
        /\ deal.ClientCollateral \in Nat /\ deal.ProviderCollateral \in Nat
        /\ TotalStorageFee(deal) \in Nat /\ ClientBalanceRequirement(deal) \in Nat
    BY OfferAmounts
  <2>2. m.LockedTable \in [Addrs -> Nat] /\ m.EscrowTable \in [Addrs -> Nat]
        /\ m.Totals \in [BalanceLockingReason -> Int]
    BY DEF MarketState
  <2>3. L \in [Addrs -> Nat]
    BY <2>1, <2>2
  <2>4. T \in [BalanceLockingReason -> Int]
    <3> SUFFICES ASSUME NEW r \in BalanceLockingReason PROVE T[r] \in Int
      BY Zenon
    <3> QED BY <2>1, <2>2 DEF BalanceLockingReason
  <2>5. n = [m EXCEPT !.LockedTable = L, !.Totals = T]
    BY DEF lockClientAndProviderBalances, MarketState
  <2>6. ASSUME Covered(m), CanLockClientAndProviderBalances(m, deal)
        PROVE  \A a \in Addrs : L[a] <= m.EscrowTable[a]
    BY <2>1, <2>2, <2>6 DEF Covered, CanLockClientAndProviderBalances, balanceCovered
  <2> HIDE DEF L, T
  <2>7. n \in MarketState /\ SameDeals(m, n) /\ n.LockedTable = L /\ n.EscrowTable = m.EscrowTable
    BY <2>3, <2>4, <2>5, Zenon DEF MarketState, SameDeals
  <2> QED BY <2>6, <2>7 DEF Covered
<1> DEFINE deal == Head(call.validDeals)
           id == msm.NextID
           locked == lockClientAndProviderBalances(msm, deal)
           P == Put(msm.Proposals, id, deal)
           Q == msm.PendingProposals \cup {deal}
           O == msm.DealOpsByEpoch \cup {<<GenRandNextEpoch(deal.StartEpoch, id), id>>}
<1>1. /\ call \in PublishCall /\ phase = "store" /\ phase' = "store" /\ call.validDeals /= <<>>
      /\ msm.NextID + Len(call.validDeals) <= MaxDeals /\ msm \in MarketState
      /\ st.NextID .. (msm.NextID - 1) \subseteq DOMAIN msm.Proposals /\ st.NextID \in Nat
  BY DEF TypeInv, TypeOK, StoreDeal, MarketState
<1>2. /\ call.validDeals \in Seq(Offers) /\ deal \in Offers
      /\ Tail(call.validDeals) \in Seq(Offers)
      /\ Len(call.validDeals) \in Nat /\ Len(Tail(call.validDeals)) = Len(call.validDeals) - 1
      /\ Len(call.validDeals) >= 1
  <2>1. call.validDeals \in Seq(Offers)
    BY <1>1 DEF PublishCall
  <2> QED BY <1>1, <2>1
<1>3. /\ msm.Proposals \in PartialFunctions(DealIDs, Offers) /\ id \in Nat
      /\ msm.States \in PartialFunctions(DealIDs, DealState)
      /\ msm.PendingProposals \in SUBSET Offers /\ msm.DealOpsByEpoch \in SUBSET (Nat \X DealIDs)
  BY <1>1 DEF MarketState
<1>4. id \in DealIDs
  BY <1>1, <1>2, <1>3, BoundsAssumption DEF DealIDs
<1>5. P \in PartialFunctions(DealIDs, Offers) /\ DOMAIN P = DOMAIN msm.Proposals \cup {id}
  <2> HIDE DEF id, deal
  <2> QED BY <1>2, <1>3, <1>4, <1>PutType, Zenon
<1>6. Q \in SUBSET Offers
  BY <1>2, <1>3
<1>7. O \in SUBSET (Nat \X DealIDs)
  <2>1. GenRandNextEpoch(deal.StartEpoch, id) \in Nat
    BY <1>2, <1>3, OfferAmounts, NextEpochAfterStart, Zenon
  <2> QED BY <1>3, <1>4, <2>1
<1>8. locked \in MarketState /\ SameDeals(msm, locked) /\ (Covered(msm) => Covered(locked))
  <2>1. CanLockClientAndProviderBalances(msm, deal)
    BY DEF StoreDeal
  <2> QED BY <1>1, <1>2, <2>1, <1>LockType
<1>9. msm' = [locked EXCEPT !.NextID = id + 1, !.PendingProposals = Q, !.Proposals = P,
                            !.States = msm.States, !.DealOpsByEpoch = O]
  <2>1. msm' = [locked EXCEPT !.NextID = @ + 1, !.PendingProposals = @ \cup {deal},
                    !.Proposals = Put(@, id, deal),
                    !.DealOpsByEpoch = @ \cup {<<GenRandNextEpoch(deal.StartEpoch, id), id>>}]
    BY DEF StoreDeal
  <2> HIDE DEF locked
  <2> QED BY <2>1, <1>8, Zenon DEF MarketState, SameDeals
<1> HIDE DEF locked, P, Q, O
<1>10. /\ msm' \in MarketState
       /\ msm'.Proposals = P /\ msm'.States = msm.States /\ msm'.PendingProposals = Q
       /\ msm'.NextID = id + 1 /\ msm'.DealOpsByEpoch = O /\ msm'.LastCron = locked.LastCron
       /\ SameBalances(locked, msm')
  <2>1. id + 1 \in Nat
    BY <1>3
  <2> HIDE DEF id
  <2> QED BY <1>3, <1>5, <1>6, <1>7, <1>8, <1>9, <2>1, Zenon DEF MarketState, SameBalances
<1>11. call' \in PublishCall /\ call'.validDeals = Tail(call.validDeals)
  BY <1>1, <1>2, Zenon DEF PublishCall, StoreDeal
<1>12. msm'.NextID + Len(call'.validDeals) <= MaxDeals
  <2>1. \A i, l, x, max \in Nat : i + l <= max /\ l >= 1 /\ x = l - 1 => (i + 1) + x <= max
    OBVIOUS
  <2>2. Len(Tail(call.validDeals)) \in Nat
    BY <1>2
  <2> QED BY <1>1, <1>2, <1>3, <1>10, <1>11, <2>1, <2>2, BoundsAssumption
<1>13. st.NextID .. (msm'.NextID - 1) \subseteq DOMAIN msm'.Proposals
  BY <1>1, <1>3, <1>5, <1>10
<1>14. TypeInv'
  BY <1>1, <1>10, <1>11, <1>12, <1>13 DEF TypeInv, TypeOK, StoreDeal
<1>15. Covered(msm) => Covered(msm')
  BY <1>8, <1>10 DEF Covered, SameBalances
<1>16. SameBalances(lockClientAndProviderBalances(msm, deal), msm')
  BY <1>10 DEF locked
<1> QED
  BY <1>2, <1>4, <1>8, <1>10, <1>11, <1>14, <1>15, <1>16 DEF StoreEffect, SameDeals, P, Q, O

\* Handlers that change deal states only.
LEMMA StatesType ==
    ASSUME NEW m \in MarketState, NEW S \in PartialFunctions(DealIDs, DealState), NEW n,
           n = [m EXCEPT !.States = S]
    PROVE  /\ n \in MarketState /\ n.States = S
           /\ n.Proposals = m.Proposals /\ n.PendingProposals = m.PendingProposals
           /\ n.NextID = m.NextID /\ n.DealOpsByEpoch = m.DealOpsByEpoch /\ n.LastCron = m.LastCron
           /\ n.EscrowTable = m.EscrowTable /\ n.LockedTable = m.LockedTable
BY DEF MarketState

\* Activation adds well-formed deal states.
LEMMA ActivateType ==
    ASSUME TypeInv, NEW miner \in Providers, NEW ids \in SUBSET DOMAIN st.Proposals,
           NEW expiry \in Epochs, ActivateDeals(miner, ids, expiry)
    PROVE  TypeInv'
<1> DEFINE fresh == [SectorStartEpoch |-> epoch, LastUpdatedEpoch |-> EpochUndefined,
                     SlashEpoch |-> EpochUndefined]
           S == [d \in DOMAIN st.States \cup ids |-> IF d \in ids THEN fresh ELSE st.States[d]]
<1>1. st \in MarketState /\ epoch \in Epochs /\ phase = "messages" /\ phase' = "messages"
  BY DEF TypeInv, TypeOK, ActivateDeals
<1>2. st.Proposals \in PartialFunctions(DealIDs, Offers)
      /\ st.States \in PartialFunctions(DealIDs, DealState)
  BY <1>1 DEF MarketState
<1>3. DOMAIN st.States \cup ids \in SUBSET DealIDs /\ \A d \in DOMAIN st.States : st.States[d] \in DealState
  BY <1>2, PartialFunctionType
<1>4. fresh \in DealState
  BY <1>1 DEF DealState
<1> HIDE DEF fresh
<1>5. S \in [DOMAIN st.States \cup ids -> DealState]
  BY <1>3, <1>4
<1>6. S \in PartialFunctions(DealIDs, DealState)
  BY <1>3, <1>5, Zenon DEF PartialFunctions
<1>7. st' = [st EXCEPT !.States = S]
  BY DEF ActivateDeals, fresh
<1> HIDE DEF S
<1>8. st' \in MarketState
  BY <1>1, <1>6, <1>7, StatesType
<1> QED BY <1>1, <1>8 DEF TypeInv, TypeOK, ActivateDeals

\* A reported termination sets slash epochs of known deals only.
LEMMA TerminateType ==
    ASSUME TypeInv, NEW miner \in Providers, NEW ids \in SUBSET DOMAIN st.Proposals,
           NEW e \in Epochs, OnMinerSectorsTerminate(miner, e, ids)
    PROVE  TypeInv'
<1> DEFINE S == [d \in DOMAIN st.States |->
                IF /\ d \in ids \cap DOMAIN st.Proposals
                   /\ st.Proposals[d].EndEpoch > e
                   /\ st.States[d].SlashEpoch = EpochUndefined
                THEN [st.States[d] EXCEPT !.SlashEpoch = e]
                ELSE st.States[d]]
<1>1. st \in MarketState /\ phase = "messages" /\ phase' = "messages"
  BY DEF TypeInv, TypeOK, OnMinerSectorsTerminate
<1>2. st.States \in PartialFunctions(DealIDs, DealState)
  BY <1>1 DEF MarketState
<1>3. DOMAIN st.States \in SUBSET DealIDs /\ \A d \in DOMAIN st.States : st.States[d] \in DealState
  BY <1>2, PartialFunctionType
<1>4. \A s \in DealState : [s EXCEPT !.SlashEpoch = e] \in DealState
  BY DEF DealState
<1>5. S \in [DOMAIN st.States -> DealState]
  BY <1>3, <1>4
<1>6. S \in PartialFunctions(DealIDs, DealState)
  BY <1>3, <1>5 DEF PartialFunctions
<1>7. st' = [st EXCEPT !.States = S]
  BY DEF OnMinerSectorsTerminate
<1> HIDE DEF S
<1>8. st' \in MarketState
  BY <1>1, <1>6, <1>7, StatesType
<1> QED BY <1>1, <1>8 DEF TypeInv, TypeOK, OnMinerSectorsTerminate

\* What holds of an operation that does not fail.
LEMMA OperationSucceeds ==
    ASSUME NEW id, ~DealOpFails(id)
    PROVE  LET deal == msm.Proposals[id]
               state == msm.States[id]
           IN /\ id \in DOMAIN msm.Proposals
              /\ ~(epoch < deal.StartEpoch)
              /\ id \notin DOMAIN msm.States =>
                    /\ deal \in msm.PendingProposals
                    /\ NoNegativeBalance(processDealInitTimedOut(msm, deal))
              /\ id \in DOMAIN msm.States =>
                    /\ state.LastUpdatedEpoch = EpochUndefined => deal \in msm.PendingProposals
                    /\ ~(state.LastUpdatedEpoch > epoch)
                    /\ ~(state.SlashEpoch > epoch)
                    /\ ~(state.SlashEpoch > deal.EndEpoch)
                    /\ NoNegativeBalance(updatePendingDealState(msm, state, deal))
BY DEF DealOpFails

\* The history of a tick: one entry's amount and end change.
LEMMA BookType ==
    ASSUME NEW b \in Book, NEW id, NEW amount \in Nat, NEW e \in Epochs
    PROVE  /\ [b EXCEPT ![id].until = e] \in Book
           /\ [b EXCEPT ![id].earned = @ + amount] \in Book
           /\ [b EXCEPT ![id] = [deal |-> @.deal, earned |-> @.earned + amount, until |-> e]] \in Book
<1>1. PICK D \in SUBSET DealIDs : b \in [D -> BookEntry]
  BY DEF PartialFunctions, Book
<1>2. ASSUME NEW x \in BookEntry
      PROVE  /\ [x EXCEPT !.until = e] \in BookEntry
             /\ [x EXCEPT !.earned = @ + amount] \in BookEntry
             /\ [deal |-> x.deal, earned |-> x.earned + amount, until |-> e] \in BookEntry
  <2> DEFINE sum == x.earned + amount
  <2>1. sum \in Nat
    BY DEF BookEntry
  <2> HIDE DEF sum
  <2>2. /\ [x EXCEPT !.until = e] \in BookEntry
        /\ [x EXCEPT !.earned = sum] \in BookEntry
        /\ [deal |-> x.deal, earned |-> sum, until |-> e] \in BookEntry
    BY <2>1 DEF BookEntry
  <2> QED BY <2>2 DEF sum
<1>3. /\ [b EXCEPT ![id] = [b[id] EXCEPT !.until = e]] \in [D -> BookEntry]
      /\ [b EXCEPT ![id] = [b[id] EXCEPT !.earned = @ + amount]] \in [D -> BookEntry]
      /\ [b EXCEPT ![id] = [deal |-> @.deal, earned |-> @.earned + amount, until |-> e]]
             \in [D -> BookEntry]
  <2>1. CASE id \in D
    BY <1>1, <1>2, <2>1
  <2>2. CASE id \notin D
    BY <1>1, <2>2, Zenon
  <2> QED BY <2>1, <2>2
<1>4. [D -> BookEntry] \subseteq Book
  BY DEF Book, PartialFunctions
<1> QED BY <1>3, <1>4, Zenon

\* What a timed-out deal changes.
TimeOutEffect(op) ==
    LET id == op[2]
        deal == msm.Proposals[id]
    IN /\ op \in call.due /\ id \in DOMAIN msm.Proposals /\ id \notin DOMAIN msm.States
       /\ deal \in msm.PendingProposals /\ epoch >= deal.StartEpoch
       /\ msm'.Proposals = Without(msm.Proposals, id)
       /\ msm'.States = msm.States
       /\ msm'.PendingProposals = msm.PendingProposals \ {deal}
       /\ msm'.NextID = msm.NextID
       /\ msm'.DealOpsByEpoch = msm.DealOpsByEpoch
       /\ msm'.LastCron = msm.LastCron
       /\ SameBalances(processDealInitTimedOut(msm, deal), msm')
       /\ Covered(msm) => Covered(msm')
       /\ call'.due = call.due \ {op}
       /\ call'.updatesNeeded = call.updatesNeeded
       /\ call'.amountSlashed = call.amountSlashed + deal.ProviderCollateral
       /\ call'.book = [call.book EXCEPT ![id].until = deal.StartEpoch]

\* A deal that times out leaves a well-formed copy: no entry is negative.
LEMMA TimeOutType ==
    ASSUME TypeInv, NEW op, TimeOutDeal(op)
    PROVE  TypeInv' /\ TimeOutEffect(op)
<1> DEFINE id == op[2]
           deal == msm.Proposals[id]
           settled == processDealInitTimedOut(msm, deal)
           P == Without(msm.Proposals, id)
           Q == msm.PendingProposals \ {deal}
           D == call.due \ {op}
           V == IF deal.VerifiedDeal THEN call.timedOutVerifiedDeals \cup {<<id, deal>>}
                ELSE call.timedOutVerifiedDeals
           B == [call.book EXCEPT ![id].until = deal.StartEpoch]
<1>1. /\ phase = "cron" /\ phase' = "cron" /\ call \in CronCall /\ msm \in MarketState
      /\ op \in call.due /\ ~DealOpFails(id) /\ id \notin DOMAIN msm.States
  BY DEF TypeInv, TypeOK, TimeOutDeal, NextOps
<1>2. /\ msm.Proposals \in PartialFunctions(DealIDs, Offers) /\ msm.PendingProposals \in SUBSET Offers
      /\ call.due \in SUBSET (Nat \X DealIDs) /\ call.book \in Book /\ call.amountSlashed \in Nat
      /\ call.timedOutVerifiedDeals \in SUBSET (DealIDs \X Offers)
  BY <1>1 DEF MarketState, CronCall
<1>3. /\ id \in DealIDs /\ id \in DOMAIN msm.Proposals /\ NoNegativeBalance(settled)
      /\ deal \in msm.PendingProposals /\ ~(epoch < deal.StartEpoch)
  BY <1>1, <1>2, OperationSucceeds
<1>4. deal \in Offers
  BY <1>2, <1>3, PartialFunctionType
<1>5. settled \in MarketState /\ SameDeals(msm, settled) /\ (Covered(msm) => Covered(settled))
  <2>1. msm \in WorkingState
    BY <1>1, WorkingStates
  <2>2. BalanceStep(msm, settled)
    BY <2>1, <1>4, TimeOutStep
  <2> HIDE DEF settled
  <2> QED BY <1>3, <2>2, WorkingStates DEF BalanceStep
<1>6. P \in PartialFunctions(DealIDs, Offers)
  BY <1>2, WithoutType, Zenon
<1>7. B \in Book
  BY <1>2, <1>4, OffersAssumption, BookType, Zenon DEF DealProposal
<1>8. deal.ProviderCollateral \in Nat
  BY <1>4, OfferAmounts
<1>9. V \in SUBSET (DealIDs \X Offers) /\ D \in SUBSET (Nat \X DealIDs) /\ Q \in SUBSET Offers
  BY <1>2, <1>3, <1>4
<1>10. msm' = [settled EXCEPT !.Proposals = P, !.PendingProposals = Q]
  <2>1. msm' = [settled EXCEPT !.Proposals = Without(@, id), !.PendingProposals = @ \ {deal}]
    BY DEF TimeOutDeal
  <2> HIDE DEF settled
  <2> QED BY <1>5, <2>1 DEF MarketState, SameDeals
<1>11. call' = [call EXCEPT !.due = D, !.amountSlashed = call.amountSlashed + deal.ProviderCollateral,
                            !.timedOutVerifiedDeals = V, !.book = B]
  BY <1>1 DEF TimeOutDeal, CronCall, CollateralPenaltyForDealActivationMissed
<1> HIDE DEF settled, P, Q, D, V, B
<1>12. /\ msm' \in MarketState
       /\ msm'.Proposals = P /\ msm'.States = settled.States /\ msm'.PendingProposals = Q
       /\ msm'.NextID = settled.NextID /\ msm'.DealOpsByEpoch = settled.DealOpsByEpoch
       /\ msm'.LastCron = settled.LastCron
       /\ SameBalances(settled, msm')
  BY <1>5, <1>6, <1>9, <1>10, Zenon DEF MarketState, SameBalances
<1>13. call' \in CronCall /\ call'.due = D /\ call'.updatesNeeded = call.updatesNeeded /\ call'.book = B
       /\ call'.amountSlashed = call.amountSlashed + deal.ProviderCollateral
  <2> DEFINE amount == call.amountSlashed + deal.ProviderCollateral
  <2>1. amount \in Nat
    BY <1>2, <1>8
  <2> HIDE DEF amount
  <2> QED BY <1>1, <1>7, <1>9, <1>11, <2>1, Zenon DEF CronCall, amount
<1>14. TypeInv'
  BY <1>1, <1>12, <1>13, ZenonT(60) DEF TypeInv, TypeOK, TimeOutDeal
<1>15. epoch >= deal.StartEpoch
  <2>1. epoch \in Int /\ deal.StartEpoch \in Int
    BY <1>4, OfferAmounts, BoundsAssumption DEF TypeInv, TypeOK, Epochs
  <2> QED BY <1>3, <2>1
<1>16. Covered(msm) => Covered(msm')
  BY <1>5, <1>12 DEF Covered, SameBalances
<1>17. SameBalances(processDealInitTimedOut(msm, deal), msm')
  BY <1>12 DEF settled
<1> QED
  BY <1>1, <1>3, <1>5, <1>12, <1>13, <1>14, <1>15, <1>16, <1>17
  DEF TimeOutEffect, SameDeals, P, Q, D, B

\* What the update of an active deal changes.
UpdateEffect(op) ==
    LET id == op[2]
        deal == msm.Proposals[id]
        state == msm.States[id]
    IN /\ op \in call.due /\ id \in DOMAIN msm.Proposals /\ id \in DOMAIN msm.States
       /\ epoch >= deal.StartEpoch /\ state.LastUpdatedEpoch <= epoch
       /\ state.SlashEpoch <= epoch /\ state.SlashEpoch <= deal.EndEpoch
       /\ state.LastUpdatedEpoch = EpochUndefined => deal \in msm.PendingProposals
       /\ msm'.PendingProposals = IF state.LastUpdatedEpoch = EpochUndefined
                                  THEN msm.PendingProposals \ {deal} ELSE msm.PendingProposals
       /\ msm'.NextID = msm.NextID
       /\ msm'.DealOpsByEpoch = msm.DealOpsByEpoch
       /\ msm'.LastCron = msm.LastCron
       /\ SameBalances(updatePendingDealState(msm, state, deal), msm')
       /\ Covered(msm) => Covered(msm')
       /\ call'.due = call.due \ {op}
       /\ call'.amountSlashed =
             call.amountSlashed + (IF everSlashed(state) THEN deal.ProviderCollateral ELSE 0)
       /\ totalPayment(state, deal) \in Nat
       /\ IF removeDeal(state, deal)
          THEN /\ msm'.Proposals = Without(msm.Proposals, id)
               /\ msm'.States = Without(msm.States, id)
               /\ call'.updatesNeeded = call.updatesNeeded
               /\ call'.book = [call.book EXCEPT ![id] =
                     [deal |-> @.deal, earned |-> @.earned + totalPayment(state, deal),
                      until |-> IF everSlashed(state) THEN state.SlashEpoch ELSE deal.EndEpoch]]
          ELSE /\ msm'.Proposals = msm.Proposals
               /\ msm'.States = [msm.States EXCEPT ![id] = [state EXCEPT !.LastUpdatedEpoch = epoch]]
               /\ call'.updatesNeeded = call.updatesNeeded \cup {<<epoch + DealUpdatesInterval, id>>}
               /\ call'.book = [call.book EXCEPT ![id].earned = @ + totalPayment(state, deal)]

\* An update of a deal leaves a well-formed copy: no entry is negative.
LEMMA UpdateType ==
    ASSUME TypeInv, NEW op, UpdateDeal(op)
    PROVE  TypeInv' /\ UpdateEffect(op)
<1> DEFINE id == op[2]
           deal == msm.Proposals[id]
           state == msm.States[id]
           updated == updatePendingDealState(msm, state, deal)
           Q == IF state.LastUpdatedEpoch = EpochUndefined
                THEN msm.PendingProposals \ {deal} ELSE msm.PendingProposals
           D == call.due \ {op}
           until == IF everSlashed(state) THEN state.SlashEpoch ELSE deal.EndEpoch
           slashed == call.amountSlashed + (IF everSlashed(state) THEN deal.ProviderCollateral ELSE 0)
<1>1. /\ phase = "cron" /\ phase' = "cron" /\ call \in CronCall /\ msm \in MarketState /\ epoch \in Epochs
      /\ op \in call.due /\ ~DealOpFails(id) /\ id \in DOMAIN msm.States
  BY DEF TypeInv, TypeOK, UpdateDeal, NextOps
<1>2. /\ msm.Proposals \in PartialFunctions(DealIDs, Offers) /\ msm.PendingProposals \in SUBSET Offers
      /\ msm.States \in PartialFunctions(DealIDs, DealState)
      /\ call.due \in SUBSET (Nat \X DealIDs) /\ call.book \in Book /\ call.amountSlashed \in Nat
      /\ call.updatesNeeded \in SUBSET (Nat \X DealIDs)
  BY <1>1 DEF MarketState, CronCall
<1>3. /\ id \in DealIDs /\ id \in DOMAIN msm.Proposals /\ NoNegativeBalance(updated)
      /\ ~(state.SlashEpoch > deal.EndEpoch) /\ ~(state.SlashEpoch > epoch)
      /\ ~(epoch < deal.StartEpoch) /\ ~(state.LastUpdatedEpoch > epoch)
      /\ state.LastUpdatedEpoch = EpochUndefined => deal \in msm.PendingProposals
  BY <1>1, <1>2, OperationSucceeds
<1>4. deal \in Offers /\ state \in DealState
  BY <1>1, <1>2, <1>3, PartialFunctionType
<1>4a. /\ epoch >= deal.StartEpoch /\ state.LastUpdatedEpoch <= epoch
       /\ state.SlashEpoch <= epoch /\ state.SlashEpoch <= deal.EndEpoch
  <2>1. /\ state.SlashEpoch \in Int /\ state.LastUpdatedEpoch \in Int /\ epoch \in Int
        /\ deal.EndEpoch \in Int /\ deal.StartEpoch \in Int
    BY <1>1, <1>4, OfferAmounts, BoundsAssumption DEF DealState, Epochs, EpochUndefined
  <2> QED BY <1>3, <2>1
<1>5. /\ updated \in MarketState /\ SameDeals(msm, updated) /\ (Covered(msm) => Covered(updated))
      /\ totalPayment(state, deal) \in Nat
  <2>1. msm \in WorkingState
    BY <1>1, WorkingStates
  <2>4. BalanceStep(msm, updated) /\ totalPayment(state, deal) \in Nat
    BY <2>1, <1>1, <1>4, <1>4a, UpdateStep
  <2> HIDE DEF updated
  <2> QED BY <1>3, <2>4, WorkingStates DEF BalanceStep
<1>6. D \in SUBSET (Nat \X DealIDs) /\ Q \in SUBSET Offers
  BY <1>2
<1>7. deal.ProviderCollateral \in Nat /\ slashed \in Nat
  BY <1>2, <1>4, OfferAmounts
<1>8. CASE removeDeal(state, deal)
  <2> DEFINE P == Without(msm.Proposals, id)
             S == Without(msm.States, id)
             B == [call.book EXCEPT ![id] = [deal |-> @.deal, until |-> until,
                                             earned |-> @.earned + totalPayment(state, deal)]]
  <2>1. P \in PartialFunctions(DealIDs, Offers) /\ S \in PartialFunctions(DealIDs, DealState)
    BY <1>2, WithoutType, Zenon
  <2>2. until \in Epochs
    <3>1. deal.EndEpoch \in Epochs
      BY <1>4, OffersAssumption DEF DealProposal
    <3> QED BY <1>4, <3>1 DEF DealState, everSlashed
  <2>3. B \in Book
    <3> HIDE DEF until
    <3> QED BY <1>2, <1>5, <2>2, BookType, Zenon
  <2>4. msm' = [updated EXCEPT !.PendingProposals = Q, !.Proposals = P, !.States = S]
    <3>1. msm' = [updated EXCEPT !.PendingProposals = Q, !.Proposals = Without(@, id),
                                 !.States = Without(@, id)]
      BY <1>8 DEF UpdateDeal
    <3> HIDE DEF updated, Q
    <3> QED BY <1>5, <3>1 DEF MarketState, SameDeals
  <2>5. call' = [call EXCEPT !.due = D, !.amountSlashed = slashed, !.book = B]
    BY <1>1, <1>8 DEF UpdateDeal, CronCall
  <2> HIDE DEF updated, P, Q, D, S, B, slashed
  <2>6. /\ msm' \in MarketState
        /\ msm'.Proposals = P /\ msm'.States = S /\ msm'.PendingProposals = Q
        /\ msm'.NextID = updated.NextID /\ msm'.DealOpsByEpoch = updated.DealOpsByEpoch
        /\ msm'.LastCron = updated.LastCron
        /\ SameBalances(updated, msm')
    BY <1>5, <1>6, <2>1, <2>4, Zenon DEF MarketState, SameBalances
  <2>7. call' \in CronCall /\ call'.due = D /\ call'.updatesNeeded = call.updatesNeeded /\ call'.book = B
        /\ call'.amountSlashed = slashed
    BY <1>1, <1>6, <1>7, <2>3, <2>5, Zenon DEF CronCall
  <2>8. TypeInv'
    BY <1>1, <2>6, <2>7 DEF TypeInv, TypeOK, UpdateDeal
  <2>9. Covered(msm) => Covered(msm')
    BY <1>5, <2>6 DEF Covered, SameBalances
  <2>10. SameBalances(updatePendingDealState(msm, state, deal), msm')
    BY <2>6 DEF updated
  <2> QED
    BY <1>1, <1>3, <1>5, <1>8, <1>4a, <2>6, <2>7, <2>8, <2>9, <2>10
    DEF UpdateEffect, SameDeals, P, Q, D, S, B, slashed
<1>9. CASE ~removeDeal(state, deal)
  <2> DEFINE S == [msm.States EXCEPT ![id] = [state EXCEPT !.LastUpdatedEpoch = epoch]]
             U == call.updatesNeeded \cup {<<epoch + DealUpdatesInterval, id>>}
             B == [call.book EXCEPT ![id].earned = @ + totalPayment(state, deal)]
  <2>1. S \in PartialFunctions(DealIDs, DealState)
    <3> DEFINE s == [state EXCEPT !.LastUpdatedEpoch = epoch]
    <3>1. s \in DealState
      BY <1>1, <1>4 DEF DealState
    <3> HIDE DEF s
    <3> QED BY <1>1, <1>2, <3>1, PartialFunctionType DEF s
  <2>2. U \in SUBSET (Nat \X DealIDs)
    BY <1>1, <1>2, <1>3, BoundsAssumption DEF Epochs
  <2>3. B \in Book
    BY <1>1, <1>2, <1>5, BookType, Zenon
  <2>4. msm' = [updated EXCEPT !.PendingProposals = Q, !.States = S]
    <3>1. msm' = [updated EXCEPT !.PendingProposals = Q, !.States[id].LastUpdatedEpoch = epoch]
      BY <1>9 DEF UpdateDeal
    <3> HIDE DEF updated, Q
    <3> QED BY <1>5, <3>1, Zenon DEF MarketState, SameDeals
  <2>5. call' = [call EXCEPT !.due = D, !.updatesNeeded = U, !.book = B]
    BY <1>1, <1>9 DEF UpdateDeal, CronCall
  <2> HIDE DEF updated, Q, D, S, U, B
  <2>6. /\ msm' \in MarketState
        /\ msm'.Proposals = updated.Proposals /\ msm'.States = S /\ msm'.PendingProposals = Q
        /\ msm'.NextID = updated.NextID /\ msm'.DealOpsByEpoch = updated.DealOpsByEpoch
        /\ msm'.LastCron = updated.LastCron
        /\ SameBalances(updated, msm')
    BY <1>5, <1>6, <2>1, <2>4, Zenon DEF MarketState, SameBalances
  <2>7. call' \in CronCall /\ call'.due = D /\ call'.updatesNeeded = U /\ call'.book = B
        /\ call'.amountSlashed = call.amountSlashed
    BY <1>1, <1>6, <2>2, <2>3, <2>5, Zenon DEF CronCall
  <2>8. TypeInv'
    BY <1>1, <2>6, <2>7 DEF TypeInv, TypeOK, UpdateDeal
  <2>9. Covered(msm) => Covered(msm')
    BY <1>5, <2>6 DEF Covered, SameBalances
  <2>10. SameBalances(updatePendingDealState(msm, state, deal), msm')
    BY <2>6 DEF updated
  <2> QED
    <3>1. ~everSlashed(state) /\ call.amountSlashed \in Nat
      BY <1>2, <1>9 DEF removeDeal
    <3>2. call'.amountSlashed = call.amountSlashed + (IF everSlashed(state) THEN deal.ProviderCollateral ELSE 0)
      BY <2>7, <3>1
    <3> QED
      BY <1>1, <1>3, <1>5, <1>9, <1>4a, <2>6, <2>7, <2>8, <2>9, <2>10, <3>2
      DEF UpdateEffect, SameDeals, Q, D, S, U, B
<1> QED BY <1>8, <1>9

\* The market and the locals of its handlers are always well-formed.
LEMMA TypeInvAlways == Spec => []TypeInv
\* The constructor leaves a well-formed state.
<1>InitType. Init => TypeInv
  <2> SUFFICES ASSUME Init PROVE TypeInv
    OBVIOUS
  <2> DEFINE none == [d \in {} |-> 0]
  <2>1. none \in PartialFunctions(DealIDs, Offers) /\ none \in PartialFunctions(DealIDs, DealState)
        /\ none \in Book
    BY Zenon DEF PartialFunctions, Book
  <2>2. [a \in Addrs |-> 0] \in [Addrs -> Nat]
        /\ [r \in BalanceLockingReason |-> 0] \in [BalanceLockingReason -> Int]
    OBVIOUS
  <2>3. st \in MarketState
    <3> HIDE DEF none
    <3> QED BY <2>1, <2>2, ZenonT(60) DEF Init, MarketState, none
  <2> QED BY <2>1, <2>3, BoundsAssumption DEF Init, TypeInv, TypeOK, Epochs
\* Every step of the market keeps it well-formed.
<1>TypeInvInductive. TypeInv /\ [Next]_vars => TypeInv'
  \* A batch of a PublishStorageDeals message is a non-empty sequence of proposals.
  <2>BatchType.
      ASSUME NEW deals \in Batches
      PROVE  deals \in Seq(Offers) /\ deals /= <<>> /\ Head(deals) \in Offers
    <3> USE <2>BatchType
    <3>1. PICK n \in 1 .. MaxBatch : deals \in [1 .. n -> Offers]
      BY DEF Batches
    <3>2. n \in Nat /\ n >= 1
      BY BoundsAssumption
    <3> QED BY <3>1, <3>2
  \* A deposit keeps the state well-formed.
  <2>AddBalanceType.
      ASSUME TypeInv, NEW a \in Addrs, NEW v \in Deposits, AddBalance(a, v)
      PROVE  TypeInv'
    <3> USE <2>AddBalanceType
    <3> DEFINE E == [st.EscrowTable EXCEPT ![a] = @ + v]
    <3>1. v \in Nat /\ st \in MarketState /\ phase = "messages" /\ phase' = "messages"
      BY AmountsAssumption DEF TypeInv, TypeOK, AddBalance
    <3>2. E \in [Addrs -> Nat] /\ st' = [st EXCEPT !.EscrowTable = E]
      BY <3>1 DEF MarketState, AddBalance
    <3> HIDE DEF E
    <3>3. st' \in MarketState
      BY <3>1, <3>2 DEF MarketState
    <3> QED BY <3>1, <3>3 DEF TypeInv, TypeOK, AddBalance
  \* A withdrawal takes at most what is in escrow, so it stays natural.
  <2>WithdrawBalanceType.
      ASSUME TypeInv, NEW a \in Addrs, NEW v \in Withdrawals, WithdrawBalance(a, v)
      PROVE  TypeInv'
    <3> USE <2>WithdrawBalanceType
    <3> DEFINE ex == SubtractWithMinimum(st.EscrowTable[a], v, st.LockedTable[a])
               E == [st.EscrowTable EXCEPT ![a] = @ - ex]
    <3>1. v \in Nat /\ st \in MarketState /\ phase = "messages" /\ phase' = "messages" /\ balance \in Nat
      BY AmountsAssumption DEF TypeInv, TypeOK, WithdrawBalance
    <3>2. st.EscrowTable \in [Addrs -> Nat] /\ st.LockedTable \in [Addrs -> Nat]
      BY <3>1 DEF MarketState
    <3>3. ex \in Nat /\ ex <= st.EscrowTable[a]
      BY <3>1, <3>2 DEF SubtractWithMinimum, Min2, Max2
    <3>4. st' = [st EXCEPT !.EscrowTable = E] /\ balance' = balance - ex /\ ex <= balance
      BY <3>1 DEF MarketState, WithdrawBalance
    <3> HIDE DEF ex
    <3>5. E \in [Addrs -> Nat]
      BY <3>2, <3>3
    <3> HIDE DEF E
    <3>6. st' \in MarketState
      BY <3>1, <3>4, <3>5 DEF MarketState
    <3>7. balance' \in Nat
      BY <3>1, <3>3, <3>4
    <3> QED BY <3>1, <3>6, <3>7 DEF TypeInv, TypeOK, WithdrawBalance
  \* A batch of proposals is taken up with well-formed locals.
  <2>PublishType.
      ASSUME TypeInv, NEW deals \in Batches, PublishStorageDeals(deals)
      PROVE  TypeInv'
    <3> USE <2>PublishType
    <3>1. deals \in Seq(Offers) /\ Head(deals) \in Offers
      BY <2>BatchType
    <3>2. Head(deals).Provider \in Providers
      BY <3>1, OffersAssumption DEF DealProposal
    <3>3. call' \in PublishCall /\ call'.deals = deals /\ call'.validDeals = <<>>
      BY <3>1, <3>2 DEF PublishStorageDeals, PublishCall
    <3>4. st.NextID + Len(deals) + 0 <= MaxDeals
      BY <3>1, BoundsAssumption DEF PublishStorageDeals, TypeInv, TypeOK, MarketState
    <3> QED BY <3>3, <3>4 DEF TypeInv, TypeOK, PublishStorageDeals
  \* Filtering a deal of the batch keeps the locals well-formed.
  <2>FilterType.
      ASSUME TypeInv, NEW inBounds \in BOOLEAN, NEW ok \in BOOLEAN, FilterDeal(inBounds, ok)
      PROVE  TypeInv'
    <3> USE <2>FilterType
    <3> DEFINE deal == Head(call.deals)
               D == Tail(call.deals)
               C == [call.totalClientLockup EXCEPT
                        ![deal.Client] = IF ValidDeal(deal, inBounds) THEN ClientLockup(deal) ELSE @]
               P == IF ValidDeal(deal, inBounds) /\ ClientBalanceOk(deal)
                    THEN ProviderLockup(deal) ELSE call.totalProviderLockup
               V == IF PassesMarketChecks(deal, inBounds) /\ (deal.VerifiedDeal => ok)
                    THEN Append(call.validDeals, deal) ELSE call.validDeals
    <3>1. call \in PublishCall /\ phase = "filter" /\ phase' = "filter" /\ call.deals /= <<>>
          /\ st.NextID + Len(call.deals) + Len(call.validDeals) <= MaxDeals /\ st.NextID \in Nat
      BY DEF TypeInv, TypeOK, MarketState, FilterDeal
    <3>2. /\ call.deals \in Seq(Offers) /\ call.validDeals \in Seq(Offers)
          /\ call.totalClientLockup \in [Clients -> Nat] /\ call.totalProviderLockup \in Nat
      BY <3>1 DEF PublishCall
    <3>3. deal \in Offers /\ D \in Seq(Offers) /\ Len(D) = Len(call.deals) - 1
      BY <3>1, <3>2
    <3>4. deal.Client \in Clients /\ ClientBalanceRequirement(deal) \in Nat
          /\ deal.ProviderCollateral \in Nat
      BY <3>3, OfferAmounts, OffersAssumption DEF DealProposal
    <3>5. C \in [Clients -> Nat]
      BY <3>2, <3>4 DEF ClientLockup
    <3>6. P \in Nat
      BY <3>2, <3>4 DEF ProviderLockup
    <3>7. V \in Seq(Offers) /\ Len(V) <= Len(call.validDeals) + 1 /\ Len(V) \in Nat
      BY <3>2, <3>3
    <3>8. call' = [call EXCEPT !.deals = D, !.totalClientLockup = C, !.totalProviderLockup = P,
                               !.validDeals = V]
      BY <3>1 DEF FilterDeal, PublishCall
    <3>9. Len(call.deals) \in Nat /\ Len(call.validDeals) \in Nat
      BY <3>2
    <3> HIDE DEF D, C, P, V
    <3>10. call' \in PublishCall /\ call'.deals = D /\ call'.validDeals = V
      BY <3>1, <3>3, <3>5, <3>6, <3>7, <3>8, Zenon DEF PublishCall
    <3>11. st.NextID + Len(D) + Len(V) <= MaxDeals
      <4>1. \A i, d, v, x, y, max \in Nat : i + d + v <= max /\ x = d - 1 /\ y <= v + 1 => i + x + y <= max
        OBVIOUS
      <4>2. Len(D) \in Nat /\ Len(D) = Len(call.deals) - 1
        BY <3>3
      <4>3. Len(V) \in Nat /\ Len(V) <= Len(call.validDeals) + 1
        BY <3>7
      <4>4. st.NextID \in Nat /\ st.NextID + Len(call.deals) + Len(call.validDeals) <= MaxDeals
        BY <3>1
      <4> QED BY <3>9, <4>1, <4>2, <4>3, <4>4, BoundsAssumption
    <3> QED BY <3>1, <3>10, <3>11, Zenon DEF TypeInv, TypeOK, FilterDeal
  \* The working copy that publishing opens is the state.
  <2>OpenPublishType.
      ASSUME TypeInv, OpenPublish
      PROVE  TypeInv'
    <3> USE <2>OpenPublishType
    <3>1. /\ phase = "filter" /\ phase' = "store" /\ call' = call /\ call \in PublishCall
          /\ msm' = st /\ st' = st /\ st \in MarketState /\ call.deals = <<>>
          /\ st.NextID + Len(call.deals) + Len(call.validDeals) <= MaxDeals
      BY DEF TypeInv, TypeOK, OpenPublish
    <3>2. st.NextID \in Nat /\ Len(call.deals) = 0 /\ Len(call.validDeals) \in Nat
      BY <3>1 DEF MarketState, PublishCall
    <3>3. st.NextID + Len(call.validDeals) <= MaxDeals
      BY <3>1, <3>2
    <3>4. st.NextID .. (st.NextID - 1) = {}
      BY <3>2
    <3> QED BY <3>1, <3>3, <3>4 DEF TypeInv, TypeOK, OpenPublish
  \* The copy that publishing stores is a well-formed state.
  <2>CommitPublishType.
      ASSUME TypeInv, CommitPublish
      PROVE  TypeInv'
    <3> USE <2>CommitPublishType
    <3> DEFINE new == st.NextID .. msm.NextID - 1
    <3>1. /\ phase = "store" /\ phase' = "messages" /\ st' = msm /\ msm \in MarketState
          /\ call \in PublishCall /\ msm.NextID + Len(call.validDeals) <= MaxDeals
          /\ new \subseteq DOMAIN msm.Proposals /\ book \in Book /\ st.NextID \in Nat
      BY DEF TypeInv, TypeOK, CommitPublish, MarketState
    <3>2. msm.Proposals \in PartialFunctions(DealIDs, Offers)
      BY <3>1 DEF MarketState
    <3>3. DOMAIN book \subseteq DealIDs /\ \A d \in DOMAIN book : book[d] \in BookEntry
      BY <3>1, PartialFunctionType DEF Book
    <3>4. new \subseteq DealIDs /\ \A d \in new : msm.Proposals[d] \in Offers
      BY <3>1, <3>2, PartialFunctionType
    <3>5. book' \in [DOMAIN book \cup new -> BookEntry]
      <4>1. \A d \in new : [deal |-> msm.Proposals[d], earned |-> 0, until |-> EpochUndefined] \in BookEntry
        BY <3>4 DEF BookEntry
      <4> QED BY <3>3, <4>1 DEF CommitPublish
    <3>6. book' \in Book
      BY <3>3, <3>4, <3>5 DEF Book, PartialFunctions
    <3> QED BY <3>1, <3>6 DEF TypeInv, TypeOK, CommitPublish
  \* An abort leaves the state as it was.
  <2>AbortPublishType.
      ASSUME TypeInv, AbortPublish
      PROVE  TypeInv'
    BY <2>AbortPublishType DEF TypeInv, TypeOK, AbortPublish
  \* The working copy that the tick opens is the state.
  <2>CronTickType.
      ASSUME TypeInv, CronTick
      PROVE  TypeInv'
    <3> USE <2>CronTickType
    <3> DEFINE D == {op \in st.DealOpsByEpoch : st.LastCron < op[1] /\ op[1] <= epoch}
    <3>1. /\ st \in MarketState /\ book \in Book /\ phase' = "cron" /\ msm' = st
      BY DEF TypeInv, TypeOK, CronTick
    <3>2. D \in SUBSET (Nat \X DealIDs)
      BY <3>1 DEF MarketState
    <3>3. call' = [kind |-> "cron", updatesNeeded |-> {}, amountSlashed |-> 0, due |-> D,
                   timedOutVerifiedDeals |-> {}, book |-> book]
      BY DEF CronTick
    <3> HIDE DEF D
    <3>4. call' \in CronCall
      BY <3>1, <3>2, <3>3 DEF CronCall
    <3> QED BY <3>1, <3>4 DEF TypeInv, TypeOK, CronTick
  \* The copy that the tick stores is a well-formed state.
  <2>CommitCronType.
      ASSUME TypeInv, CommitCron
      PROVE  TypeInv'
    <3> USE <2>CommitCronType
    <3> DEFINE O == {op \in msm.DealOpsByEpoch : ~(msm.LastCron < op[1] /\ op[1] <= epoch)}
                    \cup call.updatesNeeded
    <3>1. /\ phase = "cron" /\ phase' = "ticked" /\ call \in CronCall /\ msm \in MarketState
          /\ epoch \in Epochs /\ balance \in Nat /\ call.amountSlashed <= balance
          /\ balance' = balance - call.amountSlashed /\ book' = call.book
      BY DEF TypeInv, TypeOK, CommitCron
    <3>2. call.amountSlashed \in Nat /\ call.book \in Book /\ O \in SUBSET (Nat \X DealIDs)
      BY <3>1 DEF CronCall, MarketState
    <3>3. st' = [msm EXCEPT !.DealOpsByEpoch = O, !.LastCron = epoch]
      BY <3>1 DEF CommitCron, MarketState
    <3> HIDE DEF O
    <3>4. st' \in MarketState
      BY <3>1, <3>2, <3>3, Zenon DEF MarketState
    <3>5. balance' \in Nat
      BY <3>1, <3>2
    <3> QED BY <3>1, <3>2, <3>4, <3>5 DEF TypeInv, TypeOK, CommitCron
  \* The next epoch is within the bound.
  <2>NextEpochType.
      ASSUME TypeInv, NEW n \in 1 .. MaxNullRounds + 1, NextEpoch(n)
      PROVE  TypeInv'
    <3> USE <2>NextEpochType
    <3>1. epoch' \in Epochs
      BY BoundsAssumption DEF NextEpoch, TypeInv, TypeOK, Epochs
    <3> QED BY <3>1 DEF TypeInv, TypeOK, NextEpoch
  <2> SUFFICES ASSUME TypeInv, [Next]_vars PROVE TypeInv'
    OBVIOUS
  <2>1. CASE \E a \in Addrs, v \in Deposits : AddBalance(a, v)
    BY <2>1, <2>AddBalanceType
  <2>2. CASE \E a \in Addrs, v \in Withdrawals : WithdrawBalance(a, v)
    BY <2>2, <2>WithdrawBalanceType
  <2>3. CASE \E deals \in Batches : PublishStorageDeals(deals)
    BY <2>3, <2>PublishType
  <2>4. CASE \E inBounds, ok \in BOOLEAN : FilterDeal(inBounds, ok)
    BY <2>4, <2>FilterType
  <2>5. CASE \E miner \in Providers, ids \in SUBSET DOMAIN st.Proposals, expiry \in Epochs :
                ActivateDeals(miner, ids, expiry)
    BY <2>5, ActivateType
  <2>6. CASE \E miner \in Providers, ids \in SUBSET DOMAIN st.Proposals, e \in Epochs :
                OnMinerSectorsTerminate(miner, e, ids)
    BY <2>6, TerminateType
  <2>7. CASE \E op \in st.DealOpsByEpoch : TimeOutDeal(op) \/ UpdateDeal(op)
    BY <2>7, TimeOutType, UpdateType
  <2>8. CASE OpenPublish \/ StoreDeal \/ CommitPublish \/ AbortPublish
    BY <2>8, <2>OpenPublishType, StoreType, <2>CommitPublishType, <2>AbortPublishType
  <2>9. CASE CronTick \/ CommitCron
    BY <2>9, <2>CronTickType, <2>CommitCronType
  <2>10. CASE AbortCron
    BY <2>10 DEF TypeInv, TypeOK, AbortCron
  <2>11. CASE \E n \in 1 .. MaxNullRounds + 1 : NextEpoch(n)
    BY <2>11, <2>NextEpochType
  <2>12. CASE Horizon \/ UNCHANGED vars
    BY <2>12 DEF TypeInv, TypeOK, Horizon, vars
  <2> QED
    BY <2>1, <2>2, <2>3, <2>4, <2>5, <2>6, <2>7, <2>8, <2>9, <2>10, <2>11, <2>12
    DEF Next, EndCron
<1> QED BY <1>InitType, <1>TypeInvInductive, PTL DEF Spec

\* The state is always well typed: no escrow or locked balance ever becomes negative and every
\* deal that cron or a miner touches is one that was published.
THEOREM TypeCorrect == Spec => []TypeOK
<1>1. TypeInv => TypeOK
  BY DEF TypeInv
<1> QED BY <1>1, TypeInvAlways, PTL

-----------------------------------------------------------------------------
(* Locked funds are covered.                                                *)

\* EscrowCoversLocked, also of an open transaction: each step of a handler relies on the
\* coverage the previous one left, not only on that of the committed state.
EscrowInv ==
    /\ Covered(st)
    /\ phase \in {"store", "cron"} => Covered(msm)

\* The locks are covered in every state, in the committed state and in an open transaction.
LEMMA EscrowInvAlways == Spec => []EscrowInv
\* Every step of the market keeps the locks covered.
<1>EscrowInvInductive. TypeInv /\ EscrowInv /\ [Next]_vars => EscrowInv'
  <2> SUFFICES ASSUME TypeInv, EscrowInv, [Next]_vars PROVE EscrowInv'
    OBVIOUS
  <2>0. st \in MarketState /\ st.EscrowTable \in [Addrs -> Nat] /\ st.LockedTable \in [Addrs -> Nat]
    BY DEF TypeInv, TypeOK, MarketState
  <2>1. ASSUME NEW a \in Addrs, NEW v \in Deposits, AddBalance(a, v) PROVE EscrowInv'
    <3>1. v \in Nat /\ phase' = "messages"
      BY <2>1, AmountsAssumption DEF AddBalance
    <3>2. \A x \in Addrs : /\ st'.LockedTable[x] = st.LockedTable[x]
                           /\ st'.EscrowTable[x] >= st.EscrowTable[x]
                           /\ st'.EscrowTable[x] \in Nat
      BY <2>0, <2>1, <3>1 DEF AddBalance, MarketState
    <3> QED BY <2>0, <3>1, <3>2 DEF EscrowInv, Covered
  <2>2. ASSUME NEW a \in Addrs, NEW v \in Withdrawals, WithdrawBalance(a, v) PROVE EscrowInv'
    <3> DEFINE ex == SubtractWithMinimum(st.EscrowTable[a], v, st.LockedTable[a])
    <3>1. v \in Nat /\ phase' = "messages" /\ Covered(st)
      BY <2>2, AmountsAssumption DEF WithdrawBalance, EscrowInv
    <3>2. ex \in Nat /\ st.LockedTable[a] <= st.EscrowTable[a] - ex
      BY <2>0, <3>1 DEF SubtractWithMinimum, Min2, Max2, Covered
    <3>3. st' = [st EXCEPT !.EscrowTable[a] = @ - ex]
      BY <2>2 DEF WithdrawBalance
    <3> HIDE DEF ex
    <3>4. Covered(st')
      BY <2>0, <3>1, <3>2, <3>3 DEF Covered, MarketState
    <3> QED BY <3>1, <3>4 DEF EscrowInv
  <2>3. ASSUME NEW deals \in Batches, PublishStorageDeals(deals) PROVE EscrowInv'
    BY <2>3 DEF PublishStorageDeals, EscrowInv
  <2>4. ASSUME NEW inBounds \in BOOLEAN, NEW ok \in BOOLEAN, FilterDeal(inBounds, ok) PROVE EscrowInv'
    BY <2>4 DEF FilterDeal, EscrowInv
  <2>5. CASE OpenPublish
    BY <2>5 DEF OpenPublish, EscrowInv
  <2>6. CASE StoreDeal
    <3>1. Covered(msm') /\ st' = st /\ Covered(st)
      BY <2>6, StoreType DEF StoreEffect, EscrowInv, StoreDeal
    <3> QED BY <3>1 DEF EscrowInv
  <2>7. CASE CommitPublish
    BY <2>7 DEF CommitPublish, EscrowInv
  <2>8. CASE AbortPublish
    BY <2>8 DEF AbortPublish, EscrowInv
  <2>9. ASSUME NEW miner \in Providers, NEW ids \in SUBSET DOMAIN st.Proposals, NEW expiry \in Epochs,
               ActivateDeals(miner, ids, expiry)
        PROVE  EscrowInv'
    <3>1. st'.EscrowTable = st.EscrowTable /\ st'.LockedTable = st.LockedTable /\ phase' = "messages"
      BY <2>0, <2>9 DEF ActivateDeals, MarketState
    <3> QED BY <3>1 DEF EscrowInv, Covered
  <2>10. ASSUME NEW miner \in Providers, NEW ids \in SUBSET DOMAIN st.Proposals, NEW e \in Epochs,
                OnMinerSectorsTerminate(miner, e, ids)
         PROVE  EscrowInv'
    <3>1. st'.EscrowTable = st.EscrowTable /\ st'.LockedTable = st.LockedTable /\ phase' = "messages"
      BY <2>0, <2>10 DEF OnMinerSectorsTerminate, MarketState
    <3> QED BY <3>1 DEF EscrowInv, Covered
  <2>11. CASE CronTick
    BY <2>11 DEF CronTick, EscrowInv
  <2>12. ASSUME NEW op, TimeOutDeal(op) PROVE EscrowInv'
    <3>1. Covered(msm') /\ st' = st /\ Covered(st)
      BY <2>12, TimeOutType, Zenon DEF TimeOutEffect, EscrowInv, TimeOutDeal
    <3> QED BY <3>1 DEF EscrowInv
  <2>13. ASSUME NEW op, UpdateDeal(op) PROVE EscrowInv'
    <3>1. st' = st /\ Covered(st) /\ Covered(msm)
      BY <2>13 DEF UpdateDeal, EscrowInv
    <3>2. Covered(msm')
      BY <2>13, <3>1, UpdateType, Zenon DEF UpdateEffect
    <3> QED BY <3>1, <3>2 DEF EscrowInv
  <2>14. CASE CommitCron
    <3>1. msm \in MarketState /\ Covered(msm) /\ phase' = "ticked"
      BY <2>14 DEF CommitCron, EscrowInv, TypeInv, TypeOK
    <3>2. st'.EscrowTable = msm.EscrowTable /\ st'.LockedTable = msm.LockedTable
      BY <2>14, <3>1 DEF CommitCron, MarketState
    <3> QED BY <3>1, <3>2 DEF EscrowInv, Covered
  <2>15. CASE AbortCron
    BY <2>15 DEF AbortCron, EscrowInv
  <2>16. ASSUME NEW n \in 1 .. MaxNullRounds + 1, NextEpoch(n) PROVE EscrowInv'
    BY <2>16 DEF NextEpoch, EscrowInv
  <2>17. CASE Horizon \/ UNCHANGED vars
    BY <2>17 DEF Horizon, vars, EscrowInv
  <2> QED
    BY <2>1, <2>2, <2>3, <2>4, <2>5, <2>6, <2>7, <2>8, <2>9, <2>10, <2>11, <2>12, <2>13, <2>14,
       <2>15, <2>16, <2>17 DEF Next, EndCron
<1>1. Init => EscrowInv
  <2> SUFFICES ASSUME Init PROVE EscrowInv
    OBVIOUS
  <2>1. \A a \in Addrs : st.LockedTable[a] = 0 /\ st.EscrowTable[a] = 0
    BY DEF Init
  <2>2. Covered(st)
    BY <2>1 DEF Covered
  <2> QED BY <2>2 DEF EscrowInv, Init
<1> QED BY <1>1, TypeInvAlways, <1>EscrowInvInductive, PTL DEF Spec

\* No sequence of deposits, withdrawals, publications, activations, terminations and ticks, late
\* ones included, ever leaves an account with more locked than it has in escrow.
THEOREM EscrowCovered == Spec => []EscrowCoversLocked
<1>1. EscrowInv => EscrowCoversLocked
  BY DEF EscrowInv, Covered, EscrowCoversLocked
<1> QED BY <1>1, EscrowInvAlways, PTL

-----------------------------------------------------------------------------
(* The deals and the operations that cron has for them.                     *)

\* Deal d has been updated by cron at least once.
Updated(s, d) == d \in DOMAIN s.States /\ s.States[d].LastUpdatedEpoch /= EpochUndefined

\* The deals of s are known by one ID each, and a proposal is pending exactly as long as cron has
\* not updated its deal.
WellFormed(s) ==
    /\ \A d \in DOMAIN s.Proposals : d < s.NextID
    /\ DOMAIN s.States \subseteq DOMAIN s.Proposals
    /\ \A c, d \in DOMAIN s.Proposals : s.Proposals[c] = s.Proposals[d] => c = d
    /\ \A p \in s.PendingProposals :
            \E d \in DOMAIN s.Proposals : s.Proposals[d] = p /\ ~Updated(s, d)
    /\ \A d \in DOMAIN s.Proposals : ~Updated(s, d) => s.Proposals[d] \in s.PendingProposals

\* The updates came between a deal's start and its end, and by e.
UpdatedBy(s, e) ==
    \A d \in DOMAIN s.States : Updated(s, d) =>
        /\ s.Proposals[d].StartEpoch <= s.States[d].LastUpdatedEpoch
        /\ s.States[d].LastUpdatedEpoch <= e
        /\ s.States[d].LastUpdatedEpoch < s.Proposals[d].EndEpoch

\* ops has exactly one operation for each deal of s, after the last tick and not before its start.
Scheduled(s, ops) ==
    /\ \A d \in DOMAIN s.Proposals : \E op \in ops : op[2] = d
    /\ \A op \in ops :
            /\ op[2] \in DOMAIN s.Proposals
            /\ op[1] > s.LastCron
            /\ op[1] >= s.Proposals[op[2]].StartEpoch
            /\ \A other \in ops : other[2] = op[2] => other = op

\* The deals of s, the last of them updated by e, with the operations that cron has for them.
DealsOK(s, e, ops) == WellFormed(s) /\ UpdatedBy(s, e) /\ Scheduled(s, ops)

\* The operations that a tick leaves to cron: those of later epochs, those it has not come to
\* yet, and those it will add.
CronOps == {op \in msm.DealOpsByEpoch : op[1] > epoch} \cup call.due \cup call.updatesNeeded

\* The deals that passed the filter are distinct, still to start, and not pending.
Chosen(pending) ==
    /\ \A i, j \in 1 .. Len(call.validDeals) : call.validDeals[i] = call.validDeals[j] => i = j
    /\ \A i \in 1 .. Len(call.validDeals) :
          call.validDeals[i].StartEpoch >= epoch /\ call.validDeals[i] \notin pending

\* DealsTracked, strengthened: also of an open transaction, where a tick has taken operations out
\* of the queue and not yet put the next ones in.
DealsInv ==
    /\ IF phase = "ticked" THEN st.LastCron <= epoch ELSE st.LastCron < epoch
    /\ DealsOK(st, st.LastCron, st.DealOpsByEpoch)
    /\ phase = "filter" => Chosen(st.PendingProposals)
    /\ phase = "store" =>
         /\ Chosen(msm.PendingProposals)
         /\ msm.LastCron = st.LastCron /\ msm.States = st.States
         /\ DealsOK(msm, msm.LastCron, msm.DealOpsByEpoch)
    /\ phase = "cron" =>
         /\ msm.LastCron = st.LastCron /\ msm.DealOpsByEpoch = st.DealOpsByEpoch
         /\ DealsOK(msm, epoch, CronOps)
         /\ \A op \in call.due : op[1] <= epoch
         /\ \A op \in call.updatesNeeded : op[1] > epoch

\* What MarketState says of the deals of a state.
LEMMA StateTypes ==
    ASSUME NEW s \in MarketState
    PROVE  /\ DOMAIN s.Proposals \subseteq DealIDs
           /\ \A d \in DOMAIN s.Proposals : s.Proposals[d] \in Offers
           /\ DOMAIN s.States \subseteq DealIDs
           /\ \A d \in DOMAIN s.States : s.States[d] \in DealState
           /\ s.NextID \in Nat /\ s.LastCron \in Int /\ s.PendingProposals \subseteq Offers
           /\ \A op \in s.DealOpsByEpoch : op = <<op[1], op[2]>> /\ op[1] \in Nat /\ op[2] \in DealIDs
<1>1. /\ s.Proposals \in PartialFunctions(DealIDs, Offers)
      /\ s.States \in PartialFunctions(DealIDs, DealState)
      /\ s.DealOpsByEpoch \in SUBSET (Nat \X DealIDs)
      /\ s.NextID \in Nat /\ s.PendingProposals \subseteq Offers /\ s.LastCron \in Epochs \cup {-1}
  BY DEF MarketState
<1>2. s.LastCron \in Int
  BY <1>1, BoundsAssumption DEF Epochs
<1>3. \A op \in s.DealOpsByEpoch : op = <<op[1], op[2]>> /\ op[1] \in Nat /\ op[2] \in DealIDs
  BY <1>1
<1> QED BY <1>1, <1>2, <1>3, PartialFunctionType

\* Epochs, deal IDs and the update interval are integers.
LEMMA EpochTypes ==
    /\ \A x \in DealState : x.LastUpdatedEpoch \in Int /\ x.SlashEpoch \in Int
    /\ \A e \in Epochs : e \in Nat /\ e # EpochUndefined
    /\ EpochUndefined = -1
    /\ DealIDs \subseteq Nat
    /\ DealUpdatesInterval \in Nat /\ DealUpdatesInterval > 0
BY BoundsAssumption DEF DealState, Epochs, EpochUndefined, DealIDs

\* What publishing deal, first processed at t, does to the deals.
Published(m, n, deal, t) ==
    /\ n.Proposals = Put(m.Proposals, m.NextID, deal)
    /\ n.States = m.States
    /\ n.PendingProposals = m.PendingProposals \cup {deal}
    /\ n.NextID = m.NextID + 1
    /\ n.DealOpsByEpoch = m.DealOpsByEpoch \cup {<<t, m.NextID>>}
    /\ n.LastCron = m.LastCron

\* The first operation on a deal takes its proposal off the pending ones.
SettledProposal(m, n, id) ==
    /\ n.PendingProposals = IF Updated(m, id) THEN m.PendingProposals
                            ELSE m.PendingProposals \ {m.Proposals[id]}
    /\ n.NextID = m.NextID
    /\ n.LastCron = m.LastCron

\* What the end of deal id does to the deals.
Ended(m, n, id) ==
    /\ n.Proposals = Without(m.Proposals, id)
    /\ n.States = Without(m.States, id)
    /\ SettledProposal(m, n, id)

\* What an update of deal id at e does to the deals.
Marked(m, n, id, e) ==
    /\ n.Proposals = m.Proposals
    /\ DOMAIN n.States = DOMAIN m.States
    /\ n.States[id] = [m.States[id] EXCEPT !.LastUpdatedEpoch = e]
    /\ \A d \in DOMAIN m.States \ {id} : n.States[d] = m.States[d]
    /\ SettledProposal(m, n, id)

\* What the filter does with the deal in hand.
FilterEffect(inBounds, ok) ==
    LET deal == Head(call.deals)
        keep == PassesMarketChecks(deal, inBounds) /\ (deal.VerifiedDeal => ok)
    IN /\ deal \in Offers
       /\ call'.provider = call.provider
       /\ call'.validDeals = IF keep THEN Append(call.validDeals, deal) ELSE call.validDeals
       /\ call'.totalProviderLockup =
             IF ValidDeal(deal, inBounds) /\ ClientBalanceOk(deal) THEN ProviderLockup(deal)
             ELSE call.totalProviderLockup
       /\ call'.totalClientLockup =
             [call.totalClientLockup EXCEPT ![deal.Client] =
                IF ValidDeal(deal, inBounds) THEN ClientLockup(deal) ELSE @]

\* A step of the filter does what FilterEffect says.
LEMMA FilterChange ==
    ASSUME TypeInv, NEW inBounds, NEW ok, FilterDeal(inBounds, ok)
    PROVE  FilterEffect(inBounds, ok)
<1> DEFINE deal == Head(call.deals)
           V == IF PassesMarketChecks(deal, inBounds) /\ (deal.VerifiedDeal => ok)
                THEN Append(call.validDeals, deal) ELSE call.validDeals
           P == IF ValidDeal(deal, inBounds) /\ ClientBalanceOk(deal) THEN ProviderLockup(deal)
                ELSE call.totalProviderLockup
           C == [call.totalClientLockup EXCEPT ![deal.Client] =
                   IF ValidDeal(deal, inBounds) THEN ClientLockup(deal) ELSE @]
           D == Tail(call.deals)
<1>1. call \in PublishCall /\ call.deals # <<>>
  BY DEF TypeInv, FilterDeal
<1>2. deal \in Offers
  BY <1>1 DEF PublishCall
<1>3. call' = [call EXCEPT !.deals = D, !.totalClientLockup = C, !.totalProviderLockup = P,
                           !.validDeals = V]
  BY <1>1 DEF FilterDeal, PublishCall
<1>4. call'.provider = call.provider /\ call'.validDeals = V /\ call'.totalProviderLockup = P
      /\ call'.totalClientLockup = C
  <2> HIDE DEF V, P, C, D
  <2> QED BY <1>1, <1>3 DEF PublishCall
<1> QED BY <1>2, <1>4 DEF FilterEffect

\* What activation does to deal states.
LEMMA ActivateEffect ==
    ASSUME TypeInv, NEW miner, NEW ids, NEW expiry, ActivateDeals(miner, ids, expiry)
    PROVE  LET fresh == [SectorStartEpoch |-> epoch, LastUpdatedEpoch |-> EpochUndefined,
                         SlashEpoch |-> EpochUndefined]
           IN /\ ids \subseteq DOMAIN st.Proposals /\ ids \cap DOMAIN st.States = {}
              /\ DOMAIN st'.States = DOMAIN st.States \cup ids
              /\ \A d \in ids : /\ st'.States[d] = fresh
                                /\ st'.States[d].LastUpdatedEpoch = EpochUndefined
              /\ \A d \in DOMAIN st.States : st'.States[d] = st.States[d]
              /\ st'.Proposals = st.Proposals /\ st'.PendingProposals = st.PendingProposals
              /\ st'.NextID = st.NextID /\ st'.DealOpsByEpoch = st.DealOpsByEpoch
              /\ st'.LastCron = st.LastCron /\ st'.EscrowTable = st.EscrowTable
              /\ st'.LockedTable = st.LockedTable /\ st'.Totals = st.Totals
<1> DEFINE fresh == [SectorStartEpoch |-> epoch, LastUpdatedEpoch |-> EpochUndefined,
                     SlashEpoch |-> EpochUndefined]
           S == [d \in DOMAIN st.States \cup ids |-> IF d \in ids THEN fresh ELSE st.States[d]]
<1>1. st \in MarketState
  BY DEF TypeInv, TypeOK
<1>2. st' = [st EXCEPT !.States = S]
  BY DEF ActivateDeals
<1>3. ids \subseteq DOMAIN st.Proposals /\ ids \cap DOMAIN st.States = {}
  BY DEF ActivateDeals
<1> HIDE DEF fresh
<1>4. DOMAIN S = DOMAIN st.States \cup ids /\ (\A d \in ids : S[d] = fresh)
      /\ \A d \in DOMAIN st.States : S[d] = st.States[d]
  BY <1>3
<1> HIDE DEF S
<1>5. /\ st'.States = S /\ st'.Proposals = st.Proposals /\ st'.PendingProposals = st.PendingProposals
      /\ st'.NextID = st.NextID /\ st'.DealOpsByEpoch = st.DealOpsByEpoch
      /\ st'.LastCron = st.LastCron /\ st'.EscrowTable = st.EscrowTable
      /\ st'.LockedTable = st.LockedTable /\ st'.Totals = st.Totals
  BY <1>1, <1>2 DEF MarketState
<1> QED BY <1>3, <1>4, <1>5 DEF fresh

\* What a termination does to deal states.
LEMMA TerminateEffect ==
    ASSUME TypeInv, NEW miner, NEW e, NEW ids, OnMinerSectorsTerminate(miner, e, ids)
    PROVE  /\ DOMAIN st'.States = DOMAIN st.States
           /\ \A d \in DOMAIN st.States :
                  /\ st'.States[d].LastUpdatedEpoch = st.States[d].LastUpdatedEpoch
                  /\ \/ st'.States[d].SlashEpoch = st.States[d].SlashEpoch
                     \/ /\ st'.States[d].SlashEpoch = e
                        /\ d \in DOMAIN st.Proposals /\ st.Proposals[d].EndEpoch > e
           /\ st'.Proposals = st.Proposals /\ st'.PendingProposals = st.PendingProposals
           /\ st'.NextID = st.NextID /\ st'.DealOpsByEpoch = st.DealOpsByEpoch
           /\ st'.LastCron = st.LastCron /\ st'.EscrowTable = st.EscrowTable
           /\ st'.LockedTable = st.LockedTable /\ st'.Totals = st.Totals
<1> DEFINE S == [d \in DOMAIN st.States |->
                IF /\ d \in ids \cap DOMAIN st.Proposals
                   /\ st.Proposals[d].EndEpoch > e
                   /\ st.States[d].SlashEpoch = EpochUndefined
                THEN [st.States[d] EXCEPT !.SlashEpoch = e]
                ELSE st.States[d]]
<1>1. st \in MarketState
  BY DEF TypeInv, TypeOK
<1>2. st' = [st EXCEPT !.States = S]
  BY DEF OnMinerSectorsTerminate
<1>3. \A x \in DealState : /\ [x EXCEPT !.SlashEpoch = e].SlashEpoch = e
                           /\ [x EXCEPT !.SlashEpoch = e].LastUpdatedEpoch = x.LastUpdatedEpoch
  BY DEF DealState
<1>4. \A d \in DOMAIN st.States : st.States[d] \in DealState
  BY <1>1, StateTypes
<1>5. DOMAIN S = DOMAIN st.States
      /\ \A d \in DOMAIN st.States :
            /\ S[d].LastUpdatedEpoch = st.States[d].LastUpdatedEpoch
            /\ \/ S[d].SlashEpoch = st.States[d].SlashEpoch
               \/ /\ S[d].SlashEpoch = e
                  /\ d \in DOMAIN st.Proposals /\ st.Proposals[d].EndEpoch > e
  BY <1>3, <1>4
<1> HIDE DEF S
<1>6. /\ st'.States = S /\ st'.Proposals = st.Proposals /\ st'.PendingProposals = st.PendingProposals
      /\ st'.NextID = st.NextID /\ st'.DealOpsByEpoch = st.DealOpsByEpoch
      /\ st'.LastCron = st.LastCron /\ st'.EscrowTable = st.EscrowTable
      /\ st'.LockedTable = st.LockedTable /\ st'.Totals = st.Totals
  BY <1>1, <1>2 DEF MarketState
<1> QED BY <1>5, <1>6

\* The deals are tracked in every state.
LEMMA DealsInvAlways == Spec => []DealsInv
\* The constructor leaves no deals.
<1>InitDeals. Init => DealsInv
  <2> SUFFICES ASSUME Init PROVE DealsInv
    OBVIOUS
  <2>1. /\ DOMAIN st.Proposals = {} /\ DOMAIN st.States = {} /\ st.PendingProposals = {}
        /\ st.DealOpsByEpoch = {} /\ st.LastCron = -1 /\ epoch = 0 /\ phase = "messages"
    BY DEF Init
  <2>2. DealsOK(st, st.LastCron, st.DealOpsByEpoch)
    BY <2>1 DEF DealsOK, WellFormed, UpdatedBy, Scheduled
  <2> QED BY <2>1, <2>2 DEF DealsInv
\* Every step of the market keeps the deals tracked.
<1>DealsInvInductive. TypeInv /\ DealsInv /\ [Next]_vars => DealsInv'
  \* The end of a deal, with the operation that ended it.
  <2>RemoveDeal.
      ASSUME NEW m \in MarketState, NEW n \in MarketState, NEW id \in DOMAIN m.Proposals,
             NEW ops, NEW op \in ops, op[2] = id, NEW e,
             Ended(m, n, id), DealsOK(m, e, ops)
      PROVE  DealsOK(n, e, ops \ {op})
    <3> USE <2>RemoveDeal
    <3> USE DEF DealsOK, Ended, SettledProposal
    <3>1. /\ DOMAIN n.Proposals = DOMAIN m.Proposals \ {id}
          /\ \A d \in DOMAIN n.Proposals : n.Proposals[d] = m.Proposals[d]
          /\ DOMAIN n.States = DOMAIN m.States \ {id}
          /\ \A d \in DOMAIN n.States : n.States[d] = m.States[d]
      BY DEF Without
    <3>2. \A d \in DOMAIN n.Proposals : Updated(n, d) <=> Updated(m, d)
      BY <3>1 DEF Updated
    <3>3. WellFormed(n)
      <4>1. \A d \in DOMAIN n.Proposals : d < n.NextID
        BY <3>1 DEF WellFormed
      <4>2. DOMAIN n.States \subseteq DOMAIN n.Proposals
        BY <3>1 DEF WellFormed
      <4>3. \A c, d \in DOMAIN n.Proposals : n.Proposals[c] = n.Proposals[d] => c = d
        BY <3>1 DEF WellFormed
      <4>4. ASSUME NEW p \in n.PendingProposals
            PROVE  \E d \in DOMAIN n.Proposals : n.Proposals[d] = p /\ ~Updated(n, d)
        <5>1. PICK d \in DOMAIN m.Proposals : m.Proposals[d] = p /\ ~Updated(m, d)
          BY DEF WellFormed
        <5>2. d # id
          BY <5>1
        <5> QED BY <3>1, <3>2, <5>1, <5>2
      <4>5. ASSUME NEW d \in DOMAIN n.Proposals, ~Updated(n, d)
            PROVE  n.Proposals[d] \in n.PendingProposals
        <5>1. m.Proposals[d] \in m.PendingProposals /\ m.Proposals[d] # m.Proposals[id]
          BY <3>1, <3>2, <4>5 DEF WellFormed
        <5> QED BY <3>1, <4>5, <5>1
      <4> QED BY <4>1, <4>2, <4>3, <4>4, <4>5, ZenonT(60) DEF WellFormed
    <3>4. UpdatedBy(n, e)
      BY <3>1 DEF UpdatedBy, Updated, WellFormed
    <3>5. Scheduled(n, ops \ {op})
      BY <3>1 DEF Scheduled
    <3> QED BY <3>3, <3>4, <3>5, ZenonT(60)
  \* An update of a deal at e, with the operation that made it and its next one.
  <2>MarkUpdated.
      ASSUME NEW m \in MarketState, NEW n \in MarketState, NEW id \in DOMAIN m.States,
             NEW ops, NEW op \in ops, op[2] = id, NEW e \in Epochs, NEW t \in Nat, t >= e, t > m.LastCron,
             Marked(m, n, id, e), m.Proposals[id].StartEpoch <= e, e < m.Proposals[id].EndEpoch,
             DealsOK(m, e, ops)
      PROVE  DealsOK(n, e, (ops \ {op}) \cup {<<t, id>>})
    <3> USE <2>MarkUpdated
    <3>0. /\ WellFormed(m) /\ UpdatedBy(m, e) /\ Scheduled(m, ops)
          /\ n.Proposals = m.Proposals /\ n.NextID = m.NextID /\ n.LastCron = m.LastCron
          /\ n.PendingProposals = IF Updated(m, id) THEN m.PendingProposals
                                  ELSE m.PendingProposals \ {m.Proposals[id]}
      BY DEF DealsOK, Marked, SettledProposal
    <3>1. /\ id \in DOMAIN m.Proposals /\ m.States[id] \in DealState /\ m.Proposals[id] \in Offers
          /\ e \in Nat /\ m.Proposals[id].StartEpoch \in Nat
      BY <3>0, StateTypes, EpochTypes, OfferAmounts DEF WellFormed
    <3>2. /\ DOMAIN n.States = DOMAIN m.States
          /\ n.States[id].LastUpdatedEpoch = e
          /\ \A d \in DOMAIN m.States \ {id} : n.States[d] = m.States[d]
      BY <3>1 DEF DealState, Marked
    <3>3. Updated(n, id) /\ \A d \in DOMAIN n.Proposals \ {id} : Updated(n, d) <=> Updated(m, d)
      <4>1. Updated(n, id)
        BY <3>2, EpochTypes DEF Updated
      <4> QED BY <3>0, <3>2, <4>1 DEF Updated
    <3>4. WellFormed(n)
      <4>1. DOMAIN n.States \subseteq DOMAIN n.Proposals
        BY <3>0, <3>2 DEF WellFormed
      <4>2. ASSUME NEW p \in n.PendingProposals
            PROVE  \E d \in DOMAIN n.Proposals : n.Proposals[d] = p /\ ~Updated(n, d)
        <5>1. PICK d \in DOMAIN m.Proposals : m.Proposals[d] = p /\ ~Updated(m, d)
          BY <3>0 DEF WellFormed
        <5>2. d # id
          BY <3>0, <5>1, ZenonT(60)
        <5> QED BY <3>0, <3>3, <5>1, <5>2
      <4>3. ASSUME NEW d \in DOMAIN n.Proposals, ~Updated(n, d)
            PROVE  n.Proposals[d] \in n.PendingProposals
        <5>1. d # id /\ ~Updated(m, d)
          BY <3>0, <3>3, <4>3
        <5>2. m.Proposals[d] \in m.PendingProposals /\ m.Proposals[d] # m.Proposals[id]
          BY <3>0, <3>1, <5>1 DEF WellFormed
        <5> QED BY <3>0, <5>2
      <4> QED BY <3>0, <4>1, <4>2, <4>3, ZenonT(60) DEF WellFormed
    <3>5. UpdatedBy(n, e)
      <4> SUFFICES ASSUME NEW d \in DOMAIN n.States, Updated(n, d)
                   PROVE  /\ n.Proposals[d].StartEpoch <= n.States[d].LastUpdatedEpoch
                          /\ n.States[d].LastUpdatedEpoch <= e
                          /\ n.States[d].LastUpdatedEpoch < n.Proposals[d].EndEpoch
        BY DEF UpdatedBy
      <4>1. CASE d = id
        <5>1. e <= e
          BY <3>1
        <5>2. n.Proposals[d] = m.Proposals[id] /\ n.States[d].LastUpdatedEpoch = e
          BY <3>0, <3>2, <4>1, ZenonT(60)
        <5> QED BY <5>1, <5>2, ZenonT(60)
      <4>2. CASE d # id
        BY <3>0, <3>1, <3>2, <3>3, <4>2, ZenonT(60) DEF UpdatedBy, Updated
      <4> QED BY <4>1, <4>2
    <3>6. Scheduled(n, (ops \ {op}) \cup {<<t, id>>})
      <4> DEFINE new == <<t, id>>
      <4>1. new[1] = t /\ new[2] = id
        OBVIOUS
      <4> HIDE DEF new
      <4>2. t >= m.Proposals[id].StartEpoch
        BY <3>1
      <4>3. ASSUME NEW d \in DOMAIN n.Proposals
            PROVE  \E x \in (ops \ {op}) \cup {new} : x[2] = d
        <5>1. CASE d = id
          BY <4>1, <5>1
        <5>2. CASE d # id
          <6>1. PICK x \in ops : x[2] = d
            BY <3>0 DEF Scheduled
          <6> QED BY <3>0, <5>2, <6>1
        <5> QED BY <5>1, <5>2
      <4>4. ASSUME NEW x \in (ops \ {op}) \cup {new}
            PROVE  /\ x[2] \in DOMAIN n.Proposals /\ x[1] > n.LastCron
                   /\ x[1] >= n.Proposals[x[2]].StartEpoch
        <5>1. CASE x = new
          BY <3>0, <3>1, <4>1, <4>2, <5>1
        <5>2. CASE x \in ops \ {op}
          BY <3>0, <5>2 DEF Scheduled
        <5> QED BY <5>1, <5>2
      <4>5. ASSUME NEW x \in (ops \ {op}) \cup {new}, NEW y \in (ops \ {op}) \cup {new}, x[2] = y[2]
            PROVE  x = y
        <5>1. \A z \in ops \ {op} : z[2] # id
          BY <3>0 DEF Scheduled
        <5>2. CASE x = new \/ y = new
          BY <4>1, <4>5, <5>1, <5>2
        <5>3. CASE x \in ops /\ y \in ops
          BY <3>0, <4>5, <5>3 DEF Scheduled
        <5> QED BY <5>2, <5>3
      <4>6. Scheduled(n, (ops \ {op}) \cup {new})
        BY <4>3, <4>4, <4>5, ZenonT(60) DEF Scheduled
      <4> QED BY <4>6 DEF new
    <3> QED BY <3>4, <3>5, <3>6 DEF DealsOK
  \* A deal that passes the filter is neither pending nor in the batch twice, and starts later.
  <2>FilterDeals.
      ASSUME TypeInv, DealsInv, NEW inBounds, NEW ok, FilterDeal(inBounds, ok)
      PROVE  DealsInv'
    <3> USE <2>FilterDeals
    <3> DEFINE deal == Head(call.deals)
               V == call.validDeals
    <3>1. /\ phase = "filter" /\ phase' = "filter" /\ st' = st /\ epoch' = epoch
          /\ call \in PublishCall
      BY DEF FilterDeal, TypeInv
    <3>2. V \in Seq(Offers) /\ Len(V) \in Nat
      BY <3>1 DEF PublishCall
    <3>3. deal \in Offers /\ call'.validDeals \in {V, Append(V, deal)}
          /\ (call'.validDeals # V => PassesMarketChecks(deal, inBounds))
      BY FilterChange, Zenon DEF FilterEffect
    <3>4. Chosen(st.PendingProposals)
      BY <3>1, ZenonT(60) DEF DealsInv
    <3>5. Chosen(st.PendingProposals)'
      <4>1. CASE call'.validDeals = V
        BY <3>1, <3>4, <4>1 DEF Chosen
      <4>2. CASE call'.validDeals # V
        <5>1. /\ call'.validDeals = Append(V, deal) /\ epoch <= deal.StartEpoch
              /\ deal \notin st.PendingProposals /\ \A i \in 1 .. Len(V) : V[i] # deal
          BY <3>3, <4>2 DEF PassesMarketChecks, ValidDeal, Duplicate
        <5>2. /\ Len(call'.validDeals) = Len(V) + 1 /\ call'.validDeals[Len(V) + 1] = deal
              /\ \A i \in 1 .. Len(V) : call'.validDeals[i] = V[i]
          BY <3>2, <3>3, <5>1
        <5>3. deal.StartEpoch \in Int /\ epoch \in Int
          BY <3>3, OfferAmounts, EpochTypes DEF TypeInv, TypeOK
        <5>4. \A i \in 1 .. Len(call'.validDeals) : i \in 1 .. Len(V) \/ i = Len(V) + 1
          BY <3>2, <5>2
        <5>5. deal.StartEpoch >= epoch
          BY <5>1, <5>3
        <5> QED BY <3>1, <3>4, <5>1, <5>2, <5>4, <5>5 DEF Chosen
      <4> QED BY <4>1, <4>2, ZenonT(60)
    <3> QED BY <3>1, <3>5, ZenonT(60) DEF DealsInv
  \* Storing a deal gives it an operation of its own and makes its proposal pending.
  <2>StoreDeals.
      ASSUME TypeInv, DealsInv, StoreDeal
      PROVE  DealsInv'
    \* Publication of a deal whose proposal is not pending and whose start is still to come.
    <3>AddDeal.
        ASSUME NEW m \in MarketState, NEW n \in MarketState, NEW deal \in Offers, NEW t \in Nat,
               m.NextID \in DealIDs,
               Published(m, n, deal, t), t >= deal.StartEpoch, m.LastCron < deal.StartEpoch, deal \notin m.PendingProposals,
               DealsOK(m, m.LastCron, m.DealOpsByEpoch)
        PROVE  DealsOK(n, n.LastCron, n.DealOpsByEpoch)
      <4> USE <3>AddDeal
      <4> DEFINE id == m.NextID
      <4> USE DEF DealsOK, Published
      <4>1. /\ DOMAIN n.Proposals = DOMAIN m.Proposals \cup {id}
            /\ n.Proposals[id] = deal
            /\ id \notin DOMAIN m.Proposals /\ id \notin DOMAIN m.States
            /\ \A d \in DOMAIN m.Proposals : n.Proposals[d] = m.Proposals[d]
        <5>1. m.NextID \in Nat /\ \A d \in DOMAIN m.Proposals : d \in Nat /\ d < m.NextID
          BY StateTypes, EpochTypes DEF WellFormed
        <5>2. id \notin DOMAIN m.Proposals
          BY <5>1, AboveAll
        <5> QED BY <5>2 DEF Put, WellFormed
      <4>2. m.NextID \in Nat /\ m.LastCron \in Int /\ deal.StartEpoch \in Nat
            /\ \A d \in DOMAIN m.Proposals : d \in Nat /\ d < m.NextID
        BY StateTypes, EpochTypes, OfferAmounts DEF WellFormed
      <4>3. \A d \in DOMAIN n.Proposals : Updated(n, d) <=> Updated(m, d)
        BY DEF Updated
      <4>4. \A d \in DOMAIN m.Proposals : m.Proposals[d] # deal
        <5> SUFFICES ASSUME NEW d \in DOMAIN m.Proposals, m.Proposals[d] = deal PROVE FALSE
          OBVIOUS
        <5>1. Updated(m, d)
          BY DEF WellFormed
        <5>2. d \in DOMAIN m.States /\ deal.StartEpoch <= m.States[d].LastUpdatedEpoch
              /\ m.States[d].LastUpdatedEpoch <= m.LastCron
          BY <5>1 DEF UpdatedBy, Updated
        <5>3. m.States[d].LastUpdatedEpoch \in Int
          BY <5>2, StateTypes, EpochTypes
        <5>4. m.LastCron \in Int /\ deal.StartEpoch \in Int /\ m.LastCron < deal.StartEpoch
          BY <4>2
        <5> QED BY <5>2, <5>3, <5>4, NotBetween
      <4>5. WellFormed(n)
        <5>1. \A d \in DOMAIN n.Proposals : d < n.NextID
          BY <4>1, <4>2
        <5>2. DOMAIN n.States \subseteq DOMAIN n.Proposals
          BY <4>1 DEF WellFormed
        <5>3. \A c, d \in DOMAIN n.Proposals : n.Proposals[c] = n.Proposals[d] => c = d
          BY <4>1, <4>4 DEF WellFormed
        <5>4. ~Updated(n, id)
          BY <4>1 DEF Updated
        <5>5. ASSUME NEW p \in n.PendingProposals
              PROVE  \E d \in DOMAIN n.Proposals : n.Proposals[d] = p /\ ~Updated(n, d)
          <6>1. CASE p = deal
            BY <4>1, <5>4, <6>1
          <6>2. CASE p \in m.PendingProposals
            <7>1. PICK d \in DOMAIN m.Proposals : m.Proposals[d] = p /\ ~Updated(m, d)
              BY <6>2 DEF WellFormed
            <7> QED BY <4>1, <4>3, <7>1
          <6> QED BY <6>1, <6>2
        <5>6. ASSUME NEW d \in DOMAIN n.Proposals, ~Updated(n, d) PROVE n.Proposals[d] \in n.PendingProposals
          <6>1. CASE d = id
            BY <4>1, <6>1
          <6>2. CASE d # id
            <7>1. d \in DOMAIN m.Proposals /\ ~Updated(m, d) /\ n.Proposals[d] = m.Proposals[d]
              BY <4>1, <4>3, <5>6, <6>2
            <7> QED BY <7>1 DEF WellFormed
          <6> QED BY <6>1, <6>2
        <5> QED BY <5>1, <5>2, <5>3, <5>5, <5>6, ZenonT(60) DEF WellFormed
      <4>6. UpdatedBy(n, n.LastCron)
        BY <4>1, ZenonT(60) DEF UpdatedBy, Updated, WellFormed
      <4>7. Scheduled(n, n.DealOpsByEpoch)
        <5>1. \A op \in m.DealOpsByEpoch : op[2] # id /\ n.Proposals[op[2]] = m.Proposals[op[2]]
          BY <4>1 DEF Scheduled
        <5> DEFINE new == <<t, id>>
        <5>2. new[1] = t /\ new[2] = id
          OBVIOUS
        <5>3. t > m.LastCron
          BY <4>2
        <5> HIDE DEF new
        <5>4. n.DealOpsByEpoch = m.DealOpsByEpoch \cup {new}
          BY DEF new
        <5> QED BY <4>1, <5>1, <5>2, <5>3, <5>4 DEF Scheduled
      <4> QED BY <4>5, <4>6, <4>7
    <3> USE <2>StoreDeals
    <3> DEFINE deal == Head(call.validDeals)
               id == msm.NextID
               t == GenRandNextEpoch(deal.StartEpoch, id)
               V == call.validDeals
    <3>1. /\ phase = "store" /\ phase' = "store" /\ st' = st /\ epoch' = epoch
          /\ call \in PublishCall /\ V # <<>> /\ msm \in MarketState
      BY DEF StoreDeal, TypeInv, TypeOK
    <3>2. V \in Seq(Offers) /\ Len(V) \in Nat /\ Len(V) > 0
      BY <3>1 DEF PublishCall
    <3>3. TypeInv' /\ StoreEffect
      BY StoreType
    <3>4. msm' \in MarketState
      BY <3>1, <3>3 DEF TypeInv, TypeOK
    <3>5. /\ Chosen(msm.PendingProposals) /\ msm.LastCron = st.LastCron /\ msm.States = st.States
          /\ DealsOK(msm, msm.LastCron, msm.DealOpsByEpoch)
          /\ st.LastCron < epoch
      BY <3>1 DEF DealsInv
    <3>6. deal \in Offers /\ deal.StartEpoch >= epoch /\ deal \notin msm.PendingProposals
          /\ deal.StartEpoch \in Nat /\ epoch \in Nat /\ id \in Nat
      <4>1. deal = V[1] /\ 1 \in 1 .. Len(V)
        BY <3>2
      <4>2. deal \in Offers
        BY <3>2, <4>1
      <4> QED BY <3>1, <3>5, <4>1, <4>2, OfferAmounts, StateTypes, EpochTypes DEF Chosen, TypeInv, TypeOK
    <3>7. t \in Nat /\ t >= deal.StartEpoch
      BY <3>6, NextEpochAfterStart, Zenon
    <3>8. DealsOK(msm', msm'.LastCron, msm'.DealOpsByEpoch)
      <4>1. msm.LastCron < deal.StartEpoch
        <5>1. msm.LastCron \in Int
          BY <3>1, StateTypes
        <5> QED BY <3>5, <3>6, <5>1
      <4>2. msm.NextID \in DealIDs /\ Published(msm, msm', deal, t)
        BY <3>3 DEF StoreEffect, Published
      <4> HIDE DEF deal, t
      <4> QED BY <3>1, <3>4, <3>5, <3>6, <3>7, <4>1, <4>2, <3>AddDeal
    <3>9. Chosen(msm.PendingProposals)'
      <4>1. call'.validDeals = Tail(V) /\ msm'.PendingProposals = msm.PendingProposals \cup {deal}
        BY <3>3 DEF StoreEffect
      <4>2. /\ Len(Tail(V)) = Len(V) - 1 /\ deal = V[1]
            /\ \A i \in 1 .. Len(Tail(V)) : Tail(V)[i] = V[i + 1] /\ i + 1 \in 1 .. Len(V) /\ i + 1 # 1
        BY <3>2
      <4>3. 1 \in 1 .. Len(V)
        BY <3>2
      <4>4. \A i \in 1 .. Len(Tail(V)) : i \in Int
        BY <3>2, <4>2
      <4>5. \A i, j \in 1 .. Len(Tail(V)) : Tail(V)[i] = Tail(V)[j] => i = j
        <5> SUFFICES ASSUME NEW i \in 1 .. Len(Tail(V)), NEW j \in 1 .. Len(Tail(V)), Tail(V)[i] = Tail(V)[j]
                     PROVE  i = j
          OBVIOUS
        <5>1. i + 1 = j + 1
          BY <3>5, <4>2 DEF Chosen
        <5> QED BY <4>4, <5>1
      <4>6. \A i \in 1 .. Len(Tail(V)) : Tail(V)[i].StartEpoch >= epoch
                                         /\ Tail(V)[i] \notin msm.PendingProposals /\ Tail(V)[i] # deal
        BY <3>5, <4>2, <4>3 DEF Chosen
      <4> HIDE DEF deal
      <4> QED BY <3>1, <4>1, <4>5, <4>6 DEF Chosen
    <3>10. msm'.LastCron = st'.LastCron /\ msm'.States = st'.States
      BY <3>1, <3>3, <3>5 DEF StoreEffect
    <3> QED BY <3>1, <3>8, <3>9, <3>10 DEF DealsInv
  \* What an operation of a tick does to the operations that are left.
  <2>CronOpsChange.
      ASSUME TypeInv, DealsInv, phase = "cron", NEW op \in call.due,
             epoch' = epoch, msm'.DealOpsByEpoch = msm.DealOpsByEpoch, call'.due = call.due \ {op}
      PROVE  /\ op \in CronOps
             /\ call'.updatesNeeded = call.updatesNeeded => CronOps' = CronOps \ {op}
             /\ \A new : call'.updatesNeeded = call.updatesNeeded \cup {new} =>
                            CronOps' = (CronOps \ {op}) \cup {new}
    <3> USE <2>CronOpsChange
    <3>1. /\ \A x \in call.due : x[1] <= epoch
          /\ \A x \in call.updatesNeeded : x[1] > epoch
      BY DEF DealsInv
    <3>2. epoch \in Int /\ op[1] \in Int
      <4>1. call.due \in SUBSET (Nat \X DealIDs)
        BY DEF TypeInv, CronCall
      <4> QED BY <4>1, EpochTypes DEF TypeInv, TypeOK
    <3>3. ~(op[1] > epoch)
      BY <3>1, <3>2
    <3>4. op \notin {x \in msm.DealOpsByEpoch : x[1] > epoch} /\ op \notin call.updatesNeeded
      BY <3>1, <3>3
    <3>5. CronOps' = {x \in msm.DealOpsByEpoch : x[1] > epoch} \cup (call.due \ {op}) \cup call'.updatesNeeded
      BY DEF CronOps
    <3> QED BY <3>4, <3>5, ZenonT(60) DEF CronOps
  \* A deal that times out goes with its operation.
  <2>TimeOutDeals.
      ASSUME TypeInv, DealsInv, NEW op, TimeOutDeal(op)
      PROVE  DealsInv'
    <3> USE <2>TimeOutDeals
    <3> DEFINE id == op[2]
    <3>1. /\ phase = "cron" /\ phase' = "cron" /\ st' = st /\ epoch' = epoch /\ msm \in MarketState
      BY DEF TimeOutDeal, TypeInv, TypeOK
    <3>2. TypeInv' /\ TimeOutEffect(op)
      BY TimeOutType
    <3>3. msm' \in MarketState
      BY <3>1, <3>2 DEF TypeInv, TypeOK
    <3>4. /\ op \in call.due /\ id \in DOMAIN msm.Proposals /\ id \notin DOMAIN msm.States
          /\ msm'.Proposals = Without(msm.Proposals, id) /\ msm'.States = msm.States
          /\ msm'.PendingProposals = msm.PendingProposals \ {msm.Proposals[id]}
          /\ msm'.NextID = msm.NextID /\ msm'.DealOpsByEpoch = msm.DealOpsByEpoch
          /\ msm'.LastCron = msm.LastCron
          /\ call'.due = call.due \ {op} /\ call'.updatesNeeded = call.updatesNeeded
      BY <3>2 DEF TimeOutEffect
    <3>5. msm'.States = Without(msm.States, id)
      <4>1. msm.States \in PartialFunctions(DealIDs, DealState)
        BY <3>1 DEF MarketState
      <4>2. PICK D \in SUBSET DealIDs : msm.States \in [D -> DealState]
        BY <4>1 DEF PartialFunctions
      <4> QED BY <3>4, <4>2 DEF Without
    <3>6. op \in CronOps /\ CronOps' = CronOps \ {op}
      BY <3>1, <3>4, <2>CronOpsChange
    <3>7. /\ msm.LastCron = st.LastCron /\ msm.DealOpsByEpoch = st.DealOpsByEpoch
          /\ DealsOK(msm, epoch, CronOps)
          /\ \A x \in call.due : x[1] <= epoch
          /\ \A x \in call.updatesNeeded : x[1] > epoch
      BY <3>1 DEF DealsInv
    <3>8. ~Updated(msm, id)
      BY <3>4 DEF Updated
    <3>9. DealsOK(msm', epoch, CronOps \ {op})
      <4>1. Ended(msm, msm', id)
        BY <3>4, <3>5, <3>8 DEF Ended, SettledProposal
      <4> QED BY <3>1, <3>3, <3>4, <3>6, <3>7, <4>1, <2>RemoveDeal
    <3>10. DealsOK(msm, epoch, CronOps)'
      BY <3>1, <3>6, <3>9
    <3> QED BY <3>1, <3>4, <3>7, <3>10, ZenonT(60) DEF DealsInv
  \* An update replaces the deal's operation by its next one, or ends both.
  <2>UpdateDeals.
      ASSUME TypeInv, DealsInv, NEW op, UpdateDeal(op)
      PROVE  DealsInv'
    <3> USE <2>UpdateDeals
    <3> DEFINE id == op[2]
               state == msm.States[id]
               deal == msm.Proposals[id]
               t == epoch + DealUpdatesInterval
    <3>1. /\ phase = "cron" /\ phase' = "cron" /\ st' = st /\ epoch' = epoch /\ msm \in MarketState
          /\ epoch \in Epochs /\ epoch \in Nat
      BY EpochTypes DEF UpdateDeal, TypeInv, TypeOK
    <3>2. TypeInv' /\ UpdateEffect(op)
      BY UpdateType
    <3>3. msm' \in MarketState
      BY <3>1, <3>2 DEF TypeInv, TypeOK
    <3>4. /\ op \in call.due /\ id \in DOMAIN msm.Proposals /\ id \in DOMAIN msm.States
          /\ epoch >= deal.StartEpoch
          /\ msm'.PendingProposals = IF Updated(msm, id) THEN msm.PendingProposals
                                     ELSE msm.PendingProposals \ {deal}
          /\ msm'.NextID = msm.NextID /\ msm'.DealOpsByEpoch = msm.DealOpsByEpoch
          /\ msm'.LastCron = msm.LastCron /\ call'.due = call.due \ {op}
      BY <3>2 DEF UpdateEffect, Updated
    <3>5. /\ msm.LastCron = st.LastCron /\ msm.DealOpsByEpoch = st.DealOpsByEpoch
          /\ DealsOK(msm, epoch, CronOps)
          /\ \A x \in call.due : x[1] <= epoch
          /\ \A x \in call.updatesNeeded : x[1] > epoch
          /\ st.LastCron < epoch /\ st.LastCron \in Int
      BY <3>1, StateTypes DEF DealsInv, TypeInv, TypeOK
    <3>6. deal \in Offers /\ deal.StartEpoch \in Nat /\ deal.EndEpoch \in Nat
      BY <3>1, <3>4, StateTypes, OfferAmounts
    <3>7. CASE removeDeal(state, deal)
      <4>1. /\ msm'.Proposals = Without(msm.Proposals, id) /\ msm'.States = Without(msm.States, id)
            /\ call'.updatesNeeded = call.updatesNeeded
        BY <3>2, <3>7 DEF UpdateEffect
      <4>2. op \in CronOps /\ CronOps' = CronOps \ {op}
        BY <3>1, <3>4, <4>1, <2>CronOpsChange
      <4>3. DealsOK(msm', epoch, CronOps \ {op})
        <5>1. Ended(msm, msm', id)
          BY <3>4, <4>1, ZenonT(60) DEF Ended, SettledProposal
        <5> QED BY <3>1, <3>3, <3>4, <3>5, <4>2, <5>1, <2>RemoveDeal, ZenonT(60)
      <4>4. DealsOK(msm, epoch, CronOps)'
        BY <3>1, <4>2, <4>3
      <4> QED BY <3>1, <3>4, <3>5, <4>1, <4>4, ZenonT(60) DEF DealsInv
    <3>8. CASE ~removeDeal(state, deal)
      <4>1. /\ msm'.Proposals = msm.Proposals
            /\ msm'.States = [msm.States EXCEPT ![id] = [state EXCEPT !.LastUpdatedEpoch = epoch]]
            /\ call'.updatesNeeded = call.updatesNeeded \cup {<<t, id>>}
        BY <3>2, <3>8 DEF UpdateEffect
      <4>2. op \in CronOps /\ CronOps' = (CronOps \ {op}) \cup {<<t, id>>}
        BY <3>1, <3>4, <4>1, <2>CronOpsChange, Zenon
      <4>3. t \in Nat /\ t > epoch /\ t >= epoch /\ t > msm.LastCron
        <5>1. DealUpdatesInterval \in Nat /\ DealUpdatesInterval > 0
          BY EpochTypes
        <5> QED BY <3>1, <3>5, <5>1, Later
      <4>4. deal.StartEpoch <= epoch /\ epoch < deal.EndEpoch
        BY <3>1, <3>4, <3>6, <3>8 DEF removeDeal
      <4> HIDE DEF t
      <4>5. DealsOK(msm', epoch, (CronOps \ {op}) \cup {<<t, id>>})
        <5>1. Marked(msm, msm', id, epoch)
          BY <3>4, <4>1 DEF Marked, SettledProposal
        <5> QED BY <3>1, <3>3, <3>4, <3>5, <4>2, <4>3, <4>4, <5>1, <2>MarkUpdated, ZenonT(60)
      <4>6. DealsOK(msm, epoch, CronOps)'
        BY <3>1, <4>2, <4>5
      <4>7. \A x \in call'.updatesNeeded : x[1] > epoch
        BY <3>5, <4>1, <4>3
      <4> QED BY <3>1, <3>4, <3>5, <4>6, <4>7, ZenonT(60) DEF DealsInv
    <3> QED BY <3>7, <3>8
  \* Deposits and withdrawals.
  <2>BalanceDeals.
      ASSUME TypeInv, DealsInv, NEW a, NEW v, AddBalance(a, v) \/ WithdrawBalance(a, v)
      PROVE  DealsInv'
    \* A step that leaves the deals as they are keeps them tracked.
    <3>SameDealsOK.
        ASSUME NEW m, NEW n, SameDeals(m, n), NEW e, NEW ops, DealsOK(m, e, ops)
        PROVE  DealsOK(n, e, ops)
      <4> USE <3>SameDealsOK
      <4>1. n.Proposals = m.Proposals /\ n.States = m.States /\ n.PendingProposals = m.PendingProposals
            /\ n.NextID = m.NextID /\ n.LastCron = m.LastCron
        BY DEF SameDeals
      <4>2. \A d : Updated(n, d) <=> Updated(m, d)
        BY <4>1 DEF Updated
      <4>3. WellFormed(n)
        BY <4>1, <4>2, ZenonT(60) DEF DealsOK, WellFormed
      <4>4. UpdatedBy(n, e)
        BY <4>1, <4>2 DEF DealsOK, UpdatedBy
      <4>5. Scheduled(n, ops)
        BY <4>1 DEF DealsOK, Scheduled
      <4> QED BY <4>3, <4>4, <4>5 DEF DealsOK
    <3> USE <2>BalanceDeals
    <3>1. /\ phase = "messages" /\ phase' = phase /\ epoch' = epoch /\ st \in MarketState
      BY DEF AddBalance, WithdrawBalance, TypeInv, TypeOK
    <3>2. PICK x : st' = [st EXCEPT !.EscrowTable[a] = x]
      BY DEF AddBalance, WithdrawBalance
    <3>3. SameDeals(st, st')
      BY <3>1, <3>2 DEF SameDeals, MarketState
    <3>4. DealsOK(st', st.LastCron, st.DealOpsByEpoch) /\ st.LastCron < epoch
      BY <3>1, <3>3, <3>SameDealsOK DEF DealsInv
    <3> QED BY <3>1, <3>3, <3>4, ZenonT(60) DEF DealsInv, SameDeals
  \* A state that differs in deal states only, where no deal counts as updated that did not before.
  <2>StatesDeals.
      ASSUME NEW m \in MarketState, NEW n \in MarketState, NEW e, NEW ops, DealsOK(m, e, ops),
             n.Proposals = m.Proposals, n.PendingProposals = m.PendingProposals,
             n.NextID = m.NextID, n.LastCron = m.LastCron,
             DOMAIN n.States \subseteq DOMAIN m.Proposals,
             \A d \in DOMAIN m.Proposals : Updated(n, d) <=> Updated(m, d),
             \A d \in DOMAIN n.States : Updated(n, d) =>
                  n.States[d].LastUpdatedEpoch = m.States[d].LastUpdatedEpoch
      PROVE  DealsOK(n, e, ops)
    <3> USE <2>StatesDeals
    <3>1. WellFormed(m) /\ UpdatedBy(m, e) /\ Scheduled(m, ops)
      BY DEF DealsOK
    <3>2. WellFormed(n)
      BY <3>1, ZenonT(60) DEF WellFormed
    <3>3. UpdatedBy(n, e)
      <4> SUFFICES ASSUME NEW d \in DOMAIN n.States, Updated(n, d)
                   PROVE  /\ n.Proposals[d].StartEpoch <= n.States[d].LastUpdatedEpoch
                          /\ n.States[d].LastUpdatedEpoch <= e
                          /\ n.States[d].LastUpdatedEpoch < n.Proposals[d].EndEpoch
        BY DEF UpdatedBy
      <4>1. Updated(m, d) /\ d \in DOMAIN m.States
        BY DEF Updated
      <4> QED BY <3>1, <4>1, ZenonT(60) DEF UpdatedBy
    <3>4. Scheduled(n, ops)
      BY <3>1, ZenonT(60) DEF Scheduled
    <3> QED BY <3>2, <3>3, <3>4, ZenonT(60) DEF DealsOK
  <2> SUFFICES ASSUME TypeInv, DealsInv, [Next]_vars PROVE DealsInv'
    OBVIOUS
  <2>0. st \in MarketState /\ st.LastCron \in Int /\ epoch \in Nat
    BY StateTypes, EpochTypes DEF TypeInv, TypeOK
  <2>1. CASE \E a \in Addrs : \E v : AddBalance(a, v) \/ WithdrawBalance(a, v)
    BY <2>1, <2>BalanceDeals
  <2>2. ASSUME NEW deals \in Batches, PublishStorageDeals(deals) PROVE DealsInv'
    <3>1. /\ phase' = "filter" /\ phase = "messages" /\ st' = st /\ epoch' = epoch
          /\ call'.validDeals = <<>>
      BY <2>2 DEF PublishStorageDeals
    <3>2. \A i \in 1 .. Len(<<>>) : FALSE
      OBVIOUS
    <3>3. Chosen(st.PendingProposals)'
      BY <3>1, <3>2 DEF Chosen
    <3> QED BY <3>1, <3>3 DEF DealsInv
  <2>3. CASE \E inBounds, ok \in BOOLEAN : FilterDeal(inBounds, ok)
    BY <2>3, <2>FilterDeals
  <2>4. CASE OpenPublish
    <3>1. /\ phase = "filter" /\ phase' = "store" /\ st' = st /\ msm' = st /\ epoch' = epoch /\ call' = call
      BY <2>4 DEF OpenPublish
    <3> QED BY <3>1 DEF DealsInv, Chosen
  <2>5. CASE StoreDeal
    BY <2>5, <2>StoreDeals
  <2>6. CASE CommitPublish
    <3>1. /\ phase = "store" /\ phase' = "messages" /\ st' = msm /\ epoch' = epoch
      BY <2>6 DEF CommitPublish
    <3> QED BY <3>1, ZenonT(60) DEF DealsInv
  <2>7. CASE AbortPublish
    <3>1. /\ phase \in {"filter", "store"} /\ phase' = "messages" /\ st' = st /\ epoch' = epoch
      BY <2>7 DEF AbortPublish, PublishFails
    <3> QED BY <3>1 DEF DealsInv
  <2>8. ASSUME NEW miner \in Providers, NEW ids \in SUBSET DOMAIN st.Proposals, NEW expiry \in Epochs,
               ActivateDeals(miner, ids, expiry)
        PROVE  DealsInv'
    <3>1. phase = "messages" /\ phase' = phase /\ epoch' = epoch /\ st' \in MarketState
      BY <2>8, ActivateType, Zenon DEF ActivateDeals, TypeInv, TypeOK
    <3>2. /\ \A d \in ids : st'.States[d].LastUpdatedEpoch = EpochUndefined
          /\ \A d \in DOMAIN st.States : st'.States[d] = st.States[d]
          /\ DOMAIN st'.States = DOMAIN st.States \cup ids /\ ids \cap DOMAIN st.States = {}
          /\ st'.Proposals = st.Proposals /\ st'.PendingProposals = st.PendingProposals
          /\ st'.NextID = st.NextID /\ st'.DealOpsByEpoch = st.DealOpsByEpoch
          /\ st'.LastCron = st.LastCron
      BY <2>8, ActivateEffect, ZenonT(60)
    <3>3. \A d \in DOMAIN st.Proposals : Updated(st', d) <=> Updated(st, d)
      BY <3>2 DEF Updated
    <3>4. \A d \in DOMAIN st'.States : Updated(st', d) =>
               st'.States[d].LastUpdatedEpoch = st.States[d].LastUpdatedEpoch
      BY <3>2 DEF Updated
    <3>5. DOMAIN st'.States \subseteq DOMAIN st.Proposals
      BY <3>2, ZenonT(60) DEF DealsInv, DealsOK, WellFormed
    <3>6. DealsOK(st, st.LastCron, st.DealOpsByEpoch)
      BY DEF DealsInv
    <3>7. DealsOK(st', st.LastCron, st.DealOpsByEpoch)
      BY <2>0, <3>1, <3>2, <3>3, <3>4, <3>5, <3>6, <2>StatesDeals, ZenonT(60)
    <3> QED BY <3>1, <3>2, <3>7, ZenonT(60) DEF DealsInv
  <2>9. ASSUME NEW miner \in Providers, NEW ids \in SUBSET DOMAIN st.Proposals, NEW e \in Epochs,
               OnMinerSectorsTerminate(miner, e, ids)
        PROVE  DealsInv'
    <3>1. phase = "messages" /\ phase' = phase /\ epoch' = epoch /\ st' \in MarketState
      BY <2>9, TerminateType DEF OnMinerSectorsTerminate, TypeInv, TypeOK
    <3>2. /\ \A d \in DOMAIN st.States : st'.States[d].LastUpdatedEpoch = st.States[d].LastUpdatedEpoch
          /\ DOMAIN st'.States = DOMAIN st.States
          /\ st'.Proposals = st.Proposals /\ st'.PendingProposals = st.PendingProposals
          /\ st'.NextID = st.NextID /\ st'.DealOpsByEpoch = st.DealOpsByEpoch
          /\ st'.LastCron = st.LastCron
      BY <2>9, TerminateEffect
    <3>3. \A d \in DOMAIN st.Proposals : Updated(st', d) <=> Updated(st, d)
      BY <3>2 DEF Updated
    <3>4. DealsOK(st, st.LastCron, st.DealOpsByEpoch)
      BY DEF DealsInv
    <3>5. DOMAIN st'.States \subseteq DOMAIN st.Proposals
      BY <3>2, <3>4 DEF DealsOK, WellFormed
    <3>6. DealsOK(st', st.LastCron, st.DealOpsByEpoch)
      BY <2>0, <3>1, <3>2, <3>3, <3>4, <3>5, <2>StatesDeals, ZenonT(60)
    <3> QED BY <3>1, <3>2, <3>6 DEF DealsInv
  <2>10. CASE CronTick
    <3>1. /\ phase = "messages" /\ phase' = "cron" /\ st' = st /\ msm' = st /\ epoch' = epoch
          /\ call'.due = {op \in st.DealOpsByEpoch : st.LastCron < op[1] /\ op[1] <= epoch}
          /\ call'.updatesNeeded = {}
      BY <2>10, ZenonT(60) DEF CronTick
    <3>2. DealsOK(st, st.LastCron, st.DealOpsByEpoch) /\ st.LastCron < epoch
      BY <3>1, ZenonT(60) DEF DealsInv
    <3>3. \A op \in st.DealOpsByEpoch : op[1] \in Nat /\ st.LastCron < op[1]
      <4>1. \A op \in st.DealOpsByEpoch : op[1] \in Nat /\ op[1] > st.LastCron
        BY <2>0, <3>2, StateTypes DEF DealsOK, Scheduled
      <4> QED BY <2>0, <4>1
    <3>4. CronOps' = st.DealOpsByEpoch
      <4>1. CronOps' = {op \in st.DealOpsByEpoch : op[1] > epoch}
                       \cup {op \in st.DealOpsByEpoch : st.LastCron < op[1] /\ op[1] <= epoch}
        BY <3>1 DEF CronOps
      <4>2. \A op \in st.DealOpsByEpoch : op[1] > epoch \/ (st.LastCron < op[1] /\ op[1] <= epoch)
        BY <2>0, <3>3
      <4> QED BY <4>1, <4>2, ZenonT(60)
    <3>5. UpdatedBy(st, epoch)
      <4>1. \A d \in DOMAIN st.States : st.States[d].LastUpdatedEpoch \in Int
        BY <2>0, StateTypes, EpochTypes
      <4>2. UpdatedBy(st, st.LastCron)
        BY <3>2 DEF DealsOK
      <4> QED BY <2>0, <3>2, <4>1, <4>2 DEF UpdatedBy
    <3>6. DealsOK(st, epoch, st.DealOpsByEpoch)
      BY <3>2, <3>5 DEF DealsOK
    <3>7. DealsOK(msm, epoch, CronOps)'
      BY <3>1, <3>4, <3>6
    <3> QED BY <3>1, <3>2, <3>7, ZenonT(60) DEF DealsInv
  <2>11. CASE \E op : TimeOutDeal(op)
    BY <2>11, <2>TimeOutDeals
  <2>12. CASE \E op : UpdateDeal(op)
    BY <2>12, <2>UpdateDeals
  <2>13. CASE CommitCron
    <3>1. /\ phase = "cron" /\ phase' = "ticked" /\ epoch' = epoch /\ call.due = {} /\ msm \in MarketState
      BY <2>13 DEF CommitCron, TypeInv, TypeOK
    <3>2. /\ st'.Proposals = msm.Proposals /\ st'.States = msm.States /\ st'.NextID = msm.NextID
          /\ st'.PendingProposals = msm.PendingProposals /\ st'.LastCron = epoch
          /\ st'.DealOpsByEpoch = {op \in msm.DealOpsByEpoch : ~(msm.LastCron < op[1] /\ op[1] <= epoch)}
                                  \cup call.updatesNeeded
      BY <2>13, <3>1 DEF CommitCron, MarketState
    <3>3. /\ msm.LastCron = st.LastCron /\ msm.DealOpsByEpoch = st.DealOpsByEpoch
          /\ WellFormed(msm) /\ UpdatedBy(msm, epoch) /\ Scheduled(msm, CronOps)
          /\ \A x \in call.updatesNeeded : x[1] > epoch
          /\ DealsOK(st, st.LastCron, st.DealOpsByEpoch)
      BY <3>1, ZenonT(60) DEF DealsInv, DealsOK
    <3>4. \A op \in msm.DealOpsByEpoch : op[1] \in Nat /\ msm.LastCron < op[1]
      <4>1. \A op \in st.DealOpsByEpoch : op[1] \in Nat /\ op[1] > st.LastCron
        BY <2>0, <3>3, StateTypes DEF DealsOK, Scheduled
      <4> QED BY <2>0, <3>3, <4>1, ZenonT(60)
    <3>5. st'.DealOpsByEpoch = CronOps /\ \A op \in CronOps : op[1] > epoch
      <4>1. \A op \in msm.DealOpsByEpoch : op[1] > epoch <=> ~(msm.LastCron < op[1] /\ op[1] <= epoch)
        BY <2>0, <3>4
      <4> QED BY <3>1, <3>2, <3>3, <4>1, ZenonT(60) DEF CronOps
    <3>6. \A d : Updated(st', d) <=> Updated(msm, d)
      BY <3>2 DEF Updated
    <3>7. WellFormed(st')
      BY <3>2, <3>3, <3>6, ZenonT(60) DEF WellFormed
    <3>8. UpdatedBy(st', epoch)
      BY <3>2, <3>3, <3>6 DEF UpdatedBy
    <3>9. Scheduled(st', CronOps)
      BY <3>2, <3>3, <3>5 DEF Scheduled
    <3>10. DealsOK(st', st'.LastCron, st'.DealOpsByEpoch)
      BY <3>2, <3>5, <3>7, <3>8, <3>9, Zenon DEF DealsOK
    <3>11. (st.LastCron <= epoch)'
      BY <2>0, <3>1, <3>2
    <3> QED BY <3>1, <3>10, <3>11, ZenonT(60) DEF DealsInv
  <2>14. CASE AbortCron
    <3>1. phase = "cron" /\ phase' = "ticked" /\ st' = st /\ epoch' = epoch
      BY <2>14, ZenonT(60) DEF AbortCron, CronFails
    <3>2. st.LastCron < epoch /\ DealsOK(st, st.LastCron, st.DealOpsByEpoch)
      BY <3>1 DEF DealsInv
    <3>3. st.LastCron <= epoch
      BY <2>0, <3>2
    <3> QED BY <3>1, <3>2, <3>3, ZenonT(60) DEF DealsInv
  <2>15. ASSUME NEW n \in 1 .. MaxNullRounds + 1, NextEpoch(n) PROVE DealsInv'
    <3>1. /\ phase = "ticked" /\ phase' = "messages" /\ st' = st /\ epoch' = epoch + n
          /\ n \in Nat /\ n > 0
      BY <2>15, BoundsAssumption DEF NextEpoch
    <3>2. st.LastCron <= epoch /\ DealsOK(st, st.LastCron, st.DealOpsByEpoch)
      BY <3>1 DEF DealsInv
    <3>3. st.LastCron < epoch'
      BY <2>0, <3>1, <3>2
    <3> QED BY <3>1, <3>2, <3>3, ZenonT(60) DEF DealsInv
  <2>16. CASE Horizon \/ UNCHANGED vars
    <3>1. UNCHANGED vars
      BY <2>16 DEF Horizon
    <3> QED BY <3>1, ZenonT(60) DEF vars, DealsInv, Chosen, CronOps
  <2> QED
    BY ZenonT(60), <2>1, <2>2, <2>3, <2>4, <2>5, <2>6, <2>7, <2>8, <2>9, <2>10, <2>11, <2>12, <2>13, <2>14,
       <2>15, <2>16 DEF Next, EndCron
<1> QED BY <1>InitDeals, <1>DealsInvInductive, TypeInvAlways, PTL DEF Spec

\* Every deal, whenever it was published, activated, terminated or updated, late terminations
\* included, has exactly one operation to come and is pending exactly until its first one: none
\* is forgotten by cron and none is processed twice.
THEOREM DealsAlwaysTracked == Spec => []DealsTracked
<1>1. TypeInv /\ DealsInv => DealsTracked
  <2> SUFFICES ASSUME TypeInv, DealsInv PROVE DealsTracked
    OBVIOUS
  <2>1. WellFormed(st) /\ Scheduled(st, st.DealOpsByEpoch)
    BY DEF DealsInv, DealsOK
  <2>2. ScheduleMatchesDeals
    BY <2>1 DEF Scheduled, ScheduleMatchesDeals
  <2>3. \A d \in DOMAIN st.Proposals : AwaitsFirstUpdate(st, d) <=> ~Updated(st, d)
    BY DEF AwaitsFirstUpdate, Updated
  <2>4. st.PendingProposals = {st.Proposals[d] : d \in {x \in DOMAIN st.Proposals : AwaitsFirstUpdate(st, x)}}
    BY <2>1, <2>3 DEF WellFormed
  <2> QED BY <2>1, <2>2, <2>4, ZenonT(60) DEF WellFormed, DealsTracked
<1> QED BY <1>1, TypeInvAlways, DealsInvAlways, PTL

-----------------------------------------------------------------------------
(* Finite sets and sums.  MapThenSumSet is a CHOOSE of a recursive          *)
(* function, so that the function exists has to be proved.  The inductions  *)
(* go through a least counterexample, which needs no predicate as           *)
(* parameter.                                                               *)

LOCAL INSTANCE WellFoundedInduction

\* A set of natural numbers that is not empty has a least element.
LEMMA LeastNat ==
  ASSUME NEW T \in SUBSET Nat, T # {}
  PROVE  \E m \in T : \A k \in T : m <= k
<1> DEFINE R == OpToRel(<, Nat)
<1>1. IsWellFoundedOn(R, Nat)
  BY NatLessThanWellFounded, Zenon
<1>2. \A a, b \in Nat : <<a, b>> \in R <=> a < b
  BY DEF OpToRel
<1> HIDE DEF R
<1>3. PICK m \in T : \A k \in T : ~(<<k, m>> \in R)
  BY <1>1, WFMin, Zenon
<1>4. ASSUME NEW k \in T PROVE m <= k
  <2>1. k \in Nat /\ m \in Nat /\ ~(<<k, m>> \in R)
    BY <1>3
  <2>2. <<k, m>> \in R <=> k < m
    BY <1>2, <2>1
  <2> QED BY <2>1, <2>2
<1> QED BY <1>4

\* n places hold all the elements of s.
Covers(n, s) == \E c : \A x \in s : \E i \in 1 .. n : c[i] = x

\* A finite set is one that some number of places holds.
THEOREM FiniteCovers ==
  ASSUME NEW S
  PROVE  IsFiniteSet(S) <=> \E n \in Nat : Covers(n, S)
<1>1. ASSUME IsFiniteSet(S) PROVE \E n \in Nat : Covers(n, S)
  <2>1. PICK q \in Seq(S) : \A x \in S : \E i \in 1 .. Len(q) : q[i] = x
    BY <1>1 DEF IsFiniteSet
  <2>2. Len(q) \in Nat
    OBVIOUS
  <2> QED BY <2>1, <2>2, ZenonT(60) DEF Covers
<1>2. ASSUME NEW n \in Nat, Covers(n, S) PROVE IsFiniteSet(S)
  <2>1. PICK c : \A x \in S : \E i \in 1 .. n : c[i] = x
    BY <1>2 DEF Covers
  <2>2. CASE S = {}
    <3>1. <<>> \in Seq(S)
      OBVIOUS
    <3> QED BY <2>2, <3>1, Zenon DEF IsFiniteSet
  <2>3. CASE S # {}
    <3>1. PICK y \in S : TRUE
      BY <2>3
    <3> DEFINE q == [i \in 1 .. n |-> IF c[i] \in S THEN c[i] ELSE y]
    <3>2. q \in Seq(S) /\ Len(q) = n
      BY <3>1
    <3>3. \A x \in S : \E i \in 1 .. Len(q) : q[i] = x
      BY <2>1, <3>2
    <3> HIDE DEF q
    <3> QED BY <3>2, <3>3 DEF IsFiniteSet
  <2> QED BY <2>2, <2>3
<1> QED BY <1>1, <1>2

\* A subset fits in the same places, and without one of the elements in one place less.
LEMMA SmallerCover ==
  ASSUME NEW n \in Nat, NEW s, Covers(n, s), NEW u, u \subseteq s
  PROVE  Covers(n, u) /\ (u # s => n # 0 /\ Covers(n - 1, u))
<1>1. PICK c : \A x \in s : \E i \in 1 .. n : c[i] = x
  BY DEF Covers
<1>2. Covers(n, u)
  BY <1>1 DEF Covers
<1>3. ASSUME u # s PROVE n # 0 /\ Covers(n - 1, u)
  <2>1. PICK x \in s : x \notin u
    BY <1>3
  <2>2. PICK i \in 1 .. n : c[i] = x
    BY <1>1
  <2> DEFINE d == [j \in 1 .. n - 1 |-> IF j < i THEN c[j] ELSE c[j + 1]]
  <2>3. ASSUME NEW y \in u PROVE \E j \in 1 .. n - 1 : d[j] = y
    <3>1. PICK k \in 1 .. n : c[k] = y
      BY <1>1
    <3>2. k # i
      BY <2>1, <2>2, <3>1
    <3>3. CASE k < i
      <4>1. k \in 1 .. n - 1 /\ d[k] = y
        BY <3>1, <3>3
      <4> QED BY <4>1
    <3>4. CASE k > i
      <4>1. k - 1 \in 1 .. n - 1 /\ d[k - 1] = y
        BY <3>1, <3>4
      <4> QED BY <4>1
    <3> QED BY <3>2, <3>3, <3>4
  <2> HIDE DEF d
  <2> QED BY <2>2, <2>3 DEF Covers
<1> QED BY <1>2, <1>3

\* A subset of a finite set is finite.
THEOREM FiniteSubset ==
  ASSUME NEW S, IsFiniteSet(S), NEW T, T \subseteq S
  PROVE  IsFiniteSet(T)
BY FiniteCovers, SmallerCover

\* So is the union of two finite sets.
THEOREM FiniteUnion ==
  ASSUME NEW S, IsFiniteSet(S), NEW T, IsFiniteSet(T)
  PROVE  IsFiniteSet(S \cup T)
<1>1. PICK m \in Nat : Covers(m, S)
  BY FiniteCovers
<1>2. PICK n \in Nat : Covers(n, T)
  BY FiniteCovers
<1>3. PICK c : \A x \in S : \E i \in 1 .. m : c[i] = x
  BY <1>1 DEF Covers
<1>4. PICK d : \A x \in T : \E i \in 1 .. n : d[i] = x
  BY <1>2 DEF Covers
<1> DEFINE e == [i \in 1 .. m + n |-> IF i <= m THEN c[i] ELSE d[i - m]]
<1>5. ASSUME NEW x \in S PROVE \E i \in 1 .. m + n : e[i] = x
  <2>1. PICK i \in 1 .. m : c[i] = x
    BY <1>3
  <2>2. i \in 1 .. m + n /\ e[i] = x
    BY <2>1
  <2> QED BY <2>2
<1>6. ASSUME NEW x \in T PROVE \E i \in 1 .. m + n : e[i] = x
  <2>1. PICK i \in 1 .. n : d[i] = x
    BY <1>4
  <2>2. m + i \in 1 .. m + n /\ e[m + i] = x
    BY <2>1
  <2> QED BY <2>2
<1> HIDE DEF e
<1>7. Covers(m + n, S \cup T) /\ m + n \in Nat
  BY <1>5, <1>6 DEF Covers
<1> QED BY <1>7, FiniteCovers

\* A set of subsets of a finite set that is not empty has one with no other below it.
LEMMA MinimalSubset ==
  ASSUME NEW S, IsFiniteSet(S), NEW T \in SUBSET (SUBSET S), T # {}
  PROVE  \E m \in T : \A u \in T : u \subseteq m => u = m
<1> DEFINE N == {n \in Nat : \E u \in T : Covers(n, u)}
<1>1. N # {}
  BY FiniteCovers, SmallerCover
<1> HIDE DEF N
<1>2. N \in SUBSET Nat
  BY DEF N
<1>3. PICK n \in N : \A k \in N : n <= k
  BY <1>1, <1>2, LeastNat, Zenon
<1>4. PICK m \in T : Covers(n, m) /\ n \in Nat
  BY <1>3 DEF N
<1>5. ASSUME NEW u \in T, u \subseteq m, u # m PROVE FALSE
  <2>1. n # 0 /\ Covers(n - 1, u)
    BY <1>4, <1>5, SmallerCover
  <2>2. n - 1 \in N
    BY <1>4, <2>1 DEF N
  <2> QED BY <1>3, <1>4, <2>2
<1> QED BY <1>5

-----------------------------------------------------------------------------

\* The element that the fold takes from s first.
Pick(s) == CHOOSE x \in s : TRUE

\* One step of the fold, with g for the sums of the smaller sets.
Step(f, g, s) == IF s = {} THEN 0 ELSE f[Pick(s)] + g[s \ {Pick(s)}]

\* g maps each subset of S to its sum.
Sums(f, S, g) == g = [s \in SUBSET S |-> Step(f, g, s)]

\* The fold takes an element of the set.
LEMMA PickIn == \A s : s # {} => Pick(s) \in s
BY DEF Pick

\* SumOf is the value of such a function, which exists: one that is right for all subsets that
\* fit in n places can be extended to those that need one more.
LEMMA SumsChosen ==
  ASSUME NEW f, NEW S, IsFiniteSet(S)
  PROVE  \E g : Sums(f, S, g) /\ SumOf(f, S) = g[S]
<1> DEFINE Small(n) == {s \in SUBSET S : Covers(n, s)}
           Good(n) == \E g : g = [s \in Small(n) |-> Step(f, g, s)]
           Bad == {n \in Nat : ~Good(n)}
<1>1. SumOf(f, S) = (CHOOSE g : Sums(f, S, g))[S]
  BY DEF SumOf, MapThenSumSet, MapThenFoldSet, Sums, Step, Pick
<1>2. Good(0)
  <2>1. \A s \in Small(0) : s = {}
    BY DEF Covers
  <2> DEFINE g == [s \in Small(0) |-> 0]
  <2>2. g = [s \in Small(0) |-> Step(f, g, s)]
    BY <2>1 DEF Step
  <2> QED BY <2>2, Zenon
<1>3. ASSUME NEW n \in Nat, Good(n) PROVE Good(n + 1)
  <2>1. PICK g : g = [s \in Small(n) |-> Step(f, g, s)]
    BY <1>3, Zenon
  <2> DEFINE h == [s \in Small(n + 1) |-> Step(f, g, s)]
  <2>2. \A s \in Small(n) : s \in Small(n + 1)
    <3>1. ASSUME NEW s, Covers(n, s) PROVE Covers(n + 1, s)
      BY <3>1 DEF Covers
    <3> QED BY <3>1
  <2>3. \A s \in Small(n) : h[s] = g[s]
    BY <2>1, <2>2
  <2>4. \A s \in Small(n + 1) : s # {} => s \ {Pick(s)} \in Small(n)
    <3>1. ASSUME NEW s \in Small(n + 1), s # {} PROVE s \ {Pick(s)} \in Small(n)
      <4>1. n + 1 \in Nat /\ (n + 1) - 1 = n /\ s \ {Pick(s)} \subseteq s /\ s \ {Pick(s)} # s
        BY <3>1, PickIn
      <4> QED BY <4>1, SmallerCover
    <3> QED BY <3>1
  <2>5. \A s \in Small(n + 1) : Step(f, g, s) = Step(f, h, s)
    BY <2>3, <2>4, Zenon DEF Step
  <2>6. h = [s \in Small(n + 1) |-> Step(f, h, s)]
    BY <2>5
  <2> QED BY <2>6, Zenon
<1>4. PICK n \in Nat : Covers(n, S)
  BY FiniteCovers
<1>5. Small(n) = SUBSET S
  BY <1>4, SmallerCover
<1> HIDE DEF Good
<1>6. Bad = {}
  <2>1. SUFFICES ASSUME Bad # {} PROVE FALSE
    OBVIOUS
  <2>2. PICK m \in Bad : \A k \in Bad : m <= k
    BY <2>1, LeastNat, Zenon
  <2>3. m # 0 /\ m - 1 \in Nat /\ m - 1 \notin Bad /\ (m - 1) + 1 = m
    BY <1>2, <2>2
  <2> QED BY <1>3, <2>2, <2>3
<1>7. Good(n)
  BY <1>6
<1>8. \E g : Sums(f, S, g)
  BY <1>5, <1>7, Zenon DEF Good, Sums
<1> QED BY <1>1, <1>8, Zenon

\* Its values follow the fold.
LEMMA SumsValue ==
  ASSUME NEW f, NEW S, NEW g, Sums(f, S, g), NEW s \in SUBSET S
  PROVE  g[s] = Step(f, g, s)
BY DEF Sums

\* f and h have the same values on T.
SameOn(f, h, T) == \A x \in T : f[x] = h[x]

\* Two functions that agree on the elements have the same sums, on whichever sets they were built.
LEMMA SumsAgree ==
  ASSUME NEW f, NEW h, NEW S, NEW U, IsFiniteSet(S), NEW g, NEW k, Sums(f, S, g), Sums(h, U, k),
         NEW T, T \subseteq S, T \subseteq U, SameOn(f, h, T)
  PROVE  g[T] = k[T]
<1> DEFINE Bad == {s \in SUBSET T : g[s] # k[s]}
<1>1. SUFFICES ASSUME Bad # {} PROVE FALSE
  OBVIOUS
<1>2. IsFiniteSet(T) /\ Bad \in SUBSET (SUBSET T)
  BY FiniteSubset
<1>3. PICK m \in Bad : \A u \in Bad : u \subseteq m => u = m
  <2> HIDE DEF Bad
  <2> QED BY <1>1, <1>2, MinimalSubset
<1>4. g[m] = Step(f, g, m) /\ k[m] = Step(h, k, m)
  BY <1>3, SumsValue
<1>5. CASE m = {}
  BY <1>3, <1>4, <1>5 DEF Step
<1>6. CASE m # {}
  <2>1. Pick(m) \in m /\ Pick(m) \in T /\ m \ {Pick(m)} \in SUBSET T /\ m \ {Pick(m)} # m
    BY <1>3, <1>6, PickIn
  <2>2. g[m \ {Pick(m)}] = k[m \ {Pick(m)}]
    BY <1>3, <2>1
  <2> QED BY <1>3, <1>4, <1>6, <2>1, <2>2 DEF Step, SameOn
<1> QED BY <1>5, <1>6

\* Sums are integers, and do not depend on which element is taken first.
LEMMA SumsOrder ==
  ASSUME NEW f, NEW S, IsFiniteSet(S), \A x \in S : f[x] \in Int, NEW g, Sums(f, S, g)
  PROVE  \A s \in SUBSET S : g[s] \in Int /\ \A x \in s : g[s] = f[x] + g[s \ {x}]
<1> DEFINE Right(s) == g[s] \in Int /\ \A x \in s : g[s] = f[x] + g[s \ {x}]
           Bad == {s \in SUBSET S : ~Right(s)}
<1>1. SUFFICES ASSUME Bad # {} PROVE FALSE
  OBVIOUS
<1>2. PICK m \in Bad : \A u \in Bad : u \subseteq m => u = m
  <2>1. Bad \in SUBSET (SUBSET S)
    OBVIOUS
  <2> HIDE DEF Bad
  <2> QED BY <1>1, <2>1, MinimalSubset
<1>3. g[m] = Step(f, g, m)
  BY <1>2, SumsValue
<1>4. m # {}
  BY <1>2, <1>3 DEF Step
<1> DEFINE c == Pick(m)
<1>5. c \in m /\ c \in S
  BY <1>2, <1>4, PickIn
<1>6. \A u \in SUBSET m : u # m => Right(u)
  BY <1>2
<1>7. g[m] = f[c] + g[m \ {c}]
  BY <1>3, <1>4 DEF Step
<1> HIDE DEF c
<1>8. Right(m \ {c})
  BY <1>5, <1>6
<1>9. g[m] \in Int
  BY <1>5, <1>7, <1>8
<1>10. ASSUME NEW x \in m PROVE g[m] = f[x] + g[m \ {x}]
  <2>1. CASE x = c
    BY <1>7, <2>1
  <2>2. CASE x # c
    <3> DEFINE r == m \ {c, x}
    <3>1. (m \ {c}) \ {x} = r /\ (m \ {x}) \ {c} = r
      OBVIOUS
    <3>2. g[m \ {c}] = f[x] + g[r]
      BY <1>8, <2>2, <3>1, Zenon
    <3>3. Right(m \ {x})
      BY <1>6
    <3>4. g[m \ {x}] = f[c] + g[r]
      BY <1>5, <2>2, <3>1, <3>3, Zenon
    <3>5. Right(r)
      BY <1>5, <1>6
    <3>6. f[x] \in Int /\ f[c] \in Int /\ g[r] \in Int
      BY <1>2, <1>5, <3>5
    <3> QED BY <1>7, <3>2, <3>4, <3>6
  <2> QED BY <2>1, <2>2
<1> QED BY <1>2, <1>9, <1>10

-----------------------------------------------------------------------------
(* The laws of sums.                                                        *)

\* The sum over the empty set is 0.
THEOREM SumEmpty == \A f : SumOf(f, {}) = 0
<1> SUFFICES ASSUME NEW f PROVE SumOf(f, {}) = 0
  OBVIOUS
<1>1. PICK g : Sums(f, {}, g) /\ SumOf(f, {}) = g[{}]
  <2>1. Covers(0, {})
    BY DEF Covers
  <2> QED BY <2>1, FiniteCovers, SumsChosen
<1> QED BY <1>1, SumsValue DEF Step

\* Functions with the same values on a set have the same sum over it.
THEOREM SumSame ==
  ASSUME NEW f, NEW h, NEW S, IsFiniteSet(S), \A x \in S : f[x] = h[x]
  PROVE  SumOf(f, S) = SumOf(h, S)
<1>1. PICK g : Sums(f, S, g) /\ SumOf(f, S) = g[S]
  BY SumsChosen
<1>2. PICK k : Sums(h, S, k) /\ SumOf(h, S) = k[S]
  BY SumsChosen
<1>3. g[S] = k[S]
  <2>1. S \subseteq S
    OBVIOUS
  <2>2. Sums(f, S, g) /\ Sums(h, S, k) /\ SameOn(f, h, S)
    BY <1>1, <1>2 DEF SameOn
  <2> QED BY <2>1, <2>2, SumsAgree
<1> QED BY <1>1, <1>2, <1>3

\* A sum is any one of its terms and the sum of the others.
THEOREM SumRemove ==
  ASSUME NEW f, NEW S, IsFiniteSet(S), \A x \in S : f[x] \in Int, NEW x \in S
  PROVE  SumOf(f, S) = f[x] + SumOf(f, S \ {x})
<1>1. PICK g : Sums(f, S, g) /\ SumOf(f, S) = g[S]
  BY SumsChosen
<1>2. IsFiniteSet(S \ {x})
  BY FiniteSubset
<1>3. PICK k : Sums(f, S \ {x}, k) /\ SumOf(f, S \ {x}) = k[S \ {x}]
  BY <1>2, SumsChosen
<1>4. g[S \ {x}] = k[S \ {x}]
  <2>1. S \ {x} \subseteq S /\ SameOn(f, f, S \ {x})
    BY DEF SameOn
  <2> QED BY <1>1, <1>3, <2>1, SumsAgree
<1>5. g[S] = f[x] + g[S \ {x}]
  BY <1>1, SumsOrder
<1> QED BY <1>1, <1>3, <1>4, <1>5

\* A sum of integers is an integer.
THEOREM SumInt ==
  ASSUME NEW f, NEW S, IsFiniteSet(S), \A x \in S : f[x] \in Int
  PROVE  SumOf(f, S) \in Int
BY SumsChosen, SumsOrder

\* A new element adds its value.
THEOREM SumAdd ==
  ASSUME NEW f, NEW S, IsFiniteSet(S), NEW x, x \notin S, \A y \in S \cup {x} : f[y] \in Int
  PROVE  SumOf(f, S \cup {x}) = f[x] + SumOf(f, S)
<1>1. Covers(1, {x})
  <2> DEFINE c == [i \in 1 .. 1 |-> x]
  <2>1. 1 \in 1 .. 1 /\ c[1] = x
    OBVIOUS
  <2> HIDE DEF c
  <2>2. \A y \in {x} : \E i \in 1 .. 1 : c[i] = y
    BY <2>1
  <2> QED BY <2>2, Zenon DEF Covers
<1>2. IsFiniteSet(S \cup {x}) /\ (S \cup {x}) \ {x} = S
  BY <1>1, FiniteCovers, FiniteUnion
<1> QED BY <1>2, SumRemove

\* When one value changes the sum changes by as much.
THEOREM SumChange ==
  ASSUME NEW f, NEW h, NEW S, IsFiniteSet(S), \A y \in S : f[y] \in Int /\ h[y] \in Int,
         NEW x \in S, \A y \in S \ {x} : h[y] = f[y]
  PROVE  SumOf(h, S) = SumOf(f, S) - f[x] + h[x]
<1>1. SumOf(f, S \ {x}) = SumOf(h, S \ {x}) /\ IsFiniteSet(S \ {x})
  BY FiniteSubset, SumSame
<1>2. SumOf(f, S) = f[x] + SumOf(f, S \ {x}) /\ SumOf(h, S) = h[x] + SumOf(h, S \ {x})
  BY SumRemove
<1>3. SumOf(f, S \ {x}) \in Int
  BY <1>1, SumInt
<1> QED BY <1>1, <1>2, <1>3

\* The same when two values change, as in a transfer from x to y.
THEOREM SumChangeTwo ==
  ASSUME NEW f, NEW h, NEW S, IsFiniteSet(S), \A z \in S : f[z] \in Int /\ h[z] \in Int,
         NEW x \in S, NEW y \in S, x # y, \A z \in S \ {x, y} : h[z] = f[z]
  PROVE  SumOf(h, S) = SumOf(f, S) + (h[x] - f[x]) + (h[y] - f[y])
<1> DEFINE k == [z \in S |-> IF z = x THEN h[x] ELSE f[z]]
<1>1. /\ \A z \in S : k[z] \in Int
      /\ \A z \in S \ {x} : k[z] = f[z]
      /\ \A z \in S \ {y} : h[z] = k[z]
      /\ k[x] = h[x] /\ k[y] = f[y]
  OBVIOUS
<1> HIDE DEF k
<1>2. SumOf(k, S) = SumOf(f, S) - f[x] + k[x]
  <2>1. (\A z \in S : f[z] \in Int /\ k[z] \in Int) /\ (\A z \in S \ {x} : k[z] = f[z])
    BY <1>1, ZenonT(60)
  <2> QED BY <2>1, SumChange
<1>3. SumOf(h, S) = SumOf(k, S) - k[y] + h[y]
  <2>1. (\A z \in S : k[z] \in Int /\ h[z] \in Int) /\ (\A z \in S \ {y} : h[z] = k[z])
    BY <1>1, ZenonT(60)
  <2> QED BY <2>1, SumChange
<1>4. SumOf(f, S) \in Int
  BY SumInt
<1> QED BY <1>1, <1>2, <1>3, <1>4

\* A sum of natural numbers is one, and at least as large as each of them.
THEOREM SumNat ==
  ASSUME NEW f, NEW S, IsFiniteSet(S), \A x \in S : f[x] \in Nat
  PROVE  SumOf(f, S) \in Nat /\ \A x \in S : f[x] <= SumOf(f, S)
<1> DEFINE Bad == {s \in SUBSET S : SumOf(f, s) \notin Nat}
<1>1. \A s \in SUBSET S : IsFiniteSet(s)
  BY FiniteSubset
<1>2. Bad = {}
  <2>1. SUFFICES ASSUME Bad # {} PROVE FALSE
    OBVIOUS
  <2>2. PICK m \in Bad : \A u \in Bad : u \subseteq m => u = m
    <3>1. Bad \in SUBSET (SUBSET S)
      OBVIOUS
    <3> HIDE DEF Bad
    <3> QED BY <2>1, <3>1, MinimalSubset
  <2>3. m # {}
    <3>1. SumOf(f, {}) = 0
      BY SumEmpty
    <3>2. SumOf(f, m) \notin Nat
      BY <2>2
    <3>3. SUFFICES ASSUME m = {} PROVE FALSE
      OBVIOUS
    <3>4. SumOf(f, m) = 0
      BY <3>1, <3>3
    <3> QED BY <3>2, <3>4
  <2>4. PICK x \in m : TRUE
    BY <2>3
  <2>5. SumOf(f, m) = f[x] + SumOf(f, m \ {x})
    BY <1>1, SumRemove
  <2>6. SumOf(f, m \ {x}) \in Nat
    BY <2>2
  <2> QED BY <2>2, <2>5, <2>6
<1>3. ASSUME NEW x \in S PROVE f[x] <= SumOf(f, S)
  <2>1. SumOf(f, S) = f[x] + SumOf(f, S \ {x})
    BY SumRemove
  <2>2. SumOf(f, S \ {x}) \in Nat
    BY <1>2
  <2> QED BY <2>1, <2>2
<1> QED BY <1>2, <1>3

\* Values that are all zero add up to zero.
THEOREM SumZero ==
  ASSUME NEW f, NEW S, IsFiniteSet(S), \A x \in S : f[x] = 0
  PROVE  SumOf(f, S) = 0
<1> DEFINE Bad == {T \in SUBSET S : SumOf(f, T) # 0}
<1> SUFFICES ASSUME Bad # {} PROVE FALSE
  BY Zenon
<1>1. Bad \in SUBSET (SUBSET S)
  OBVIOUS
<1> HIDE DEF Bad
<1>2. PICK T \in Bad : \A u \in Bad : u \subseteq T => u = T
  BY <1>1, MinimalSubset
<1>3. T \in SUBSET S /\ SumOf(f, T) # 0
  BY <1>2 DEF Bad
<1>4. T # {}
  BY <1>3, SumEmpty
<1>5. PICK x \in T : TRUE
  BY <1>4
<1>6. SumOf(f, T \ {x}) = 0
  BY <1>2, <1>3, <1>5 DEF Bad
<1>7. IsFiniteSet(T) /\ \A y \in T : f[y] \in Int /\ f[y] = 0
  BY <1>3, FiniteSubset
<1>8. SumOf(f, T) = f[x] + SumOf(f, T \ {x})
  BY <1>5, <1>7, SumRemove
<1> QED BY <1>3, <1>5, <1>6, <1>7, <1>8

\* A function with one more argument adds its value there.
THEOREM SumInsert ==
  ASSUME NEW f, NEW h, NEW S, IsFiniteSet(S), NEW x, x \notin S,
         \A y \in S : f[y] \in Int /\ h[y] = f[y], h[x] \in Int
  PROVE  SumOf(h, S \cup {x}) = SumOf(f, S) + h[x]
<1>1. \A y \in S \cup {x} : h[y] \in Int
  OBVIOUS
<1>2. SumOf(h, S \cup {x}) = h[x] + SumOf(h, S)
  BY <1>1, SumAdd
<1>3. SumOf(h, S) = SumOf(f, S)
  BY SumSame
<1>4. SumOf(f, S) \in Int
  BY SumInt
<1> QED BY <1>2, <1>3, <1>4

\* A function with one argument less loses its value there.
THEOREM SumDrop ==
  ASSUME NEW f, NEW h, NEW S, IsFiniteSet(S), NEW x \in S, \A y \in S : f[y] \in Int,
         NEW U, U = S \ {x}, \A y \in U : h[y] = f[y]
  PROVE  SumOf(h, U) = SumOf(f, S) - f[x]
<1>1. SumOf(f, S) = f[x] + SumOf(f, S \ {x})
  BY SumRemove
<1>2. IsFiniteSet(U)
  BY FiniteSubset
<1>3. SumOf(h, U) = SumOf(f, U)
  BY <1>2, SumSame
<1>4. SumOf(f, U) \in Int /\ f[x] \in Int
  BY <1>2, SumInt
<1> QED BY <1>1, <1>3, <1>4

\* The accounts and the deals are finitely many, so their amounts have sums.
LEMMA FiniteSets ==
    /\ IsFiniteSet(Addrs)
    /\ IsFiniteSet(DealIDs)
    /\ \A s \in MarketState : IsFiniteSet(DOMAIN s.Proposals)
<1>1. IsFiniteSet(Addrs)
  BY AddrsAssumption, FiniteUnion, Zenon DEF Addrs
<1>2. IsFiniteSet(DealIDs)
  <2> DEFINE c == [i \in 1 .. MaxDeals |-> i - 1]
  <2>1. \A d \in DealIDs : \E i \in 1 .. MaxDeals : c[i] = d
    <3>1. ASSUME NEW d \in DealIDs PROVE d + 1 \in 1 .. MaxDeals /\ c[d + 1] = d
      BY BoundsAssumption DEF DealIDs
    <3> QED BY <3>1, Zenon
  <2> HIDE DEF c
  <2>2. Covers(MaxDeals, DealIDs) /\ MaxDeals \in Nat
    BY <2>1, BoundsAssumption DEF Covers
  <2> QED BY <2>2, FiniteCovers
<1>3. ASSUME NEW s \in MarketState PROVE IsFiniteSet(DOMAIN s.Proposals)
  BY <1>2, StateTypes, FiniteSubset
<1> QED BY <1>1, <1>2, <1>3

\* The first element of a sequence without repetitions is not among the others.
LEMMA HeadAndTail ==
    ASSUME NEW S, NEW q \in Seq(S), q # <<>>, \A i, j \in 1 .. Len(q) : q[i] = q[j] => i = j
    PROVE  /\ {q[i] : i \in 1 .. Len(q)} = {Tail(q)[i] : i \in 1 .. Len(Tail(q))} \cup {Head(q)}
           /\ Head(q) \notin {Tail(q)[i] : i \in 1 .. Len(Tail(q))}
<1>1. /\ Len(q) \in Nat /\ Len(q) >= 1 /\ Len(Tail(q)) = Len(q) - 1 /\ Head(q) = q[1]
      /\ \A i \in 1 .. Len(q) - 1 : Tail(q)[i] = q[i + 1]
  OBVIOUS
<1>2. ASSUME NEW i \in 1 .. Len(q) PROVE q[i] \in {Tail(q)[k] : k \in 1 .. Len(Tail(q))} \cup {Head(q)}
  <2>1. CASE i = 1
    BY <1>1, <2>1
  <2>2. CASE i # 1
    <3>1. i - 1 \in 1 .. Len(q) - 1 /\ q[i] = Tail(q)[i - 1]
      BY <1>1, <2>2
    <3> QED BY <1>1, <3>1
  <2> QED BY <2>1, <2>2
<1>3. \A i \in 1 .. Len(q) - 1 : i + 1 \in 1 .. Len(q) /\ i + 1 # 1 /\ 1 \in 1 .. Len(q)
  BY <1>1
<1> QED BY <1>1, <1>2, <1>3

\* What is appended to a sequence is all that it adds.
LEMMA AppendAdds ==
    ASSUME NEW S, NEW q \in Seq(S), NEW x \in S
    PROVE  {Append(q, x)[i] : i \in 1 .. Len(Append(q, x))} = {q[i] : i \in 1 .. Len(q)} \cup {x}
<1>1. /\ Len(q) \in Nat /\ Len(Append(q, x)) = Len(q) + 1 /\ Append(q, x)[Len(q) + 1] = x
      /\ \A i \in 1 .. Len(q) : Append(q, x)[i] = q[i]
  OBVIOUS
<1>2. \A i : i \in 1 .. Len(q) + 1 <=> i \in 1 .. Len(q) \/ i = Len(q) + 1
  BY <1>1
<1> QED BY <1>1, <1>2

=============================================================================
