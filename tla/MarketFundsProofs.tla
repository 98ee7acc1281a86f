------------------------- MODULE MarketFundsProofs -------------------------
(***************************************************************************)
(* What one operation of the market does to the balances of its deal, what *)
(* the market holds for all accounts together, and the room that the       *)
(* filter of a publication leaves for the deals it passes.                 *)
(***************************************************************************)
EXTENDS MarketProofs

\* Both provers, with room for a slow machine.
USE SMTT(40), ZenonT(40)

-----------------------------------------------------------------------------
(* The funds of the actor.                                                  *)

\* Solvent, strengthened: what a tick has slashed so far has left the table and not yet the actor.
FundsInv ==
    /\ balance = SumOf(st.EscrowTable, Addrs)
    /\ phase = "store" => balance = SumOf(msm.EscrowTable, Addrs)
    /\ phase = "cron" => balance = SumOf(msm.EscrowTable, Addrs) + call.amountSlashed

\* A step of the tick that takes out of escrow what it adds to the amount slashed.
LEMMA SlashFunds ==
    ASSUME FundsInv, phase = "cron", phase' = "cron", st' = st, balance' = balance,
           NEW slashed \in Int, SumOf(msm.EscrowTable, Addrs) \in Int, call.amountSlashed \in Nat,
           SumOf(msm'.EscrowTable, Addrs) = SumOf(msm.EscrowTable, Addrs) - slashed,
           call'.amountSlashed = call.amountSlashed + slashed
    PROVE  FundsInv'
BY DEF FundsInv

-----------------------------------------------------------------------------
(* What one operation of a tick does to the balances.                       *)

\* x where b holds.
If(b, x) == IF b THEN x ELSE 0

\* n is m with amount unlocked for a.
Unlocked(m, n, a, amount, r) ==
    /\ n \in WorkingState
    /\ \A x \in Addrs : n.LockedTable[x] = m.LockedTable[x] - If(x = a, amount)
    /\ \A q \in BalanceLockingReason : n.Totals[q] = m.Totals[q] - If(q = r, amount)

\* The values unlockBalance leaves.
LEMMA UnlockValues ==
    ASSUME NEW m \in WorkingState, NEW a \in Addrs, NEW amount \in Nat, NEW r \in BalanceLockingReason
    PROVE  LET n == unlockBalance(m, a, amount, r)
           IN Unlocked(m, n, a, amount, r) /\ n.EscrowTable = m.EscrowTable
<1> DEFINE n == unlockBalance(m, a, amount, r)
<1>1. n \in WorkingState
  BY UnlockStep DEF BalanceStep
<1>2. /\ n.EscrowTable = m.EscrowTable
      /\ n.LockedTable = [m.LockedTable EXCEPT ![a] = @ - amount]
      /\ n.Totals = [m.Totals EXCEPT ![r] = @ - amount]
  BY DEF unlockBalance, WorkingState
<1>3. m.LockedTable \in [Addrs -> Int] /\ m.Totals \in [BalanceLockingReason -> Int]
  BY DEF WorkingState
<1> HIDE DEF n
<1> QED BY <1>1, <1>2, <1>3 DEF Unlocked, If, n

\* The values slashBalance leaves.
LEMMA SlashValues ==
    ASSUME NEW m \in WorkingState, NEW a \in Addrs, NEW amount \in Nat, NEW r \in BalanceLockingReason
    PROVE  LET n == slashBalance(m, a, amount, r)
           IN /\ Unlocked(m, n, a, amount, r)
              /\ \A x \in Addrs : n.EscrowTable[x] = m.EscrowTable[x] - If(x = a, amount)
<1> DEFINE n == slashBalance(m, a, amount, r)
<1>1. n \in WorkingState
  BY SlashStep DEF BalanceStep
<1>2. /\ n.EscrowTable = [m.EscrowTable EXCEPT ![a] = @ - amount]
      /\ n.LockedTable = [m.LockedTable EXCEPT ![a] = @ - amount]
      /\ n.Totals = [m.Totals EXCEPT ![r] = @ - amount]
  BY DEF slashBalance, unlockBalance, WorkingState
<1>3. /\ m.LockedTable \in [Addrs -> Int] /\ m.Totals \in [BalanceLockingReason -> Int]
      /\ m.EscrowTable \in [Addrs -> Int]
  BY DEF WorkingState
<1> HIDE DEF n
<1> QED BY <1>1, <1>2, <1>3 DEF Unlocked, If, n

\* The values transferBalance leaves.
LEMMA TransferValues ==
    ASSUME NEW m \in WorkingState, NEW a \in Addrs, NEW b \in Addrs, a # b, NEW amount \in Nat
    PROVE  LET n == transferBalance(m, a, b, amount)
           IN /\ Unlocked(m, n, a, amount, "ClientStorageFee")
              /\ \A x \in Addrs : n.EscrowTable[x] = m.EscrowTable[x] - If(x = a, amount) + If(x = b, amount)
<1> DEFINE n == transferBalance(m, a, b, amount)
<1>1. n \in WorkingState
  BY TransferStep DEF BalanceStep
<1>2. /\ n.EscrowTable = [[m.EscrowTable EXCEPT ![a] = @ - amount] EXCEPT ![b] = @ + amount]
      /\ n.LockedTable = [m.LockedTable EXCEPT ![a] = @ - amount]
      /\ n.Totals = [m.Totals EXCEPT !["ClientStorageFee"] = @ - amount]
  BY DEF transferBalance, unlockBalance, WorkingState
<1>3. /\ m.LockedTable \in [Addrs -> Int] /\ m.Totals \in [BalanceLockingReason -> Int]
      /\ m.EscrowTable \in [Addrs -> Int] /\ "ClientStorageFee" \in BalanceLockingReason
  BY DEF WorkingState, BalanceLockingReason
<1> HIDE DEF n
<1> QED BY <1>1, <1>2, <1>3 DEF Unlocked, If, n

\* n is m without fee, and the collaterals if over, of what it had locked for deal.
Released(m, n, deal, fee, over) ==
    /\ \A a \in Addrs : n.LockedTable[a] = m.LockedTable[a]
           - If(a = deal.Client, fee + If(over, deal.ClientCollateral))
           - If(a = deal.Provider, If(over, deal.ProviderCollateral))
    /\ n.Totals["ClientStorageFee"] = m.Totals["ClientStorageFee"] - fee
    /\ n.Totals["ClientCollateral"] = m.Totals["ClientCollateral"] - If(over, deal.ClientCollateral)
    /\ n.Totals["ProviderCollateral"] = m.Totals["ProviderCollateral"] - If(over, deal.ProviderCollateral)

\* n is m after a payment and a slash.
PaidAndSlashed(m, n, deal, payment, slashed) ==
    \A a \in Addrs : n.EscrowTable[a] = m.EscrowTable[a]
        - If(a = deal.Client, payment) + If(a = deal.Provider, payment - slashed)

\* A deal that was never activated gives back the fee and the client's collateral and burns the
\* provider's.
LEMMA TimeOutValues ==
    ASSUME NEW m \in WorkingState, NEW deal \in Offers
    PROVE  LET n == processDealInitTimedOut(m, deal)
           IN /\ Released(m, n, deal, TotalStorageFee(deal), TRUE)
              /\ PaidAndSlashed(m, n, deal, 0, deal.ProviderCollateral)
<1> DEFINE u1 == unlockBalance(m, deal.Client, TotalStorageFee(deal), "ClientStorageFee")
           u2 == unlockBalance(u1, deal.Client, deal.ClientCollateral, "ClientCollateral")
           u3 == slashBalance(u2, deal.Provider, deal.ProviderCollateral, "ProviderCollateral")
           u4 == unlockBalance(u3, deal.Provider, 0, "ProviderCollateral")
<1>1. /\ deal.Client \in Addrs /\ deal.Provider \in Addrs /\ TotalStorageFee(deal) \in Nat
      /\ deal.ClientCollateral \in Nat /\ deal.ProviderCollateral \in Nat
      /\ deal.ProviderCollateral - deal.ProviderCollateral = 0 /\ deal.Client # deal.Provider
  BY OfferAmounts
<1>2. {"ClientStorageFee", "ClientCollateral", "ProviderCollateral"} \subseteq BalanceLockingReason
  BY DEF BalanceLockingReason
<1>3. processDealInitTimedOut(m, deal) = u4
  BY <1>1 DEF processDealInitTimedOut, CollateralPenaltyForDealActivationMissed,
              ProviderBalanceRequirement
<1>4. Unlocked(m, u1, deal.Client, TotalStorageFee(deal), "ClientStorageFee") /\ u1.EscrowTable = m.EscrowTable
  BY <1>1, <1>2, UnlockValues
<1>4w. u1 \in WorkingState
  BY <1>4 DEF Unlocked
<1> HIDE DEF u1
<1>5. Unlocked(u1, u2, deal.Client, deal.ClientCollateral, "ClientCollateral") /\ u2.EscrowTable = u1.EscrowTable
  BY <1>1, <1>2, <1>4w, UnlockValues
<1>5w. u2 \in WorkingState
  BY <1>5 DEF Unlocked
<1> HIDE DEF u2
<1>6. /\ Unlocked(u2, u3, deal.Provider, deal.ProviderCollateral, "ProviderCollateral")
      /\ \A x \in Addrs : u3.EscrowTable[x] = u2.EscrowTable[x] - If(x = deal.Provider, deal.ProviderCollateral)
  BY <1>1, <1>2, <1>5w, SlashValues
<1>6w. u3 \in WorkingState
  BY <1>6 DEF Unlocked
<1> HIDE DEF u3
<1>7. Unlocked(u3, u4, deal.Provider, 0, "ProviderCollateral") /\ u4.EscrowTable = u3.EscrowTable
  BY <1>1, <1>2, <1>6w, UnlockValues
<1> HIDE DEF u4
<1>8. /\ m.LockedTable \in [Addrs -> Int] /\ m.Totals \in [BalanceLockingReason -> Int]
      /\ m.EscrowTable \in [Addrs -> Int]
  BY DEF WorkingState
<1>9. PaidAndSlashed(m, u4, deal, 0, deal.ProviderCollateral)
  BY <1>1, <1>4, <1>5, <1>6, <1>7, <1>8 DEF PaidAndSlashed, If
<1>10. Released(m, u4, deal, TotalStorageFee(deal), TRUE)
  <2>1. \A a \in Addrs : u4.LockedTable[a] = m.LockedTable[a]
           - If(a = deal.Client, TotalStorageFee(deal) + deal.ClientCollateral)
           - If(a = deal.Provider, deal.ProviderCollateral)
    BY <1>1, <1>4, <1>5, <1>6, <1>7, <1>8 DEF Unlocked, If
  <2>2. \A q \in BalanceLockingReason : u4.Totals[q] = m.Totals[q]
           - If(q = "ClientStorageFee", TotalStorageFee(deal)) - If(q = "ClientCollateral", deal.ClientCollateral)
           - If(q = "ProviderCollateral", deal.ProviderCollateral)
    BY <1>1, <1>4, <1>5, <1>6, <1>7, <1>8 DEF Unlocked, If
  <2> QED BY <1>1, <1>2, <1>8, <2>1, <2>2 DEF Released, If
<1> QED BY <1>3, <1>9, <1>10, Zenon

\* A terminated deal gives back the fee of the time it did not run.
LEMMA SlashedValues ==
    ASSUME NEW m \in WorkingState, NEW deal \in Offers, NEW state,
           dealGetPaymentRemaining(deal, state.SlashEpoch) \in Nat
    PROVE  LET n == processDealSlashed(m, state, deal)
           IN /\ Released(m, n, deal, dealGetPaymentRemaining(deal, state.SlashEpoch), TRUE)
              /\ PaidAndSlashed(m, n, deal, 0, deal.ProviderCollateral)
<1> DEFINE fee == dealGetPaymentRemaining(deal, state.SlashEpoch)
           u1 == unlockBalance(m, deal.Client, fee, "ClientStorageFee")
           u2 == unlockBalance(u1, deal.Client, deal.ClientCollateral, "ClientCollateral")
           u3 == slashBalance(u2, deal.Provider, deal.ProviderCollateral, "ProviderCollateral")
<1>1. /\ deal.Client \in Addrs /\ deal.Provider \in Addrs /\ fee \in Nat
      /\ deal.ClientCollateral \in Nat /\ deal.ProviderCollateral \in Nat
      /\ deal.Client # deal.Provider
  BY OfferAmounts
<1>2. {"ClientStorageFee", "ClientCollateral", "ProviderCollateral"} \subseteq BalanceLockingReason
  BY DEF BalanceLockingReason
<1>3. processDealSlashed(m, state, deal) = u3
  BY DEF processDealSlashed
<1> HIDE DEF fee
<1>4. Unlocked(m, u1, deal.Client, fee, "ClientStorageFee") /\ u1.EscrowTable = m.EscrowTable
  BY <1>1, <1>2, UnlockValues
<1>4w. u1 \in WorkingState
  BY <1>4 DEF Unlocked
<1> HIDE DEF u1
<1>5. Unlocked(u1, u2, deal.Client, deal.ClientCollateral, "ClientCollateral") /\ u2.EscrowTable = u1.EscrowTable
  BY <1>1, <1>2, <1>4w, UnlockValues
<1>5w. u2 \in WorkingState
  BY <1>5 DEF Unlocked
<1> HIDE DEF u2
<1>6. /\ Unlocked(u2, u3, deal.Provider, deal.ProviderCollateral, "ProviderCollateral")
      /\ \A x \in Addrs : u3.EscrowTable[x] = u2.EscrowTable[x] - If(x = deal.Provider, deal.ProviderCollateral)
  BY <1>1, <1>2, <1>5w, SlashValues
<1> HIDE DEF u3
<1>8. /\ m.LockedTable \in [Addrs -> Int] /\ m.Totals \in [BalanceLockingReason -> Int]
      /\ m.EscrowTable \in [Addrs -> Int]
  BY DEF WorkingState
<1>9. PaidAndSlashed(m, u3, deal, 0, deal.ProviderCollateral)
  BY <1>1, <1>4, <1>5, <1>6, <1>8 DEF PaidAndSlashed, If
<1>10. Released(m, u3, deal, fee, TRUE)
  <2>1. \A a \in Addrs : u3.LockedTable[a] = m.LockedTable[a]
           - If(a = deal.Client, fee + deal.ClientCollateral)
           - If(a = deal.Provider, deal.ProviderCollateral)
    BY <1>1, <1>4, <1>5, <1>6, <1>8 DEF Unlocked, If
  <2>2. \A q \in BalanceLockingReason : u3.Totals[q] = m.Totals[q]
           - If(q = "ClientStorageFee", fee) - If(q = "ClientCollateral", deal.ClientCollateral)
           - If(q = "ProviderCollateral", deal.ProviderCollateral)
    BY <1>1, <1>4, <1>5, <1>6, <1>8 DEF Unlocked, If
  <2> QED BY <1>1, <1>2, <1>8, <2>1, <2>2 DEF Released, If
<1> QED BY <1>3, <1>9, <1>10, Zenon DEF fee

\* A deal that has run to its end gives back both collaterals.
LEMMA ExpiredValues ==
    ASSUME NEW m \in WorkingState, NEW deal \in Offers
    PROVE  LET n == processDealExpired(m, deal)
           IN Released(m, n, deal, 0, TRUE) /\ PaidAndSlashed(m, n, deal, 0, 0)
<1> DEFINE u1 == unlockBalance(m, deal.Provider, deal.ProviderCollateral, "ProviderCollateral")
           u2 == unlockBalance(u1, deal.Client, deal.ClientCollateral, "ClientCollateral")
<1>1. /\ deal.Client \in Addrs /\ deal.Provider \in Addrs
      /\ deal.ClientCollateral \in Nat /\ deal.ProviderCollateral \in Nat
      /\ deal.Client # deal.Provider
  BY OfferAmounts
<1>2. {"ClientStorageFee", "ClientCollateral", "ProviderCollateral"} \subseteq BalanceLockingReason
  BY DEF BalanceLockingReason
<1>3. processDealExpired(m, deal) = u2
  BY DEF processDealExpired
<1>4. Unlocked(m, u1, deal.Provider, deal.ProviderCollateral, "ProviderCollateral") /\ u1.EscrowTable = m.EscrowTable
  BY <1>1, <1>2, UnlockValues
<1>4w. u1 \in WorkingState
  BY <1>4 DEF Unlocked
<1> HIDE DEF u1
<1>5. Unlocked(u1, u2, deal.Client, deal.ClientCollateral, "ClientCollateral") /\ u2.EscrowTable = u1.EscrowTable
  BY <1>1, <1>2, <1>4w, UnlockValues
<1> HIDE DEF u2
<1>8. /\ m.LockedTable \in [Addrs -> Int] /\ m.Totals \in [BalanceLockingReason -> Int]
      /\ m.EscrowTable \in [Addrs -> Int]
  BY DEF WorkingState
<1>9. PaidAndSlashed(m, u2, deal, 0, 0)
  BY <1>1, <1>4, <1>5, <1>8 DEF PaidAndSlashed, If
<1>10. Released(m, u2, deal, 0, TRUE)
  <2>1. \A a \in Addrs : u2.LockedTable[a] = m.LockedTable[a]
           - If(a = deal.Client, deal.ClientCollateral)
           - If(a = deal.Provider, deal.ProviderCollateral)
    BY <1>1, <1>4, <1>5, <1>8 DEF Unlocked, If
  <2>2. \A q \in BalanceLockingReason : u2.Totals[q] = m.Totals[q]
           - If(q = "ClientCollateral", deal.ClientCollateral)
           - If(q = "ProviderCollateral", deal.ProviderCollateral)
    BY <1>1, <1>4, <1>5, <1>8 DEF Unlocked, If
  <2> QED BY <1>1, <1>2, <1>8, <2>1, <2>2 DEF Released, If
<1> QED BY <1>3, <1>9, <1>10, Zenon

\* The fee that an update takes off the lock: what it pays and, after a slash, the rest.
FeeReleased(state, deal) ==
    totalPayment(state, deal)
    + If(everSlashed(state), dealGetPaymentRemaining(deal, state.SlashEpoch))

\* What an update pays, releases and slashes.
LEMMA UpdateValues ==
    ASSUME NEW m \in WorkingState, NEW deal \in Offers, NEW state \in DealState,
           epoch \in Epochs, state.SlashEpoch <= deal.EndEpoch
    PROVE  LET n == updatePendingDealState(m, state, deal)
           IN /\ Released(m, n, deal, FeeReleased(state, deal), removeDeal(state, deal))
              /\ PaidAndSlashed(m, n, deal, totalPayment(state, deal),
                                If(everSlashed(state), deal.ProviderCollateral))
<1> DEFINE pay == totalPayment(state, deal)
           remaining == dealGetPaymentRemaining(deal, state.SlashEpoch)
           paid == transferBalance(m, deal.Client, deal.Provider, pay)
           n == updatePendingDealState(m, state, deal)
<1>1. /\ deal.Client \in Addrs /\ deal.Provider \in Addrs /\ deal.Client # deal.Provider
      /\ deal.ClientCollateral \in Nat /\ deal.ProviderCollateral \in Nat
      /\ deal.StartEpoch \in Nat /\ deal.EndEpoch \in Nat /\ deal.StartEpoch < deal.EndEpoch
      /\ deal.StoragePricePerEpoch \in Nat
  BY OfferAmounts
<1>2. pay \in Nat
  BY UpdateStep
<1>3. remaining \in Nat
  <2>1. state.SlashEpoch \in Int
    BY EpochTypes
  <2>2. deal.EndEpoch - Max2(state.SlashEpoch, deal.StartEpoch) \in Nat
    BY <1>1, <2>1 DEF Max2
  <2> QED BY <2>2, <1>1 DEF dealGetPaymentRemaining
<1>4. /\ everSlashed(state) => n = processDealSlashed(paid, state, deal)
      /\ ~everSlashed(state) /\ epoch >= deal.EndEpoch => n = processDealExpired(paid, deal)
      /\ ~everSlashed(state) /\ ~(epoch >= deal.EndEpoch) => n = paid
  BY DEF updatePendingDealState
<1> HIDE DEF pay, n
<1>5. /\ Unlocked(m, paid, deal.Client, pay, "ClientStorageFee")
      /\ \A x \in Addrs : paid.EscrowTable[x] = m.EscrowTable[x] - If(x = deal.Client, pay) + If(x = deal.Provider, pay)
  BY <1>1, <1>2, TransferValues
<1>6. paid \in WorkingState
  BY <1>5 DEF Unlocked
<1> HIDE DEF paid
<1>7. /\ m.LockedTable \in [Addrs -> Int] /\ m.Totals \in [BalanceLockingReason -> Int]
      /\ m.EscrowTable \in [Addrs -> Int]
      /\ {"ClientStorageFee", "ClientCollateral", "ProviderCollateral"} \subseteq BalanceLockingReason
  BY DEF WorkingState, BalanceLockingReason
<1>8. CASE everSlashed(state)
  <2>1. /\ Released(paid, n, deal, remaining, TRUE)
        /\ PaidAndSlashed(paid, n, deal, 0, deal.ProviderCollateral)
    BY <1>3, <1>4, <1>6, <1>8, SlashedValues, Zenon
  <2> HIDE DEF remaining
  <2>2. Released(m, n, deal, pay + remaining, TRUE)
    BY <1>1, <1>2, <1>3, <1>5, <1>7, <2>1 DEF Released, Unlocked, If
  <2>3. PaidAndSlashed(m, n, deal, pay, deal.ProviderCollateral)
    BY <1>1, <1>2, <1>5, <1>7, <2>1 DEF PaidAndSlashed, If
  <2>4. /\ FeeReleased(state, deal) = pay + remaining /\ removeDeal(state, deal) = TRUE
        /\ If(everSlashed(state), deal.ProviderCollateral) = deal.ProviderCollateral
    BY <1>8 DEF FeeReleased, removeDeal, If, pay, remaining
  <2> QED BY <2>2, <2>3, <2>4, Zenon DEF n, pay
<1>9. CASE ~everSlashed(state) /\ epoch >= deal.EndEpoch
  <2>1. Released(paid, n, deal, 0, TRUE) /\ PaidAndSlashed(paid, n, deal, 0, 0)
    BY <1>4, <1>6, <1>9, ExpiredValues, Zenon
  <2>2. Released(m, n, deal, pay, TRUE)
    BY <1>1, <1>2, <1>5, <1>7, <2>1 DEF Released, Unlocked, If
  <2>3. PaidAndSlashed(m, n, deal, pay, 0)
    BY <1>1, <1>2, <1>5, <1>7, <2>1 DEF PaidAndSlashed, If
  <2>4. /\ FeeReleased(state, deal) = pay /\ removeDeal(state, deal) = TRUE
        /\ If(everSlashed(state), deal.ProviderCollateral) = 0
    BY <1>2, <1>9 DEF FeeReleased, removeDeal, If, pay
  <2> QED BY <2>2, <2>3, <2>4, Zenon DEF n, pay
<1>10. CASE ~everSlashed(state) /\ ~(epoch >= deal.EndEpoch)
  <2>1. n = paid
    BY <1>4, <1>10
  <2>2. Released(m, paid, deal, pay, FALSE)
    BY <1>1, <1>2, <1>5, <1>7 DEF Released, Unlocked, If
  <2>3. PaidAndSlashed(m, paid, deal, pay, 0)
    BY <1>1, <1>2, <1>5, <1>7 DEF PaidAndSlashed, If
  <2>4. /\ FeeReleased(state, deal) = pay /\ removeDeal(state, deal) = FALSE
        /\ If(everSlashed(state), deal.ProviderCollateral) = 0
    BY <1>2, <1>10 DEF FeeReleased, removeDeal, If, pay
  <2> QED BY <2>1, <2>2, <2>3, <2>4, Zenon DEF n, pay
<1> QED BY <1>8, <1>9, <1>10

\* What one operation of a tick does to the balances.
Settlement(m, n, deal, payment, fee, over, slashed) ==
    /\ Released(m, n, deal, fee, over)
    /\ PaidAndSlashed(m, n, deal, payment, slashed)

\* Settlement depends on the balances only.
LEMMA SameSettlement ==
    ASSUME NEW m, NEW k, NEW n, NEW deal, NEW payment, NEW fee, NEW over, NEW slashed,
           SameBalances(k, n), Released(m, k, deal, fee, over), PaidAndSlashed(m, k, deal, payment, slashed)
    PROVE  Settlement(m, n, deal, payment, fee, over, slashed)
<1>1. n.EscrowTable = k.EscrowTable /\ n.LockedTable = k.LockedTable /\ n.Totals = k.Totals
  BY DEF SameBalances
<1>2. Released(m, n, deal, fee, over)
  BY <1>1, ZenonT(60) DEF Released
<1>3. PaidAndSlashed(m, n, deal, payment, slashed)
  BY <1>1, ZenonT(60) DEF PaidAndSlashed
<1> QED BY <1>2, <1>3 DEF Settlement

\* TimeOutDeal settles its deal.
LEMMA TimeOutSettles ==
    ASSUME TypeInv, NEW op, TimeOutDeal(op)
    PROVE  LET deal == msm.Proposals[op[2]]
           IN /\ msm \in MarketState /\ msm' \in MarketState /\ deal \in Offers
              /\ Settlement(msm, msm', deal, 0, TotalStorageFee(deal), TRUE, deal.ProviderCollateral)
              /\ call.amountSlashed \in Nat
              /\ call'.amountSlashed = call.amountSlashed + deal.ProviderCollateral
<1> DEFINE deal == msm.Proposals[op[2]]
           k == processDealInitTimedOut(msm, deal)
<1>1. phase = "cron" /\ phase' = "cron" /\ TypeInv' /\ TimeOutEffect(op)
  BY TimeOutType, Zenon DEF TimeOutDeal
<1>2. msm \in MarketState /\ msm' \in MarketState /\ call.amountSlashed \in Nat
  BY <1>1 DEF TypeInv, TypeOK, CronCall
<1>3. /\ deal \in Offers /\ SameBalances(k, msm')
      /\ call'.amountSlashed = call.amountSlashed + deal.ProviderCollateral
  BY <1>1, <1>2, StateTypes DEF TimeOutEffect
<1>4. msm \in WorkingState
  BY <1>2, WorkingStates
<1> HIDE DEF deal
<1>5. Released(msm, k, deal, TotalStorageFee(deal), TRUE) /\ PaidAndSlashed(msm, k, deal, 0, deal.ProviderCollateral)
  BY <1>3, <1>4, TimeOutValues, Zenon
<1> HIDE DEF k
<1>6. Settlement(msm, msm', deal, 0, TotalStorageFee(deal), TRUE, deal.ProviderCollateral)
  BY <1>3, <1>5, SameSettlement, Zenon
<1> QED BY <1>2, <1>3, <1>6, Zenon DEF deal

\* UpdateDeal settles its deal.
LEMMA UpdateSettles ==
    ASSUME TypeInv, NEW op, UpdateDeal(op)
    PROVE  LET deal == msm.Proposals[op[2]]
               state == msm.States[op[2]]
           IN /\ msm \in MarketState /\ msm' \in MarketState /\ deal \in Offers /\ state \in DealState
              /\ totalPayment(state, deal) \in Nat
              /\ Settlement(msm, msm', deal, totalPayment(state, deal), FeeReleased(state, deal),
                            removeDeal(state, deal), If(everSlashed(state), deal.ProviderCollateral))
              /\ call.amountSlashed \in Nat
              /\ call'.amountSlashed = call.amountSlashed + If(everSlashed(state), deal.ProviderCollateral)
<1> DEFINE deal == msm.Proposals[op[2]]
           state == msm.States[op[2]]
           k == updatePendingDealState(msm, state, deal)
           slashed == If(everSlashed(state), deal.ProviderCollateral)
<1>1. phase = "cron" /\ phase' = "cron" /\ TypeInv' /\ UpdateEffect(op)
  BY UpdateType, Zenon DEF UpdateDeal
<1>2. msm \in MarketState /\ msm' \in MarketState /\ call.amountSlashed \in Nat
  BY <1>1 DEF TypeInv, TypeOK, CronCall
<1>3. /\ deal \in Offers /\ state \in DealState /\ SameBalances(k, msm')
      /\ call'.amountSlashed = call.amountSlashed + slashed
  BY <1>1, <1>2, StateTypes DEF UpdateEffect, If
<1>4. msm \in WorkingState /\ epoch \in Epochs /\ state.SlashEpoch <= deal.EndEpoch
  <2>1. epoch \in Epochs
    BY DEF TypeInv, TypeOK
  <2> QED BY <1>1, <1>2, <2>1, WorkingStates DEF UpdateEffect
<1> HIDE DEF deal, state
<1>5. /\ Released(msm, k, deal, FeeReleased(state, deal), removeDeal(state, deal))
      /\ PaidAndSlashed(msm, k, deal, totalPayment(state, deal), slashed)
      /\ totalPayment(state, deal) \in Nat
  BY <1>3, <1>4, UpdateValues, UpdateStep
<1> HIDE DEF k, slashed
<1>6. Settlement(msm, msm', deal, totalPayment(state, deal), FeeReleased(state, deal),
                 removeDeal(state, deal), slashed)
  BY <1>3, <1>5, SameSettlement
<1> QED BY <1>2, <1>3, <1>5, <1>6 DEF deal, state, slashed

-----------------------------------------------------------------------------
(* What one deal still owes, and what it has been paid.                     *)

\* Terminations took effect by e, before the deal's end and not before its last update.
TerminatedBy(s, e) ==
    \A d \in DOMAIN s.States : everSlashed(s.States[d]) =>
        /\ s.States[d].SlashEpoch <= e
        /\ s.States[d].SlashEpoch < s.Proposals[d].EndEpoch
        /\ s.States[d].LastUpdatedEpoch <= s.States[d].SlashEpoch

\* What deal costs until e.
Owing(deal, e) == Max2(0, e - deal.StartEpoch) * deal.StoragePricePerEpoch

\* A live deal has been paid up to a time between its start and its end.
LEMMA PaidUntilBounds ==
    ASSUME NEW m \in MarketState, NEW d \in DOMAIN m.Proposals, NEW e \in Nat, UpdatedBy(m, e)
    PROVE  LET p == m.Proposals[d]
           IN /\ PaidUntil(m, d) \in Nat /\ FeeOwed(m, d) \in Nat
              /\ p.StartEpoch <= PaidUntil(m, d) /\ PaidUntil(m, d) < p.EndEpoch
              /\ e >= p.StartEpoch => PaidUntil(m, d) <= e
<1> DEFINE p == m.Proposals[d]
<1>1. /\ p.StartEpoch \in Nat /\ p.EndEpoch \in Nat /\ p.StartEpoch < p.EndEpoch
      /\ p.StoragePricePerEpoch \in Nat
  BY StateTypes, OfferAmounts
<1>2. d \in DOMAIN m.States =>
        /\ m.States[d].LastUpdatedEpoch \in Int
        /\ \/ m.States[d].LastUpdatedEpoch = -1
           \/ /\ p.StartEpoch <= m.States[d].LastUpdatedEpoch
              /\ m.States[d].LastUpdatedEpoch <= e
              /\ m.States[d].LastUpdatedEpoch < p.EndEpoch
  BY StateTypes, EpochTypes DEF UpdatedBy, Updated
<1>3. /\ PaidUntil(m, d) \in Nat
      /\ p.StartEpoch <= PaidUntil(m, d) /\ PaidUntil(m, d) < p.EndEpoch
      /\ e >= p.StartEpoch => PaidUntil(m, d) <= e
  BY <1>1, <1>2 DEF PaidUntil, Max2
<1>4. p.EndEpoch - PaidUntil(m, d) \in Nat
  BY <1>1, <1>3
<1> QED BY <1>1, <1>3, <1>4 DEF FeeOwed

\* The price of two consecutive stretches of time, whatever the price.
LEMMA PriceSums ==
    \A a, b, c, p \in Int :
        /\ (b - a) * p + (c - b) * p = (c - a) * p
        /\ (c - a) * p - (c - b) * p = (b - a) * p
        /\ (b - a) * p \in Int
<1> TAKE a, b, c, p \in Int
<1>1. (b - a) * p = b * p - a * p /\ (c - b) * p = c * p - b * p /\ (c - a) * p = c * p - a * p
  OBVIOUS
<1>2. a * p \in Int /\ b * p \in Int /\ c * p \in Int
  OBVIOUS
<1> QED BY <1>1, <1>2

\* The earlier of two epochs.
LEMMA EarlierEpoch == \A e, t \in Int : ~(e >= t) => Min2(t, e) = e /\ e < t
BY DEF Min2

\* A price is a natural number.
LEMMA PriceNat == \A a, p \in Nat : a * p \in Nat
OBVIOUS

\* An update in time: what is paid and released adds up, at any price.
LEMMA UpdateFees ==
    ASSUME NEW m \in MarketState, NEW id \in DOMAIN m.Proposals, id \in DOMAIN m.States,
           epoch \in Epochs, UpdatedBy(m, epoch), TerminatedBy(m, epoch), epoch >= m.Proposals[id].StartEpoch
    PROVE  LET deal == m.Proposals[id]
               state == m.States[id]
               paid == (PaidUntil(m, id) - deal.StartEpoch) * deal.StoragePricePerEpoch
           IN /\ removeDeal(state, deal) =>
                   /\ FeeReleased(state, deal) = FeeOwed(m, id)
                   /\ paid + totalPayment(state, deal)
                        = Owing(deal, IF everSlashed(state) THEN state.SlashEpoch ELSE deal.EndEpoch)
              /\ ~removeDeal(state, deal) =>
                   /\ epoch < deal.EndEpoch
                   /\ FeeReleased(state, deal)
                        = FeeOwed(m, id) - (deal.EndEpoch - epoch) * deal.StoragePricePerEpoch
                   /\ FeeReleased(state, deal) <= FeeOwed(m, id)
                   /\ paid + totalPayment(state, deal)
                        = (epoch - deal.StartEpoch) * deal.StoragePricePerEpoch
\* The payment of an update, in terms of the time it pays for.
<1>PaymentIs.
    ASSUME NEW state, NEW deal,
           NEW from \in Nat, from = paymentStartEpoch(state, deal),
           NEW to \in Int, to = paymentEndEpoch(state, deal),
           NEW p \in Nat, p = deal.StoragePricePerEpoch
    PROVE  totalPayment(state, deal) = IF from <= to THEN (to - from) * p ELSE 0
  <2> USE <1>PaymentIs
  <2>1. CASE from <= to
    <3>1. (to - from) * p \in Nat
      BY <2>1
    <3> QED BY <2>1, <3>1 DEF totalPayment, Max2
  <2>2. CASE ~(from <= to)
    <3>1. (from - to) * p \in Nat
      BY <2>2
    <3>2. (to - from) * p = -((from - to) * p)
      OBVIOUS
    <3>3. \A x, y \in Int : x = -y /\ y \in Nat => x <= 0
      OBVIOUS
    <3>4. (to - from) * p \in Int
      OBVIOUS
    <3>5. (to - from) * p <= 0
      BY <3>1, <3>2, <3>3, <3>4
    <3>6. Max2(0, (to - from) * p) = 0
      BY <3>4, <3>5 DEF Max2
    <3> QED BY <2>2, <3>6 DEF totalPayment
  <2> QED BY <2>1, <2>2
<1> DEFINE deal == m.Proposals[id]
           state == m.States[id]
           p == deal.StoragePricePerEpoch
           from == PaidUntil(m, id)
           start == deal.StartEpoch
           end == deal.EndEpoch
           slash == state.SlashEpoch
           pay == totalPayment(state, deal)
<1>1. /\ start \in Nat /\ end \in Nat /\ start < end /\ p \in Nat
      /\ slash \in Int /\ state.LastUpdatedEpoch \in Int /\ epoch \in Nat
  BY StateTypes, EpochTypes, OfferAmounts
<1>2. from \in Nat /\ start <= from /\ from < end /\ from <= epoch
  BY <1>1, PaidUntilBounds
<1>3. paymentStartEpoch(state, deal) = from
  BY DEF PaidUntil, paymentStartEpoch
<1>4. FeeOwed(m, id) = (end - from) * p
  BY DEF FeeOwed
<1>5. everSlashed(state) => /\ slash \in Int /\ slash < end /\ state.LastUpdatedEpoch <= slash
                            /\ paymentEndEpoch(state, deal) = slash
                            /\ dealGetPaymentRemaining(deal, slash) = (end - Max2(slash, start)) * p
                            /\ FeeReleased(state, deal) = pay + (end - Max2(slash, start)) * p
  BY <1>1 DEF TerminatedBy, paymentEndEpoch, dealGetPaymentRemaining, FeeReleased, If
<1>6. from = Max2(start, state.LastUpdatedEpoch)
  BY DEF PaidUntil
<1>7. ~everSlashed(state) => paymentEndEpoch(state, deal) = Min2(end, epoch)
  BY DEF paymentEndEpoch
<1>8. Owing(deal, end) = (end - start) * p /\ Owing(deal, slash) = Max2(0, slash - start) * p
  BY <1>1 DEF Owing, Max2
<1>9. ~everSlashed(state) => FeeReleased(state, deal) = pay + 0
  BY DEF FeeReleased, If
<1>10. removeDeal(state, deal) <=> everSlashed(state) \/ epoch >= end
  BY DEF removeDeal
<1>11. p = deal.StoragePricePerEpoch
  OBVIOUS
<1> HIDE DEF deal, state, p, from, start, end, slash, pay
<1>12. CASE everSlashed(state) /\ slash >= start
  <2>1. from <= slash
    BY <1>1, <1>2, <1>5, <1>6, <1>12 DEF Max2
  <2>2. pay = (slash - from) * p
    BY <1>1, <1>2, <1>3, <1>5, <1>11, <1>12, <2>1, <1>PaymentIs DEF pay
  <2>3. Max2(slash, start) = slash /\ Max2(0, slash - start) = slash - start
    BY <1>1, <1>12 DEF Max2
  <2>4. FeeReleased(state, deal) = (slash - from) * p + (end - slash) * p
    BY <1>5, <1>12, <2>2, <2>3
  <2>5. FeeReleased(state, deal) = FeeOwed(m, id)
    BY <1>1, <1>2, <1>4, <2>4, PriceSums
  <2>6. (from - start) * p + (slash - from) * p = (slash - start) * p
    BY <1>1, <1>2, PriceSums
  <2>7. (from - start) * p + pay = Owing(deal, slash)
    BY <1>8, <2>2, <2>3, <2>6
  <2> QED BY <1>10, <1>12, <2>5, <2>7 DEF deal, state, p, from, start, end, slash, pay
<1>13. CASE everSlashed(state) /\ slash < start
  <2>1. from = start /\ from > slash
    BY <1>1, <1>2, <1>5, <1>6, <1>13 DEF Max2
  <2>2. pay = 0
    BY <1>1, <1>2, <1>3, <1>5, <1>11, <1>13, <2>1, <1>PaymentIs DEF pay
  <2>3. Max2(slash, start) = start /\ Max2(0, slash - start) = 0
    BY <1>1, <1>13 DEF Max2
  <2>4. FeeReleased(state, deal) = FeeOwed(m, id)
    <3>1. (end - from) * p \in Int
      BY <1>1, <1>2
    <3> QED BY <1>4, <1>5, <1>13, <2>1, <2>2, <2>3, <3>1
  <2>5. (from - start) * p + pay = 0 /\ 0 * p = 0
    <3>1. from - start = 0
      BY <1>1, <2>1
    <3>2. 0 * p = 0
      BY <1>1
    <3> QED BY <2>2, <3>1, <3>2
  <2>6. (from - start) * p + pay = Owing(deal, slash)
    BY <1>8, <2>3, <2>5
  <2> QED BY <1>10, <1>13, <2>4, <2>6 DEF deal, state, p, from, start, end, slash, pay
<1>14. CASE ~everSlashed(state) /\ epoch >= end
  <2>1. paymentEndEpoch(state, deal) = end
    <3>1. epoch \in Int /\ end \in Int
      BY <1>1
    <3>2. Min2(end, epoch) = end
      BY <1>14, <3>1 DEF Min2
    <3> QED BY <1>7, <1>14, <3>2
  <2>2. pay = (end - from) * p
    BY <1>1, <1>2, <1>3, <1>11, <2>1, <1>PaymentIs DEF pay
  <2>3. FeeReleased(state, deal) = FeeOwed(m, id)
    <3>1. (end - from) * p \in Int
      BY <1>1, <1>2
    <3> QED BY <1>4, <1>9, <1>14, <2>2, <3>1
  <2>4. (from - start) * p + (end - from) * p = (end - start) * p
    BY <1>1, <1>2, PriceSums
  <2>5. (from - start) * p + pay = Owing(deal, end)
    BY <1>8, <2>2, <2>4
  <2> QED BY <1>10, <1>14, <2>3, <2>5, ZenonT(60) DEF deal, state, p, from, start, end, slash, pay
<1>15. CASE ~everSlashed(state) /\ ~(epoch >= end)
  <2>1. paymentEndEpoch(state, deal) = epoch /\ epoch < end
    <3>1. epoch \in Int /\ end \in Int
      BY <1>1
    <3>2. Min2(end, epoch) = epoch /\ epoch < end
      BY <1>15, <3>1, EarlierEpoch
    <3> QED BY <1>7, <1>15, <3>2
  <2>2. pay = (epoch - from) * p
    BY <1>1, <1>2, <1>3, <1>11, <2>1, <1>PaymentIs DEF pay
  <2>3. (epoch - from) * p \in Int /\ (end - epoch) * p \in Nat /\ (end - from) * p \in Int
    <3>1. end - epoch \in Nat
      BY <1>1, <2>1
    <3> QED BY <1>1, <1>2, <3>1
  <2>4. FeeReleased(state, deal) = (epoch - from) * p
    BY <1>9, <1>15, <2>2, <2>3
  <2>5. (end - from) * p - (end - epoch) * p = (epoch - from) * p
    BY <1>1, <1>2, PriceSums
  <2>6. FeeReleased(state, deal) = FeeOwed(m, id) - (end - epoch) * p
    BY <1>4, <2>4, <2>5
  <2>7. FeeReleased(state, deal) <= FeeOwed(m, id)
    BY <1>4, <2>3, <2>6
  <2>8. (from - start) * p + (epoch - from) * p = (epoch - start) * p
    BY <1>1, <1>2, PriceSums
  <2>9. (from - start) * p + pay = (epoch - start) * p
    BY <2>2, <2>8
  <2> QED BY <1>10, <1>15, <2>1, <2>6, <2>7, <2>9, ZenonT(60) DEF deal, state, p, from, start, end, slash, pay
<1> QED
  <2>1. (everSlashed(state) /\ slash >= start) \/ (everSlashed(state) /\ slash < start)
        \/ ~everSlashed(state)
    BY <1>1
  <2> QED BY <1>12, <1>13, <1>14, <1>15, <2>1, ZenonT(60)

\* The deals of n are those of m, with the same proposals and payments, but for deal id.
OthersSame(m, n, id) ==
    \A d \in DOMAIN n.Proposals \ {id} :
        n.Proposals[d] = m.Proposals[d] /\ PaidUntil(n, d) = PaidUntil(m, d)

\* The end of a deal leaves what the others owe.
LEMMA EndedOthers ==
    ASSUME NEW m, NEW n, NEW id, Ended(m, n, id), DOMAIN m.States \subseteq DOMAIN m.Proposals
    PROVE  /\ DOMAIN n.Proposals = DOMAIN m.Proposals \ {id}
           /\ OthersSame(m, n, id)
           /\ \A e : TerminatedBy(m, e) => TerminatedBy(n, e)
<1>1. /\ DOMAIN n.Proposals = DOMAIN m.Proposals \ {id}
      /\ \A d \in DOMAIN n.Proposals : n.Proposals[d] = m.Proposals[d]
      /\ DOMAIN n.States = DOMAIN m.States \ {id}
      /\ \A d \in DOMAIN n.States : n.States[d] = m.States[d]
  BY DEF Ended, Without
<1>2. OthersSame(m, n, id)
  BY <1>1 DEF OthersSame, PaidUntil
<1>3. ASSUME NEW e, TerminatedBy(m, e), NEW d \in DOMAIN n.States, everSlashed(n.States[d])
      PROVE  /\ n.States[d].SlashEpoch <= e /\ n.States[d].SlashEpoch < n.Proposals[d].EndEpoch
             /\ n.States[d].LastUpdatedEpoch <= n.States[d].SlashEpoch
  <2>1. d \in DOMAIN m.States /\ n.States[d] = m.States[d] /\ n.Proposals[d] = m.Proposals[d]
    BY <1>1, <1>3
  <2> QED BY <1>3, <2>1 DEF TerminatedBy
<1> QED BY <1>1, <1>2, <1>3 DEF TerminatedBy

\* An update of a deal leaves what the others owe.
LEMMA MarkedOthers ==
    ASSUME NEW m \in MarketState, NEW n, NEW id \in DOMAIN m.States, NEW e \in Epochs,
           Marked(m, n, id, e), ~everSlashed(m.States[id]), e >= m.Proposals[id].StartEpoch,
           id \in DOMAIN m.Proposals
    PROVE  /\ n.Proposals = m.Proposals
           /\ OthersSame(m, n, id)
           /\ PaidUntil(n, id) = e
           /\ \A x : TerminatedBy(m, x) => TerminatedBy(n, x)
<1>1. /\ n.Proposals = m.Proposals /\ DOMAIN n.States = DOMAIN m.States
      /\ \A d \in DOMAIN m.States \ {id} : n.States[d] = m.States[d]
      /\ n.States[id] = [m.States[id] EXCEPT !.LastUpdatedEpoch = e]
  BY DEF Marked
<1>2. OthersSame(m, n, id)
  BY <1>1 DEF OthersSame, PaidUntil
<1>3. m.States[id] \in DealState /\ m.Proposals[id].StartEpoch \in Nat /\ e \in Nat
  BY StateTypes, EpochTypes, OfferAmounts
<1>4. n.States[id].LastUpdatedEpoch = e /\ n.States[id].SlashEpoch = m.States[id].SlashEpoch
  BY <1>1, <1>3 DEF DealState
<1>5. PaidUntil(n, id) = e
  BY <1>1, <1>3, <1>4 DEF PaidUntil, Max2
<1>6. ~everSlashed(n.States[id])
  BY <1>4 DEF everSlashed
<1>7. \A x : TerminatedBy(m, x) => TerminatedBy(n, x)
  BY <1>1, <1>6 DEF TerminatedBy
<1> QED BY <1>1, <1>2, <1>5, <1>7

\* A publication leaves what the others owe.
LEMMA PublishedOthers ==
    ASSUME NEW m \in MarketState, NEW n, NEW deal \in Offers, NEW t, Published(m, n, deal, t), WellFormed(m)
    PROVE  LET id == m.NextID
           IN /\ id \notin DOMAIN m.Proposals /\ id \in DOMAIN n.Proposals
              /\ DOMAIN n.Proposals = DOMAIN m.Proposals \cup {id}
              /\ n.Proposals[id] = deal /\ n.States = m.States
              /\ \A d \in DOMAIN m.Proposals : n.Proposals[d] = m.Proposals[d]
              /\ OthersSame(m, n, id)
              /\ FeeOwed(n, id) = TotalStorageFee(deal)
              /\ \A x : TerminatedBy(m, x) => TerminatedBy(n, x)
<1> DEFINE id == m.NextID
<1>1. id \notin DOMAIN m.Proposals
  <2>1. m.NextID \in Nat /\ \A d \in DOMAIN m.Proposals : d \in Nat /\ d < m.NextID
    BY StateTypes, EpochTypes DEF WellFormed
  <2> QED BY <2>1
<1>2. /\ DOMAIN n.Proposals = DOMAIN m.Proposals \cup {id} /\ n.Proposals[id] = deal
      /\ \A d \in DOMAIN m.Proposals : n.Proposals[d] = m.Proposals[d]
      /\ n.States = m.States /\ DOMAIN m.States \subseteq DOMAIN m.Proposals
  BY <1>1 DEF Published, Put, WellFormed
<1> HIDE DEF id
<1>3. OthersSame(m, n, id)
  BY <1>1, <1>2 DEF OthersSame, PaidUntil
<1>4. PaidUntil(n, id) = deal.StartEpoch
  BY <1>1, <1>2 DEF PaidUntil
<1>5. FeeOwed(n, id) = TotalStorageFee(deal)
  <2>1. \A x, y \in Int : x * y = y * x
    OBVIOUS
  <2>2. deal.EndEpoch - deal.StartEpoch \in Int /\ deal.StoragePricePerEpoch \in Int
    BY OfferAmounts
  <2> QED BY <1>2, <1>4, <2>1, <2>2 DEF FeeOwed, TotalStorageFee
<1>6. \A x : TerminatedBy(m, x) => TerminatedBy(n, x)
  BY <1>1, <1>2 DEF TerminatedBy
<1> QED BY <1>1, <1>2, <1>3, <1>5, <1>6 DEF id

\* What storing deal locks.
Locked(m, n, deal) ==
    /\ \A a \in Addrs : n.LockedTable[a] = m.LockedTable[a]
           + If(a = deal.Client, deal.ClientCollateral + TotalStorageFee(deal))
           + If(a = deal.Provider, deal.ProviderCollateral)
    /\ n.Totals["ClientStorageFee"] = m.Totals["ClientStorageFee"] + TotalStorageFee(deal)
    /\ n.Totals["ClientCollateral"] = m.Totals["ClientCollateral"] + deal.ClientCollateral
    /\ n.Totals["ProviderCollateral"] = m.Totals["ProviderCollateral"] + deal.ProviderCollateral
    /\ n.EscrowTable = m.EscrowTable

\* The values lockClientAndProviderBalances leaves.
LEMMA LockValues ==
    ASSUME NEW m \in MarketState, NEW deal \in Offers, NEW n,
           SameBalances(lockClientAndProviderBalances(m, deal), n)
    PROVE  Locked(m, n, deal)
<1> DEFINE L == [a \in Addrs |->
                  m.LockedTable[a] + (IF a = deal.Client THEN ClientBalanceRequirement(deal) ELSE 0)
                       + (IF a = deal.Provider THEN deal.ProviderCollateral ELSE 0)]
           T == [r \in BalanceLockingReason |->
                  m.Totals[r] + (CASE r = "ClientCollateral" -> deal.ClientCollateral
                            [] r = "ClientStorageFee" -> TotalStorageFee(deal)
                            [] r = "ProviderCollateral" -> deal.ProviderCollateral)]
<1>1. n.LockedTable = L /\ n.Totals = T /\ n.EscrowTable = m.EscrowTable
  BY Zenon DEF SameBalances, lockClientAndProviderBalances, MarketState
<1>2. /\ T["ClientStorageFee"] = m.Totals["ClientStorageFee"] + TotalStorageFee(deal)
      /\ T["ClientCollateral"] = m.Totals["ClientCollateral"] + deal.ClientCollateral
      /\ T["ProviderCollateral"] = m.Totals["ProviderCollateral"] + deal.ProviderCollateral
  BY DEF BalanceLockingReason
<1>3. \A a \in Addrs : L[a] = m.LockedTable[a]
           + If(a = deal.Client, deal.ClientCollateral + TotalStorageFee(deal))
           + If(a = deal.Provider, deal.ProviderCollateral)
  BY DEF If, ClientBalanceRequirement
<1> HIDE DEF L, T
<1>4. \A a \in Addrs : n.LockedTable[a] = m.LockedTable[a]
           + If(a = deal.Client, deal.ClientCollateral + TotalStorageFee(deal))
           + If(a = deal.Provider, deal.ProviderCollateral)
  BY <1>1, <1>3, Zenon
<1> QED BY <1>1, <1>2, <1>4, Zenon DEF Locked

-----------------------------------------------------------------------------
(* The balance is what the escrow table says.                               *)

\* The types of a state's tables.
LEMMA EscrowTypes ==
    ASSUME NEW s \in MarketState
    PROVE  /\ s.EscrowTable \in [Addrs -> Int] /\ s.LockedTable \in [Addrs -> Int]
           /\ s.EscrowTable \in [Addrs -> Nat] /\ s.LockedTable \in [Addrs -> Nat]
           /\ s.Totals \in [BalanceLockingReason -> Int]
           /\ SumOf(s.EscrowTable, Addrs) \in Int
<1>1. /\ s.EscrowTable \in [Addrs -> Int] /\ s.LockedTable \in [Addrs -> Int]
      /\ s.EscrowTable \in [Addrs -> Nat] /\ s.LockedTable \in [Addrs -> Nat]
      /\ s.Totals \in [BalanceLockingReason -> Int]
  BY DEF MarketState
<1>2. \A a \in Addrs : s.EscrowTable[a] \in Int
  BY <1>1
<1> QED BY <1>1, <1>2, FiniteSets, SumInt

\* The balance is the escrow in every state, in an open transaction too.
LEMMA FundsInvAlways == Spec => []FundsInv
\* The constructor leaves an empty table.
<1>InitFunds. Init => FundsInv
  <2> SUFFICES ASSUME Init PROVE FundsInv
    OBVIOUS
  <2> DEFINE f == [a \in Addrs |-> 0]
  <2>1. \A a \in Addrs : f[a] = 0
    OBVIOUS
  <2>2. st.EscrowTable = f /\ balance = 0 /\ phase = "messages"
    BY DEF Init
  <2> HIDE DEF f
  <2>3. SumOf(f, Addrs) = 0
    BY <2>1, FiniteSets, SumZero
  <2> QED BY <2>2, <2>3 DEF FundsInv
\* Every step of the market keeps the balance equal to the escrow.
<1>FundsInvInductive. TypeInv /\ FundsInv /\ [Next]_vars => FundsInv'
  \* A settlement takes what it slashes, and only that, out of escrow.
  <2>SettleFunds.
      ASSUME NEW m, NEW n, m.EscrowTable \in [Addrs -> Int], n.EscrowTable \in [Addrs -> Int],
             NEW deal \in Offers, NEW payment \in Int, NEW slashed \in Int,
             PaidAndSlashed(m, n, deal, payment, slashed)
      PROVE  SumOf(n.EscrowTable, Addrs) = SumOf(m.EscrowTable, Addrs) - slashed
    <3> USE <2>SettleFunds
    <3> DEFINE f == m.EscrowTable
               h == n.EscrowTable
    <3>1. deal.Client \in Addrs /\ deal.Provider \in Addrs /\ deal.Client # deal.Provider
      BY OfferAmounts
    <3>2. /\ \A z \in Addrs : f[z] \in Int /\ h[z] \in Int
          /\ \A z \in Addrs \ {deal.Client, deal.Provider} : h[z] = f[z]
          /\ h[deal.Client] - f[deal.Client] = -payment
          /\ h[deal.Provider] - f[deal.Provider] = payment - slashed
      BY <3>1 DEF PaidAndSlashed, If
    <3>3. SumOf(f, Addrs) \in Int
      BY <3>2, FiniteSets, SumInt
    <3> HIDE DEF f, h
    <3>4. SumOf(h, Addrs) = SumOf(f, Addrs) + (h[deal.Client] - f[deal.Client])
                            + (h[deal.Provider] - f[deal.Provider])
      BY <3>1, <3>2, FiniteSets, SumChangeTwo
    <3> QED BY <3>2, <3>3, <3>4 DEF f, h
  \* Changing one account's escrow changes the sum by as much.
  <2>EscrowChange.
      ASSUME NEW f \in [Addrs -> Int], NEW a \in Addrs, NEW v \in Int
      PROVE  SumOf([f EXCEPT ![a] = @ + v], Addrs) = SumOf(f, Addrs) + v
    <3> USE <2>EscrowChange
    <3> DEFINE h == [f EXCEPT ![a] = @ + v]
    <3>1. /\ \A y \in Addrs : f[y] \in Int /\ h[y] \in Int
          /\ \A y \in Addrs \ {a} : h[y] = f[y]
          /\ h[a] = f[a] + v /\ f[a] \in Int
      OBVIOUS
    <3>2. SumOf(f, Addrs) \in Int
      BY <3>1, FiniteSets, SumInt
    <3> HIDE DEF h
    <3>3. SumOf(h, Addrs) = SumOf(f, Addrs) - f[a] + h[a]
      BY <3>1, FiniteSets, SumChange
    <3> QED BY <3>1, <3>2, <3>3 DEF h
  <2> SUFFICES ASSUME TypeInv, FundsInv, [Next]_vars PROVE FundsInv'
    OBVIOUS
  <2>0. /\ st \in MarketState /\ balance \in Nat
        /\ st.EscrowTable \in [Addrs -> Int] /\ SumOf(st.EscrowTable, Addrs) \in Int
    BY EscrowTypes DEF TypeInv, TypeOK
  <2>1. ASSUME NEW a \in Addrs, NEW v \in Deposits, AddBalance(a, v) PROVE FundsInv'
    <3>1. /\ phase' = "messages" /\ balance' = balance + v /\ v \in Int
          /\ st'.EscrowTable = [st.EscrowTable EXCEPT ![a] = @ + v]
      BY <2>0, <2>1, AmountsAssumption DEF AddBalance, MarketState
    <3> QED BY <2>0, <3>1, <2>EscrowChange DEF FundsInv
  <2>2. ASSUME NEW a \in Addrs, NEW v \in Withdrawals, WithdrawBalance(a, v) PROVE FundsInv'
    <3> DEFINE ex == SubtractWithMinimum(st.EscrowTable[a], v, st.LockedTable[a])
    <3>1. ex \in Int
      BY <2>0, EscrowTypes, AmountsAssumption DEF SubtractWithMinimum, Min2, Max2
    <3>2. /\ phase' = "messages" /\ balance' = balance - ex
          /\ st'.EscrowTable = [st.EscrowTable EXCEPT ![a] = @ - ex]
      BY <2>0, <2>2 DEF WithdrawBalance, MarketState
    <3> HIDE DEF ex
    <3>3. st'.EscrowTable = [st.EscrowTable EXCEPT ![a] = @ + (-ex)] /\ -ex \in Int
      BY <2>0, <3>1, <3>2
    <3>4. SumOf(st'.EscrowTable, Addrs) = SumOf(st.EscrowTable, Addrs) + (-ex)
      BY <2>0, <3>3, <2>EscrowChange
    <3> QED BY <2>0, <3>1, <3>2, <3>4 DEF FundsInv
  <2>3. CASE (\E deals \in Batches : PublishStorageDeals(deals)) \/ AbortPublish \/ AbortCron
    <3>1. st' = st /\ balance' = balance /\ phase' \in {"filter", "messages", "ticked"}
      BY <2>3 DEF PublishStorageDeals, AbortPublish, AbortCron
    <3> QED BY <3>1 DEF FundsInv
  <2>4. CASE \E inBounds, ok \in BOOLEAN : FilterDeal(inBounds, ok)
    <3>1. st' = st /\ balance' = balance /\ phase' = "filter"
      BY <2>4 DEF FilterDeal
    <3> QED BY <3>1 DEF FundsInv
  <2>5. CASE OpenPublish
    <3>1. st' = st /\ balance' = balance /\ phase' = "store" /\ msm' = st
      BY <2>5 DEF OpenPublish
    <3> QED BY <3>1 DEF FundsInv
  <2>6. CASE StoreDeal
    <3>1. phase = "store" /\ phase' = "store" /\ st' = st /\ balance' = balance /\ StoreEffect
      BY <2>6, StoreType DEF StoreDeal
    <3>2. msm'.EscrowTable = lockClientAndProviderBalances(msm, Head(call.validDeals)).EscrowTable
      BY <3>1 DEF StoreEffect, SameBalances
    <3>3. msm \in MarketState
      BY <3>1 DEF TypeInv, TypeOK
    <3>4. msm'.EscrowTable = msm.EscrowTable
      BY <3>2, <3>3 DEF lockClientAndProviderBalances, MarketState
    <3> QED BY <3>1, <3>4 DEF FundsInv
  <2>7. CASE CommitPublish
    <3>1. phase = "store" /\ st' = msm /\ balance' = balance /\ phase' = "messages"
      BY <2>7 DEF CommitPublish
    <3> QED BY <3>1 DEF FundsInv
  <2>8. CASE \/ \E miner, ids, expiry : ActivateDeals(miner, ids, expiry)
             \/ \E miner, ids, e : OnMinerSectorsTerminate(miner, e, ids)
    <3>1. phase' = "messages" /\ st'.EscrowTable = st.EscrowTable /\ balance' = balance
      BY <2>0, <2>8, Zenon DEF ActivateDeals, OnMinerSectorsTerminate, MarketState
    <3> QED BY <3>1 DEF FundsInv
  <2>9. CASE CronTick
    <3>1. /\ phase' = "cron" /\ st' = st /\ msm' = st /\ balance' = balance
          /\ call'.amountSlashed = 0
      BY <2>9, ZenonT(60) DEF CronTick
    <3> QED BY <2>0, <3>1 DEF FundsInv
  <2>10. ASSUME NEW op, TimeOutDeal(op) PROVE FundsInv'
    <3> DEFINE deal == msm.Proposals[op[2]]
    <3>1. phase = "cron" /\ phase' = "cron" /\ st' = st /\ balance' = balance
      BY <2>10 DEF TimeOutDeal
    <3>2. /\ msm \in MarketState /\ msm' \in MarketState /\ deal \in Offers
          /\ Settlement(msm, msm', deal, 0, TotalStorageFee(deal), TRUE, deal.ProviderCollateral)
          /\ call.amountSlashed \in Nat
          /\ call'.amountSlashed = call.amountSlashed + deal.ProviderCollateral
      BY <2>10, TimeOutSettles, Zenon
    <3> HIDE DEF deal
    <3>3. PaidAndSlashed(msm, msm', deal, 0, deal.ProviderCollateral)
      BY <3>2 DEF Settlement
    <3>4. deal.ProviderCollateral \in Int
      BY <3>2, OfferAmounts
    <3>5. SumOf(msm'.EscrowTable, Addrs) = SumOf(msm.EscrowTable, Addrs) - deal.ProviderCollateral
      <4>1. /\ msm.EscrowTable \in [Addrs -> Int] /\ msm'.EscrowTable \in [Addrs -> Int]
            /\ 0 \in Int
        BY <3>2, EscrowTypes
      <4>2. deal \in Offers
        BY <3>2
      <4> QED BY <3>3, <3>4, <4>1, <4>2, <2>SettleFunds, ZenonT(60)
    <3>6. SumOf(msm.EscrowTable, Addrs) \in Int
      BY <3>2, EscrowTypes
    <3> QED BY <3>1, <3>2, <3>4, <3>5, <3>6, SlashFunds, ZenonT(60)
  <2>11. ASSUME NEW op, UpdateDeal(op) PROVE FundsInv'
    <3> DEFINE deal == msm.Proposals[op[2]]
               state == msm.States[op[2]]
               pay == totalPayment(state, deal)
               slashed == If(everSlashed(state), deal.ProviderCollateral)
    <3>1. phase = "cron" /\ phase' = "cron" /\ st' = st /\ balance' = balance
      BY <2>11 DEF UpdateDeal
    <3>2. /\ msm \in MarketState /\ msm' \in MarketState /\ deal \in Offers /\ pay \in Nat
          /\ Settlement(msm, msm', deal, pay, FeeReleased(state, deal), removeDeal(state, deal), slashed)
          /\ call.amountSlashed \in Nat
          /\ call'.amountSlashed = call.amountSlashed + slashed
      BY <2>11, UpdateSettles, ZenonT(60)
    <3> HIDE DEF deal, state, pay
    <3>3. PaidAndSlashed(msm, msm', deal, pay, slashed)
      BY <3>2 DEF Settlement
    <3>4. slashed \in Int /\ pay \in Int
      BY <3>2, OfferAmounts DEF If
    <3> HIDE DEF slashed
    <3>5. SumOf(msm'.EscrowTable, Addrs) = SumOf(msm.EscrowTable, Addrs) - slashed
      <4>1. msm.EscrowTable \in [Addrs -> Int] /\ msm'.EscrowTable \in [Addrs -> Int]
        BY <3>2, EscrowTypes, ZenonT(60)
      <4> QED BY <3>2, <3>3, <3>4, <4>1, <2>SettleFunds, Zenon
    <3>6. SumOf(msm.EscrowTable, Addrs) \in Int
      BY <3>2, EscrowTypes
    <3> QED BY <3>1, <3>2, <3>4, <3>5, <3>6, SlashFunds, ZenonT(60)
  <2>12. CASE CommitCron
    <3>1. /\ phase = "cron" /\ phase' = "ticked" /\ msm \in MarketState /\ call.amountSlashed \in Nat
      BY <2>12 DEF CommitCron, TypeInv, TypeOK, CronCall
    <3>2. st'.EscrowTable = msm.EscrowTable /\ balance' = balance - call.amountSlashed
      BY <2>12, <3>1 DEF CommitCron, MarketState
    <3>3. SumOf(msm.EscrowTable, Addrs) \in Int
      BY <3>1, EscrowTypes
    <3> QED BY <3>1, <3>2, <3>3 DEF FundsInv
  <2>13. CASE (\E n : NextEpoch(n)) \/ Horizon \/ UNCHANGED vars
    <3>1. /\ st' = st /\ msm' = msm /\ balance' = balance
          /\ (phase' = phase /\ call' = call) \/ phase' = "messages"
      BY <2>13 DEF NextEpoch, Horizon, vars
    <3> QED BY <3>1 DEF FundsInv
  <2> QED
    BY <2>1, <2>2, <2>3, <2>4, <2>5, <2>6, <2>7, <2>8, <2>9, <2>10, <2>11, <2>12, <2>13, ZenonT(60)
       DEF Next, EndCron
<1> QED BY <1>InitFunds, <1>FundsInvInductive, TypeInvAlways, PTL DEF Spec

\* However deposits, withdrawals, publications, payments and slashes are interleaved, late
\* terminations included, the actor holds exactly what its escrow table says: AddBalance,
\* WithdrawBalance, transferBalance and the burn at the end of a tick neither lose nor make tokens.
THEOREM AlwaysSolvent == Spec => []Solvent
<1>1. FundsInv => Solvent
  BY DEF FundsInv, Solvent
<1> QED BY <1>1, FundsInvAlways, PTL

\* With late terminations too, which may make a tick fail, the market holds what it owes and cron
\* has one operation for every live deal.  By ImplementsMarket in VerifiedDealsProofs this also
\* holds with the verified registry.
THEOREM SolventAndScheduledAlways == Spec => []SolventAndScheduled
<1>1. DealsTracked /\ Solvent => SolventAndScheduled
  BY DEF DealsTracked, SolventAndScheduled
<1> QED BY <1>1, AlwaysSolvent, DealsAlwaysTracked, PTL

-----------------------------------------------------------------------------
(* Room in escrow for a batch of deals.                                     *)

\* What is raised at one entry is nowhere less than before.
LEMMA RaisedEntry ==
    ASSUME NEW S, NEW f \in [S -> Nat], NEW x \in S, NEW v \in Nat, v >= f[x]
    PROVE  \A c \in S : [f EXCEPT ![x] = v][c] >= f[c] /\ [f EXCEPT ![x] = v][c] \in Nat
OBVIOUS

\* What is at most y is at most what y has been raised to.
LEMMA StillAtMost == \A x, y, z \in Int : x <= y /\ z >= y => x <= z
OBVIOUS

\* The deals of a batch, what p locks for a, and what a batch of the deals S locks.
DealsOf(q) == {q[i] : i \in 1 .. Len(q)}
Locks(p, a) == If(a = p.Client, ClientBalanceRequirement(p)) + If(a = p.Provider, p.ProviderCollateral)
Needs(S, a) == SumOf([p \in S |-> Locks(p, a)], S)

\* Each account has what the deals S still need.
Room(s, S) == \A a \in Addrs : s.LockedTable[a] + Needs(S, a) <= s.EscrowTable[a]

\* While the filter runs its totals are at least what the deals that passed need; from then on
\* there is room for those that are not stored yet.
RoomInv ==
    /\ phase = "filter" =>
         /\ Room(st, DealsOf(call.validDeals))
         /\ \A c \in Clients : Needs(DealsOf(call.validDeals), c) <= call.totalClientLockup[c]
         /\ Needs(DealsOf(call.validDeals), call.provider) <= call.totalProviderLockup
    /\ phase = "store" => Room(msm, DealsOf(call.validDeals))

\* The deals of a batch are finitely many offers.
LEMMA BatchOffers ==
    ASSUME NEW q \in Seq(Offers)
    PROVE  DealsOf(q) \subseteq Offers /\ IsFiniteSet(DealsOf(q))
<1>1. Len(q) \in Nat /\ \A i \in 1 .. Len(q) : q[i] \in Offers
  OBVIOUS
<1>2. Covers(Len(q), DealsOf(q))
  BY <1>1 DEF Covers, DealsOf
<1> QED BY <1>1, <1>2, FiniteCovers DEF DealsOf

\* A deal that is appended is one deal more.
LEMMA DealsOfAppend ==
    ASSUME NEW q \in Seq(Offers), NEW deal \in Offers
    PROVE  DealsOf(Append(q, deal)) = DealsOf(q) \cup {deal}
BY AppendAdds DEF DealsOf

\* What a deal locks is a number, for the client and the provider.
LEMMA LocksTypes ==
    ASSUME NEW p \in Offers
    PROVE  /\ \A a : Locks(p, a) \in Nat
           /\ Locks(p, p.Client) = ClientBalanceRequirement(p)
           /\ Locks(p, p.Provider) = p.ProviderCollateral
           /\ \A a : a # p.Client /\ a # p.Provider => Locks(p, a) = 0
<1>1. /\ ClientBalanceRequirement(p) \in Nat /\ p.ProviderCollateral \in Nat /\ p.Client # p.Provider
  BY OfferAmounts
<1> QED BY <1>1 DEF Locks, If

\* One more deal needs what it locks.
LEMMA NeedsOneMore ==
    ASSUME NEW S, S \subseteq Offers, IsFiniteSet(S), NEW p \in Offers, NEW a
    PROVE  /\ Needs(S, a) \in Nat
           /\ p \notin S => Needs(S \cup {p}, a) = Needs(S, a) + Locks(p, a)
<1> DEFINE f == [x \in S |-> Locks(x, a)]
           h == [x \in S \cup {p} |-> Locks(x, a)]
<1>1. /\ \A x \in S : f[x] \in Nat /\ h[x] = f[x]
      /\ h[p] = Locks(p, a) /\ h[p] \in Int
  BY LocksTypes
<1>2. Needs(S, a) = SumOf(f, S) /\ Needs(S \cup {p}, a) = SumOf(h, S \cup {p})
  BY DEF Needs
<1> HIDE DEF f, h
<1>3. SumOf(f, S) \in Nat
  BY <1>1, SumNat
<1>4. p \notin S => SumOf(h, S \cup {p}) = SumOf(f, S) + h[p]
  <2>1. \A x \in S : f[x] \in Int /\ h[x] = f[x]
    BY <1>1
  <2> QED BY <1>1, <2>1, SumInsert
<1> QED BY <1>1, <1>2, <1>3, <1>4

\* A batch of no deals needs nothing.
LEMMA NeedsNothing == \A a : Needs({}, a) = 0
BY SumEmpty DEF Needs

\* The filter passes a deal only if there is room for it beside those that passed before.
LEMMA FilterRoom ==
    ASSUME TypeInv, RoomInv, NEW inBounds, NEW ok, FilterDeal(inBounds, ok)
    PROVE  RoomInv'
<1> DEFINE deal == Head(call.deals)
           V == call.validDeals
           S == DealsOf(V)
<1>1. /\ phase = "filter" /\ phase' = "filter" /\ st' = st /\ call \in PublishCall /\ st \in MarketState
      /\ FilterEffect(inBounds, ok)
  <2>1. FilterEffect(inBounds, ok)
    BY FilterChange
  <2> QED BY <2>1 DEF FilterDeal, TypeInv, TypeOK
<1>2. /\ deal \in Offers /\ V \in Seq(Offers) /\ call.provider \in Providers
      /\ call.totalClientLockup \in [Clients -> Nat] /\ call.totalProviderLockup \in Nat
  BY <1>1 DEF FilterEffect, PublishCall
<1>3. /\ deal.Client \in Clients /\ deal.Provider \in Providers /\ deal.Client # deal.Provider
      /\ ClientBalanceRequirement(deal) \in Nat /\ deal.ProviderCollateral \in Nat
      /\ Clients \cap Providers = {} /\ Clients \subseteq Addrs /\ Providers \subseteq Addrs
  <2>1. deal \in DealProposal
    BY <1>2, OffersAssumption
  <2> QED BY <1>2, <2>1, OfferAmounts, AddrsAssumption DEF DealProposal, Addrs
<1>4. /\ Room(st, S) /\ \A c \in Clients : Needs(S, c) <= call.totalClientLockup[c]
      /\ Needs(S, call.provider) <= call.totalProviderLockup
  BY <1>1 DEF RoomInv
<1>5. \A c \in Clients : call'.totalClientLockup[c] >= call.totalClientLockup[c] /\ call'.totalClientLockup[c] \in Nat
  <2> DEFINE v == IF ValidDeal(deal, inBounds) THEN ClientLockup(deal) ELSE call.totalClientLockup[deal.Client]
  <2>1. v \in Nat /\ v >= call.totalClientLockup[deal.Client]
    <3>1. call.totalClientLockup[deal.Client] \in Nat
      BY <1>2, <1>3
    <3> QED BY <1>3, <3>1 DEF ClientLockup
  <2>2. call'.totalClientLockup = [call.totalClientLockup EXCEPT ![deal.Client] = v]
    BY <1>1, ZenonT(60) DEF FilterEffect
  <2> HIDE DEF v, deal
  <2> QED BY <1>2, <1>3, <2>1, <2>2, RaisedEntry
<1>6. call'.totalProviderLockup >= call.totalProviderLockup /\ call'.totalProviderLockup \in Nat
  BY <1>1, <1>2, <1>3 DEF FilterEffect, ProviderLockup
<1>7. S \subseteq Offers /\ IsFiniteSet(S) /\ \A a : Needs(S, a) \in Nat
  BY <1>2, BatchOffers, NeedsOneMore, ZenonT(60)
<1>8. CASE call'.validDeals = V
  <2>1. /\ \A c \in Clients : Needs(S, c) <= call'.totalClientLockup[c]
        /\ Needs(S, call.provider) <= call'.totalProviderLockup
    <3>1. ASSUME NEW c \in Clients PROVE Needs(S, c) <= call'.totalClientLockup[c]
      <4>1. /\ Needs(S, c) \in Int /\ call.totalClientLockup[c] \in Int /\ call'.totalClientLockup[c] \in Int
            /\ Needs(S, c) <= call.totalClientLockup[c] /\ call'.totalClientLockup[c] >= call.totalClientLockup[c]
        BY <1>2, <1>4, <1>5, <1>7
      <4> QED BY <4>1, StillAtMost, ZenonT(60)
    <3>2. Needs(S, call.provider) \in Int /\ call.totalProviderLockup \in Int /\ call'.totalProviderLockup \in Int
      BY <1>2, <1>6, <1>7
    <3> QED BY <1>4, <1>6, <3>1, <3>2, StillAtMost, ZenonT(60)
  <2> QED BY <1>1, <1>4, <1>8, <2>1, ZenonT(60) DEF RoomInv, FilterEffect
<1>9. CASE call'.validDeals # V
  <2>1. PassesMarketChecks(deal, inBounds) /\ call'.validDeals = Append(V, deal) /\ call'.provider = call.provider
    BY <1>1, <1>9 DEF FilterEffect
  <2>2. /\ deal.Provider = call.provider /\ ~Duplicate(deal)
        /\ st.LockedTable[deal.Client] + ClientLockup(deal) <= st.EscrowTable[deal.Client]
        /\ st.LockedTable[deal.Provider] + ProviderLockup(deal) <= st.EscrowTable[deal.Provider]
        /\ call'.totalClientLockup[deal.Client] = ClientLockup(deal)
        /\ call'.totalProviderLockup = ProviderLockup(deal)
    BY <1>1, <1>2, <1>3, <2>1 DEF FilterEffect, PassesMarketChecks, ValidDeal, ClientBalanceOk, ProviderBalanceOk,
                                 balanceCovered
  <2>3. deal \notin S /\ DealsOf(call'.validDeals) = S \cup {deal}
    <3>1. deal \notin S
      BY <2>2, ZenonT(60) DEF Duplicate, DealsOf
    <3>2. DealsOf(Append(V, deal)) = DealsOf(V) \cup {deal}
      <4> HIDE DEF V, deal
      <4> QED BY <1>2, DealsOfAppend, ZenonT(60)
    <3> QED BY <2>1, <3>1, <3>2, ZenonT(60)
  <2> HIDE DEF S, V, deal
  <2>4. \A a : Needs(S \cup {deal}, a) = Needs(S, a) + Locks(deal, a) /\ Locks(deal, a) \in Nat
    BY <1>2, <1>7, <2>3, NeedsOneMore, LocksTypes
  <2>10. \A a : Needs(S \cup {deal}, a) \in Nat
    <3> TAKE a
    <3>1. /\ Needs(S \cup {deal}, a) = Needs(S, a) + Locks(deal, a)
          /\ Locks(deal, a) \in Nat /\ Needs(S, a) \in Nat
      BY <1>7, <2>4, ZenonT(60)
    <3> QED BY <3>1
  <2>5. /\ Locks(deal, deal.Client) = ClientBalanceRequirement(deal)
        /\ Locks(deal, deal.Provider) = deal.ProviderCollateral
        /\ \A a : a # deal.Client /\ a # deal.Provider => Locks(deal, a) = 0
    BY <1>2, LocksTypes
  <2>6. ASSUME NEW c \in Clients PROVE Needs(S \cup {deal}, c) <= call'.totalClientLockup[c]
    <3>1. CASE c = deal.Client
      <4>1. /\ Needs(S \cup {deal}, c) = Needs(S, c) + ClientBalanceRequirement(deal) /\ Needs(S, c) \in Nat
            /\ Needs(S, c) <= call.totalClientLockup[c] /\ call.totalClientLockup[c] \in Nat
            /\ call'.totalClientLockup[c] = call.totalClientLockup[c] + ClientBalanceRequirement(deal)
        BY <1>2, <1>4, <1>7, <2>2, <2>4, <2>5, <3>1, ZenonT(60) DEF ClientLockup
      <4> QED BY <1>3, <4>1
    <3>2. CASE c # deal.Client
      <4>1. Needs(S \cup {deal}, c) = Needs(S, c)
        BY <1>3, <1>7, <2>4, <2>5, <3>2
      <4> QED BY <1>2, <1>4, <1>5, <1>7, <4>1
    <3> QED BY <3>1, <3>2
  <2>7. Needs(S \cup {deal}, call.provider) <= call'.totalProviderLockup
    <3>1. /\ Needs(S \cup {deal}, call.provider) = Needs(S, call.provider) + deal.ProviderCollateral
          /\ Needs(S, call.provider) \in Nat
          /\ call'.totalProviderLockup = call.totalProviderLockup + deal.ProviderCollateral
      BY <1>7, <2>2, <2>4, <2>5, ZenonT(60) DEF ProviderLockup
    <3> QED BY <1>2, <1>3, <1>4, <3>1
  <2>8. ASSUME NEW a \in Addrs PROVE st.LockedTable[a] + Needs(S \cup {deal}, a) <= st.EscrowTable[a]
    <3>1. st.LockedTable[a] \in Int /\ st.EscrowTable[a] \in Int
      BY <1>1, EscrowTypes
    <3>2. CASE a = deal.Client
      <4>1. Needs(S \cup {deal}, a) <= ClientLockup(deal) /\ ClientLockup(deal) \in Int
        <5>1. ClientLockup(deal) \in Int
          BY <1>2, <1>3 DEF ClientLockup
        <5> QED BY <1>3, <2>2, <2>6, <3>2, <5>1
      <4>2. Needs(S \cup {deal}, a) \in Nat /\ st.LockedTable[a] + ClientLockup(deal) <= st.EscrowTable[a]
        BY <2>2, <2>10, <3>2, ZenonT(60)
      <4> QED BY <3>1, <4>1, <4>2
    <3>3. CASE a = deal.Provider
      <4>1. Needs(S \cup {deal}, a) <= ProviderLockup(deal) /\ ProviderLockup(deal) \in Int
        BY <1>2, <1>3, <2>2, <2>7, <3>3 DEF ProviderLockup
      <4>2. Needs(S \cup {deal}, a) \in Nat /\ st.LockedTable[a] + ProviderLockup(deal) <= st.EscrowTable[a]
        BY <2>2, <2>10, <3>3, ZenonT(60)
      <4> QED BY <3>1, <4>1, <4>2
    <3>4. CASE a # deal.Client /\ a # deal.Provider
      <4>1. Needs(S \cup {deal}, a) = Needs(S, a)
        BY <1>7, <2>4, <2>5, <3>4
      <4> QED BY <1>4, <4>1 DEF Room
    <3> QED BY <3>2, <3>3, <3>4
  <2>9. Room(st, S \cup {deal})
    BY <2>8 DEF Room
  <2> QED BY <1>1, <2>1, <2>3, <2>6, <2>7, <2>9, ZenonT(60) DEF RoomInv
<1> QED BY <1>8, <1>9

\* Storing a deal locks what was reserved for it.
LEMMA StoreRoom ==
    ASSUME TypeInv, DealsInv, RoomInv, StoreDeal
    PROVE  RoomInv'
<1> DEFINE deal == Head(call.validDeals)
           V == call.validDeals
           S == DealsOf(Tail(V))
<1>1. /\ phase = "store" /\ phase' = "store" /\ V # <<>> /\ call \in PublishCall /\ msm \in MarketState
      /\ StoreEffect
  BY StoreType DEF StoreDeal, TypeInv, TypeOK
<1>2. /\ V \in Seq(Offers) /\ Tail(V) \in Seq(Offers) /\ deal \in Offers /\ call'.validDeals = Tail(V)
  BY <1>1 DEF PublishCall, StoreEffect
<1>3. \A i, j \in 1 .. Len(V) : V[i] = V[j] => i = j
  BY <1>1 DEF DealsInv, Chosen
<1>4. DealsOf(V) = S \cup {deal} /\ deal \notin S
  BY <1>1, <1>2, <1>3, HeadAndTail DEF DealsOf
<1>5. Room(msm, S \cup {deal}) /\ Locked(msm, msm', deal) /\ msm'.EscrowTable = msm.EscrowTable
  <2>1. Room(msm, S \cup {deal})
    BY <1>1, <1>4 DEF RoomInv
  <2>2. SameBalances(lockClientAndProviderBalances(msm, deal), msm')
    BY <1>1, ZenonT(60) DEF StoreEffect
  <2>3. lockClientAndProviderBalances(msm, deal).EscrowTable = msm.EscrowTable
    BY <1>1 DEF lockClientAndProviderBalances, MarketState
  <2> QED BY <1>1, <1>2, <2>1, <2>2, <2>3, LockValues DEF SameBalances
<1>6. S \subseteq Offers /\ IsFiniteSet(S)
  BY <1>2, BatchOffers, ZenonT(60)
<1> HIDE DEF S, V, deal
<1>7. \A a : /\ Needs(S, a) \in Nat /\ Locks(deal, a) \in Nat
             /\ Needs(S \cup {deal}, a) = Needs(S, a) + Locks(deal, a)
  BY <1>2, <1>4, <1>6, NeedsOneMore, LocksTypes
<1>8. \A a \in Addrs : msm'.LockedTable[a] = msm.LockedTable[a] + Locks(deal, a)
  <2>1. \A a \in Addrs : msm.LockedTable[a] \in Int
    BY <1>1, EscrowTypes
  <2>2. TotalStorageFee(deal) \in Nat /\ deal.ClientCollateral \in Nat /\ deal.ProviderCollateral \in Nat
    BY <1>2, OfferAmounts
  <2> QED BY <1>5, <2>1, <2>2 DEF Locked, Locks, If, ClientBalanceRequirement
<1>9. Room(msm', S)
  <2>1. \A a \in Addrs : msm.LockedTable[a] \in Int /\ msm.EscrowTable[a] \in Int
    BY <1>1, EscrowTypes
  <2> SUFFICES ASSUME NEW a \in Addrs PROVE msm'.LockedTable[a] + Needs(S, a) <= msm'.EscrowTable[a]
    BY DEF Room
  <2>2. /\ msm.LockedTable[a] + Needs(S \cup {deal}, a) <= msm.EscrowTable[a]
        /\ Needs(S \cup {deal}, a) = Needs(S, a) + Locks(deal, a) /\ Needs(S, a) \in Nat /\ Locks(deal, a) \in Nat
        /\ msm'.LockedTable[a] = msm.LockedTable[a] + Locks(deal, a) /\ msm'.EscrowTable[a] = msm.EscrowTable[a]
    BY <1>5, <1>7, <1>8, ZenonT(60) DEF Room
  <2> QED BY <2>1, <2>2
<1> QED BY <1>1, <1>2, <1>9 DEF RoomInv, S

\* There is room for every deal that passed the filter, until it is stored.
LEMMA RoomInvAlways == Spec => []RoomInv
<1>1. Init => RoomInv
  BY DEF Init, RoomInv
<1>2. TypeInv /\ EscrowInv /\ DealsInv /\ RoomInv /\ [Next]_vars => RoomInv'
  <2> SUFFICES ASSUME TypeInv, EscrowInv, DealsInv, RoomInv, [Next]_vars PROVE RoomInv'
    OBVIOUS
  <2>1. ASSUME NEW deals \in Batches, PublishStorageDeals(deals) PROVE RoomInv'
    <3>1. /\ phase' = "filter" /\ st' = st /\ st \in MarketState /\ call'.validDeals = <<>>
          /\ call'.totalClientLockup = [c \in Clients |-> 0] /\ call'.totalProviderLockup = 0
      BY <2>1, ZenonT(60) DEF PublishStorageDeals, TypeInv, TypeOK
    <3>2. DealsOf(call'.validDeals) = {}
      BY <3>1 DEF DealsOf
    <3>3. Room(st, {})
      <4>1. \A a \in Addrs : st.LockedTable[a] \in Int /\ st.EscrowTable[a] \in Int
        BY <3>1, EscrowTypes
      <4> QED BY <4>1, NeedsNothing DEF EscrowInv, Covered, Room
    <3> QED BY <3>1, <3>2, <3>3, NeedsNothing DEF RoomInv
  <2>2. ASSUME NEW inBounds, NEW ok, FilterDeal(inBounds, ok) PROVE RoomInv'
    BY <2>2, FilterRoom
  <2>3. CASE OpenPublish
    BY <2>3, ZenonT(60) DEF OpenPublish, RoomInv
  <2>4. CASE StoreDeal
    BY <2>4, StoreRoom
  <2>5. CASE UNCHANGED vars
    BY <2>5 DEF vars, RoomInv
  <2>6. CASE /\ ~\E deals \in Batches : PublishStorageDeals(deals)
             /\ ~\E inBounds, ok \in BOOLEAN : FilterDeal(inBounds, ok)
             /\ ~OpenPublish /\ ~StoreDeal /\ Next
    <3>1. phase' \notin {"filter", "store"}
      BY <2>6, ZenonT(60) DEF Next, AddBalance, WithdrawBalance, CommitPublish, AbortPublish, ActivateDeals, OnMinerSectorsTerminate,
                  CronTick, TimeOutDeal, UpdateDeal, EndCron, AbortCron, CommitCron, NextEpoch, Horizon, vars
    <3> QED BY <3>1 DEF RoomInv
  <2> QED BY <2>1, <2>2, <2>3, <2>4, <2>5, <2>6, ZenonT(60) DEF Next
<1> QED BY <1>1, <1>2, TypeInvAlways, EscrowInvAlways, DealsInvAlways, PTL DEF Spec

\* A deal that passed the filter can be locked.
LEMMA StoreSucceeds ==
    ASSUME TypeInv, DealsInv, RoomInv, phase = "store"
    PROVE  ~PublishFails
<1> SUFFICES ASSUME call.validDeals # <<>> PROVE CanLockClientAndProviderBalances(msm, Head(call.validDeals))
  BY DEF PublishFails
<1> DEFINE deal == Head(call.validDeals)
           V == call.validDeals
           S == DealsOf(Tail(V))
<1>1. call \in PublishCall /\ msm \in MarketState
  BY DEF TypeInv, TypeOK
<1>2. V \in Seq(Offers) /\ V # <<>> /\ Tail(V) \in Seq(Offers) /\ deal \in Offers
  BY <1>1 DEF PublishCall
<1>3. \A i, j \in 1 .. Len(V) : V[i] = V[j] => i = j
  BY DEF DealsInv, Chosen
<1>4. DealsOf(V) = S \cup {deal} /\ deal \notin S
  BY <1>2, <1>3, HeadAndTail, ZenonT(60) DEF DealsOf
<1>5. Room(msm, S \cup {deal})
  BY <1>4 DEF RoomInv
<1>6. S \subseteq Offers /\ IsFiniteSet(S)
  BY <1>2, BatchOffers, ZenonT(60)
<1> HIDE DEF S, V, deal
<1>7. \A a : /\ Needs(S, a) \in Nat /\ Locks(deal, a) \in Nat
             /\ Needs(S \cup {deal}, a) = Needs(S, a) + Locks(deal, a)
  BY <1>2, <1>4, <1>6, NeedsOneMore, LocksTypes
<1>8. \A a \in Addrs : msm.LockedTable[a] \in Int /\ msm.EscrowTable[a] \in Int
  BY <1>1, EscrowTypes
<1>9. \A a \in Addrs : msm.LockedTable[a] + Locks(deal, a) <= msm.EscrowTable[a]
  <2> TAKE a \in Addrs
  <2>1. /\ msm.LockedTable[a] + Needs(S \cup {deal}, a) <= msm.EscrowTable[a]
        /\ Needs(S \cup {deal}, a) = Needs(S, a) + Locks(deal, a) /\ Needs(S, a) \in Nat /\ Locks(deal, a) \in Nat
    BY <1>5, <1>7, ZenonT(60) DEF Room
  <2> QED BY <1>8, <2>1
<1>10. /\ Locks(deal, deal.Client) = ClientBalanceRequirement(deal)
       /\ Locks(deal, deal.Provider) = deal.ProviderCollateral
       /\ deal.Client \in Addrs /\ deal.Provider \in Addrs
  BY <1>2, LocksTypes, OfferAmounts
<1> QED BY <1>9, <1>10 DEF CanLockClientAndProviderBalances, balanceCovered, deal

=============================================================================
