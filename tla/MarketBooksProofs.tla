------------------------- MODULE MarketBooksProofs -------------------------
(***************************************************************************)
(* Theorems about the books that Market keeps: what is locked for all      *)
(* deals together, what a deal has paid over its life, and that no handler *)
(* finds the books short.                                                  *)
(***************************************************************************)
EXTENDS MarketFundsProofs

\* Both provers, with room for a slow machine.
USE SMTT(40), ZenonT(40)

-----------------------------------------------------------------------------
(* What all the deals owe together.                                         *)

\* What s has locked is what its deals owe, by account and by reason.
Balanced(s) ==
    /\ \A a \in Addrs : s.LockedTable[a] = OwedBy(s, a)
    /\ \A r \in BalanceLockingReason : s.Totals[r] = TotalOwed(s, r)

\* What a live deal owes is an integer.
LEMMA OwesTypes ==
    ASSUME NEW s \in MarketState, NEW d \in DOMAIN s.Proposals
    PROVE  /\ s.Proposals[d] \in Offers
           /\ PaidUntil(s, d) \in Int /\ FeeOwed(s, d) \in Int
           /\ \A a : Owes(s, d, a) \in Int
           /\ \A r \in BalanceLockingReason : OwesFor(s, d, r) \in Int
<1> DEFINE p == s.Proposals[d]
<1>1. p \in Offers /\ (d \in DOMAIN s.States => s.States[d].LastUpdatedEpoch \in Int)
  BY StateTypes, EpochTypes
<1>2. /\ p.StartEpoch \in Int /\ p.EndEpoch \in Int /\ p.StoragePricePerEpoch \in Int
      /\ p.ClientCollateral \in Int /\ p.ProviderCollateral \in Int
  BY <1>1, OfferAmounts
<1>3. PaidUntil(s, d) \in Int
  BY <1>1, <1>2 DEF PaidUntil, Max2
<1>4. FeeOwed(s, d) \in Int
  <2>1. p.EndEpoch - PaidUntil(s, d) \in Int
    BY <1>2, <1>3
  <2> QED BY <1>2, <2>1 DEF FeeOwed
<1>5. \A a : Owes(s, d, a) \in Int
  BY <1>2, <1>4 DEF Owes
<1>6. \A r \in BalanceLockingReason : OwesFor(s, d, r) \in Int
  BY <1>2, <1>4 DEF OwesFor, BalanceLockingReason
<1> QED BY <1>1, <1>3, <1>4, <1>5, <1>6

\* Deals with the same proposals and payments owe the same.
LEMMA OthersOweTheSame ==
    ASSUME NEW m, NEW n, NEW id, OthersSame(m, n, id)
    PROVE  \A d \in DOMAIN n.Proposals \ {id} :
             /\ \A a : Owes(n, d, a) = Owes(m, d, a)
             /\ \A r : OwesFor(n, d, r) = OwesFor(m, d, r)
<1> TAKE d \in DOMAIN n.Proposals \ {id}
<1>1. n.Proposals[d] = m.Proposals[d] /\ PaidUntil(n, d) = PaidUntil(m, d)
  BY DEF OthersSame
<1>2. FeeOwed(n, d) = FeeOwed(m, d)
  BY <1>1 DEF FeeOwed
<1>3. \A a : Owes(n, d, a) = Owes(m, d, a)
  BY <1>1, <1>2, Zenon DEF Owes
<1>4. \A r : OwesFor(n, d, r) = OwesFor(m, d, r)
  BY <1>1, <1>2, Zenon DEF OwesFor
<1> QED BY <1>3, <1>4

\* The sums after the end of a deal.
LEMMA OwedAfterEnd ==
    ASSUME NEW m \in MarketState, NEW n, NEW id \in DOMAIN m.Proposals,
           DOMAIN n.Proposals = DOMAIN m.Proposals \ {id}, OthersSame(m, n, id)
    PROVE  /\ \A a : OwedBy(n, a) = OwedBy(m, a) - Owes(m, id, a)
           /\ \A r \in BalanceLockingReason : TotalOwed(n, r) = TotalOwed(m, r) - OwesFor(m, id, r)
<1> DEFINE D == DOMAIN m.Proposals
           E == DOMAIN n.Proposals
<1>1. IsFiniteSet(D)
  BY FiniteSets
<1>2. ASSUME NEW a PROVE OwedBy(n, a) = OwedBy(m, a) - Owes(m, id, a)
  <2> DEFINE f == [d \in D |-> Owes(m, d, a)]
             h == [d \in DOMAIN n.Proposals |-> Owes(n, d, a)]
  <2>1. /\ \A d \in D : f[d] \in Int
        /\ \A d \in E : h[d] = f[d]
        /\ f[id] = Owes(m, id, a)
    BY OwesTypes, OthersOweTheSame
  <2>2. OwedBy(m, a) = SumOf(f, D) /\ OwedBy(n, a) = SumOf(h, E) /\ id \in D /\ E = D \ {id}
    BY DEF OwedBy
  <2> HIDE DEF f, h, D, E
  <2>3. SumOf(h, E) = SumOf(f, D) - f[id]
    BY <1>1, <2>1, <2>2, SumDrop
  <2> QED BY <2>1, <2>2, <2>3
<1>3. ASSUME NEW r \in BalanceLockingReason
      PROVE  TotalOwed(n, r) = TotalOwed(m, r) - OwesFor(m, id, r)
  <2> DEFINE f == [d \in D |-> OwesFor(m, d, r)]
             h == [d \in DOMAIN n.Proposals |-> OwesFor(n, d, r)]
  <2>1. /\ \A d \in D : f[d] \in Int
        /\ \A d \in E : h[d] = f[d]
        /\ f[id] = OwesFor(m, id, r)
    BY OwesTypes, OthersOweTheSame
  <2>2. TotalOwed(m, r) = SumOf(f, D) /\ TotalOwed(n, r) = SumOf(h, E) /\ id \in D /\ E = D \ {id}
    BY DEF TotalOwed
  <2> HIDE DEF f, h, D, E
  <2>3. SumOf(h, E) = SumOf(f, D) - f[id]
    BY <1>1, <2>1, <2>2, SumDrop
  <2> QED BY <2>1, <2>2, <2>3
<1> QED BY <1>2, <1>3

\* The sums after an update of a deal.
LEMMA OwedAfterUpdate ==
    ASSUME NEW m \in MarketState, NEW n \in MarketState, NEW id \in DOMAIN m.Proposals,
           DOMAIN n.Proposals = DOMAIN m.Proposals, OthersSame(m, n, id)
    PROVE  /\ \A a : OwedBy(n, a) = OwedBy(m, a) - Owes(m, id, a) + Owes(n, id, a)
           /\ \A r \in BalanceLockingReason :
                TotalOwed(n, r) = TotalOwed(m, r) - OwesFor(m, id, r) + OwesFor(n, id, r)
<1> DEFINE D == DOMAIN m.Proposals
<1>1. IsFiniteSet(D)
  BY FiniteSets
<1>2. ASSUME NEW a PROVE OwedBy(n, a) = OwedBy(m, a) - Owes(m, id, a) + Owes(n, id, a)
  <2> DEFINE f == [d \in D |-> Owes(m, d, a)]
             h == [d \in DOMAIN n.Proposals |-> Owes(n, d, a)]
  <2>1. /\ \A d \in D : f[d] \in Int /\ h[d] \in Int
        /\ \A d \in D \ {id} : h[d] = f[d]
        /\ f[id] = Owes(m, id, a) /\ h[id] = Owes(n, id, a)
    BY OwesTypes, OthersOweTheSame
  <2>2. OwedBy(m, a) = SumOf(f, D) /\ OwedBy(n, a) = SumOf(h, D) /\ id \in D
    BY DEF OwedBy
  <2> HIDE DEF f, h, D
  <2>3. SumOf(h, D) = SumOf(f, D) - f[id] + h[id]
    BY <1>1, <2>1, <2>2, SumChange
  <2> QED BY <2>1, <2>2, <2>3
<1>3. ASSUME NEW r \in BalanceLockingReason
      PROVE  TotalOwed(n, r) = TotalOwed(m, r) - OwesFor(m, id, r) + OwesFor(n, id, r)
  <2> DEFINE f == [d \in D |-> OwesFor(m, d, r)]
             h == [d \in DOMAIN n.Proposals |-> OwesFor(n, d, r)]
  <2>1. /\ \A d \in D : f[d] \in Int /\ h[d] \in Int
        /\ \A d \in D \ {id} : h[d] = f[d]
        /\ f[id] = OwesFor(m, id, r) /\ h[id] = OwesFor(n, id, r)
    BY OwesTypes, OthersOweTheSame
  <2>2. TotalOwed(m, r) = SumOf(f, D) /\ TotalOwed(n, r) = SumOf(h, D) /\ id \in D
    BY DEF TotalOwed
  <2> HIDE DEF f, h, D
  <2>3. SumOf(h, D) = SumOf(f, D) - f[id] + h[id]
    BY <1>1, <2>1, <2>2, SumChange
  <2> QED BY <2>1, <2>2, <2>3
<1> QED BY <1>2, <1>3

\* The sums after a publication.
LEMMA OwedAfterPublication ==
    ASSUME NEW m \in MarketState, NEW n \in MarketState, NEW id, id \notin DOMAIN m.Proposals,
           DOMAIN n.Proposals = DOMAIN m.Proposals \cup {id}, OthersSame(m, n, id)
    PROVE  /\ \A a : OwedBy(n, a) = OwedBy(m, a) + Owes(n, id, a)
           /\ \A r \in BalanceLockingReason : TotalOwed(n, r) = TotalOwed(m, r) + OwesFor(n, id, r)
<1> DEFINE D == DOMAIN m.Proposals
<1>1. IsFiniteSet(D) /\ id \notin D
  BY FiniteSets
<1>2. ASSUME NEW a PROVE OwedBy(n, a) = OwedBy(m, a) + Owes(n, id, a)
  <2> DEFINE f == [d \in D |-> Owes(m, d, a)]
             h == [d \in DOMAIN n.Proposals |-> Owes(n, d, a)]
  <2>1. /\ \A d \in D : f[d] \in Int /\ h[d] = f[d]
        /\ h[id] = Owes(n, id, a) /\ h[id] \in Int
    BY OwesTypes, OthersOweTheSame
  <2>2. OwedBy(m, a) = SumOf(f, D) /\ OwedBy(n, a) = SumOf(h, D \cup {id})
    BY DEF OwedBy
  <2> HIDE DEF f, h, D
  <2>3. SumOf(h, D \cup {id}) = SumOf(f, D) + h[id]
    BY <1>1, <2>1, SumInsert
  <2> QED BY <2>1, <2>2, <2>3
<1>3. ASSUME NEW r \in BalanceLockingReason
      PROVE  TotalOwed(n, r) = TotalOwed(m, r) + OwesFor(n, id, r)
  <2> DEFINE f == [d \in D |-> OwesFor(m, d, r)]
             h == [d \in DOMAIN n.Proposals |-> OwesFor(n, d, r)]
  <2>1. /\ \A d \in D : f[d] \in Int /\ h[d] = f[d]
        /\ h[id] = OwesFor(n, id, r) /\ h[id] \in Int
    BY OwesTypes, OthersOweTheSame
  <2>2. TotalOwed(m, r) = SumOf(f, D) /\ TotalOwed(n, r) = SumOf(h, D \cup {id})
    BY DEF TotalOwed
  <2> HIDE DEF f, h, D
  <2>3. SumOf(h, D \cup {id}) = SumOf(f, D) + h[id]
    BY <1>1, <2>1, SumInsert
  <2> QED BY <2>1, <2>2, <2>3
<1> QED BY <1>2, <1>3

\* Funds are locked for three reasons.
LEMMA OwesForReasons ==
    ASSUME NEW s, NEW d
    PROVE  /\ OwesFor(s, d, "ClientCollateral") = s.Proposals[d].ClientCollateral
           /\ OwesFor(s, d, "ClientStorageFee") = FeeOwed(s, d)
           /\ OwesFor(s, d, "ProviderCollateral") = s.Proposals[d].ProviderCollateral
BY DEF OwesFor

\* A deal that ends by releasing all it owed leaves the books balanced.
LEMMA BalancedEnd ==
    ASSUME NEW m \in MarketState, NEW n, NEW id \in DOMAIN m.Proposals,
           DOMAIN n.Proposals = DOMAIN m.Proposals \ {id}, OthersSame(m, n, id),
           Released(m, n, m.Proposals[id], FeeOwed(m, id), TRUE), Balanced(m)
    PROVE  Balanced(n)
<1> DEFINE p == m.Proposals[id]
<1>1. ASSUME NEW a \in Addrs PROVE n.LockedTable[a] = OwedBy(n, a)
  <2>1. OwedBy(n, a) = OwedBy(m, a) - Owes(m, id, a) /\ m.LockedTable[a] = OwedBy(m, a)
    BY OwedAfterEnd DEF Balanced
  <2>2. p \in Offers /\ FeeOwed(m, id) \in Int
    BY OwesTypes
  <2>3. m.LockedTable[a] \in Int /\ p.ClientCollateral \in Int /\ p.ProviderCollateral \in Int
    <3>1. m.LockedTable[a] \in Int
      BY EscrowTypes
    <3> QED BY <2>2, <3>1, OfferAmounts
  <2>4. n.LockedTable[a] = m.LockedTable[a] - Owes(m, id, a)
    <3>1. n.LockedTable[a] = m.LockedTable[a] - If(a = p.Client, FeeOwed(m, id) + If(TRUE, p.ClientCollateral))
                             - If(a = p.Provider, If(TRUE, p.ProviderCollateral))
      BY ZenonT(60) DEF Released
    <3> QED BY <2>2, <2>3, <3>1 DEF Owes, If
  <2> QED BY <2>1, <2>4
<1>2. ASSUME NEW r \in BalanceLockingReason PROVE n.Totals[r] = TotalOwed(n, r)
  <2>1. TotalOwed(n, r) = TotalOwed(m, r) - OwesFor(m, id, r) /\ m.Totals[r] = TotalOwed(m, r)
    BY OwedAfterEnd DEF Balanced
  <2>2. r \in {"ClientCollateral", "ClientStorageFee", "ProviderCollateral"}
    BY DEF BalanceLockingReason
  <2>3. n.Totals[r] = m.Totals[r] - OwesFor(m, id, r)
    <3>1. /\ n.Totals["ClientStorageFee"] = m.Totals["ClientStorageFee"] - FeeOwed(m, id)
          /\ n.Totals["ClientCollateral"] = m.Totals["ClientCollateral"] - p.ClientCollateral
          /\ n.Totals["ProviderCollateral"] = m.Totals["ProviderCollateral"] - p.ProviderCollateral
      BY DEF Released, If
    <3> QED BY <2>2, <3>1, OwesForReasons
  <2> QED BY <2>1, <2>3
<1> QED BY <1>1, <1>2 DEF Balanced

\* So does an update that releases what it paid.
LEMMA BalancedUpdate ==
    ASSUME NEW m \in MarketState, NEW n \in MarketState, NEW id \in DOMAIN m.Proposals,
           n.Proposals = m.Proposals, OthersSame(m, n, id),
           Released(m, n, m.Proposals[id], FeeOwed(m, id) - FeeOwed(n, id), FALSE), Balanced(m)
    PROVE  Balanced(n)
<1> DEFINE p == m.Proposals[id]
<1>0. FeeOwed(m, id) \in Int /\ FeeOwed(n, id) \in Int /\ p \in Offers
  BY OwesTypes
<1>3. p.ClientCollateral \in Int /\ p.ProviderCollateral \in Int
  BY <1>0, OfferAmounts
<1>1. ASSUME NEW a \in Addrs PROVE n.LockedTable[a] = OwedBy(n, a)
  <2>1. /\ OwedBy(n, a) = OwedBy(m, a) - Owes(m, id, a) + Owes(n, id, a)
        /\ m.LockedTable[a] = OwedBy(m, a)
    BY OwedAfterUpdate DEF Balanced
  <2>2. m.LockedTable[a] \in Int /\ n.Proposals[id] = p
    BY EscrowTypes
  <2>3. n.LockedTable[a] = m.LockedTable[a] - Owes(m, id, a) + Owes(n, id, a)
    <3>1. n.LockedTable[a] = m.LockedTable[a]
                             - If(a = p.Client, FeeOwed(m, id) - FeeOwed(n, id) + If(FALSE, p.ClientCollateral))
                             - If(a = p.Provider, If(FALSE, p.ProviderCollateral))
      BY ZenonT(60) DEF Released
    <3> QED BY <1>0, <1>3, <2>2, <3>1 DEF Owes, If
  <2> QED BY <2>1, <2>3
<1>2. ASSUME NEW r \in BalanceLockingReason PROVE n.Totals[r] = TotalOwed(n, r)
  <2>1. /\ TotalOwed(n, r) = TotalOwed(m, r) - OwesFor(m, id, r) + OwesFor(n, id, r)
        /\ m.Totals[r] = TotalOwed(m, r)
    BY OwedAfterUpdate DEF Balanced
  <2>2. r \in {"ClientCollateral", "ClientStorageFee", "ProviderCollateral"}
    BY DEF BalanceLockingReason
  <2>3. m.Totals[r] \in Int
    BY EscrowTypes
  <2>4. n.Totals[r] = m.Totals[r] - OwesFor(m, id, r) + OwesFor(n, id, r)
    <3>1. /\ n.Totals["ClientStorageFee"] = m.Totals["ClientStorageFee"] - (FeeOwed(m, id) - FeeOwed(n, id))
          /\ n.Totals["ClientCollateral"] = m.Totals["ClientCollateral"] - 0
          /\ n.Totals["ProviderCollateral"] = m.Totals["ProviderCollateral"] - 0
      BY DEF Released, If
    <3> QED BY <1>0, <1>3, <2>2, <2>3, <3>1, OwesForReasons
  <2> QED BY <2>1, <2>4
<1> QED BY <1>1, <1>2 DEF Balanced

\* So does a publication that locks what the deal will cost.
LEMMA BalancedPublication ==
    ASSUME NEW m \in MarketState, NEW n \in MarketState, NEW id, id \notin DOMAIN m.Proposals,
           DOMAIN n.Proposals = DOMAIN m.Proposals \cup {id}, OthersSame(m, n, id),
           Locked(m, n, n.Proposals[id]), FeeOwed(n, id) = TotalStorageFee(n.Proposals[id]), Balanced(m)
    PROVE  Balanced(n)
<1> DEFINE p == n.Proposals[id]
<1>0. FeeOwed(n, id) \in Int /\ p \in Offers
  BY OwesTypes
<1>3. p.ClientCollateral \in Int /\ p.ProviderCollateral \in Int
  BY <1>0, OfferAmounts
<1>1. ASSUME NEW a \in Addrs PROVE n.LockedTable[a] = OwedBy(n, a)
  <2>1. OwedBy(n, a) = OwedBy(m, a) + Owes(n, id, a) /\ m.LockedTable[a] = OwedBy(m, a)
    BY OwedAfterPublication DEF Balanced
  <2>2. m.LockedTable[a] \in Int
    BY EscrowTypes
  <2>3. n.LockedTable[a] = m.LockedTable[a] + Owes(n, id, a)
    <3>1. n.LockedTable[a] = m.LockedTable[a] + If(a = p.Client, p.ClientCollateral + FeeOwed(n, id))
                             + If(a = p.Provider, p.ProviderCollateral)
      BY ZenonT(60) DEF Locked
    <3> QED BY <1>0, <1>3, <2>2, <3>1 DEF Owes, If
  <2> QED BY <2>1, <2>3
<1>2. ASSUME NEW r \in BalanceLockingReason PROVE n.Totals[r] = TotalOwed(n, r)
  <2>1. TotalOwed(n, r) = TotalOwed(m, r) + OwesFor(n, id, r) /\ m.Totals[r] = TotalOwed(m, r)
    BY OwedAfterPublication DEF Balanced
  <2>2. r \in {"ClientCollateral", "ClientStorageFee", "ProviderCollateral"}
    BY DEF BalanceLockingReason
  <2>3. n.Totals[r] = m.Totals[r] + OwesFor(n, id, r)
    BY <2>2, OwesForReasons DEF Locked
  <2> QED BY <2>1, <2>3
<1> QED BY <1>1, <1>2 DEF Balanced

\* So does a step that touches neither.
LEMMA BalancedSame ==
    ASSUME NEW m, NEW n, n.Proposals = m.Proposals,
           \A d \in DOMAIN n.Proposals : PaidUntil(n, d) = PaidUntil(m, d),
           n.LockedTable = m.LockedTable, n.Totals = m.Totals, Balanced(m)
    PROVE  Balanced(n)
<1>1. \A d \in DOMAIN n.Proposals : FeeOwed(n, d) = FeeOwed(m, d)
  BY DEF FeeOwed
<1>2. \A d \in DOMAIN n.Proposals : (\A a : Owes(n, d, a) = Owes(m, d, a))
  BY <1>1, Zenon DEF Owes
<1>3. \A d \in DOMAIN n.Proposals : (\A r : OwesFor(n, d, r) = OwesFor(m, d, r))
  BY <1>1, Zenon DEF OwesFor
<1>4. ASSUME NEW a PROVE OwedBy(n, a) = OwedBy(m, a)
  <2>1. [d \in DOMAIN n.Proposals |-> Owes(n, d, a)] = [d \in DOMAIN m.Proposals |-> Owes(m, d, a)]
    BY <1>2
  <2> QED BY <2>1, Zenon DEF OwedBy
<1>5. ASSUME NEW r PROVE TotalOwed(n, r) = TotalOwed(m, r)
  <2>1. [d \in DOMAIN n.Proposals |-> OwesFor(n, d, r)] = [d \in DOMAIN m.Proposals |-> OwesFor(m, d, r)]
    BY <1>3
  <2> QED BY <2>1, Zenon DEF TotalOwed
<1> QED BY <1>4, <1>5 DEF Balanced

\* An operation that releases no more than its deal owes overdraws no account.
LEMMA NothingOverdrawn ==
    ASSUME NEW m \in MarketState, Covered(m), Balanced(m), NEW id \in DOMAIN m.Proposals,
           NEW e \in Nat, UpdatedBy(m, e), NEW fee \in Int, fee <= FeeOwed(m, id), NEW over,
           NEW n, BalanceStep(m, n), Released(m, n, m.Proposals[id], fee, over)
    PROVE  NoNegativeBalance(n)
<1> DEFINE p == m.Proposals[id]
           D == DOMAIN m.Proposals
<1>1. \A d \in D : m.Proposals[d] \in Offers /\ FeeOwed(m, d) \in Nat
  BY StateTypes, PaidUntilBounds
<1>2. \A d \in D : /\ m.Proposals[d].ClientCollateral \in Nat /\ m.Proposals[d].ProviderCollateral \in Nat
                   /\ m.Proposals[d].Client # m.Proposals[d].Provider
  BY <1>1, OfferAmounts
<1>3. Covered(n) /\ n.EscrowTable \in [Addrs -> Int] /\ n.LockedTable \in [Addrs -> Int]
  BY DEF BalanceStep, WorkingState
<1>4. ASSUME NEW a \in Addrs PROVE n.LockedTable[a] >= 0
  <2> DEFINE f == [d \in D |-> Owes(m, d, a)]
  <2>1. \A d \in D : f[d] \in Nat
    <3>1. \A d \in D : Owes(m, d, a) \in Nat
      BY <1>1, <1>2 DEF Owes
    <3> QED BY <3>1, ZenonT(60)
  <2>2. IsFiniteSet(D) /\ OwedBy(m, a) = SumOf(f, D) /\ f[id] = Owes(m, id, a)
    BY FiniteSets, ZenonT(60) DEF OwedBy
  <2> HIDE DEF f, D
  <2>3. id \in D /\ f[id] <= SumOf(f, D) /\ SumOf(f, D) \in Nat /\ f[id] \in Nat
    <3>1. id \in D
      BY DEF D
    <3> QED BY <2>1, <2>2, <3>1, SumNat
  <2>4. Owes(m, id, a) <= m.LockedTable[a] /\ m.LockedTable[a] \in Nat /\ Owes(m, id, a) \in Nat
    BY <2>2, <2>3 DEF Balanced
  <2>5. n.LockedTable[a] = m.LockedTable[a] - If(a = p.Client, fee + If(over, p.ClientCollateral))
                           - If(a = p.Provider, If(over, p.ProviderCollateral))
    BY ZenonT(60) DEF Released
  <2>6. FeeOwed(m, id) \in Nat /\ p.ClientCollateral \in Nat /\ p.ProviderCollateral \in Nat /\ p.Client # p.Provider
    BY <1>1, <1>2, <2>3, ZenonT(60)
  <2>7. Owes(m, id, a) = (IF p.Client = a THEN p.ClientCollateral + FeeOwed(m, id) ELSE 0)
                         + (IF p.Provider = a THEN p.ProviderCollateral ELSE 0)
    BY DEF Owes
  <2> HIDE DEF p
  <2> QED BY <2>4, <2>5, <2>6, <2>7 DEF If
<1> QED BY <1>3, <1>4 DEF Covered, NoNegativeBalance

-----------------------------------------------------------------------------
(* The books.                                                               *)

\* The history b agrees with s: a live deal has earned what it has been paid for, one that is over
\* what it ran for.
Booked(s, b) ==
    /\ DOMAIN s.Proposals \subseteq DOMAIN b
    /\ \A d \in DOMAIN b :
         /\ d < s.NextID
         /\ IF d \in DOMAIN s.Proposals
            THEN /\ b[d].deal = s.Proposals[d]
                 /\ b[d].earned = (PaidUntil(s, d) - b[d].deal.StartEpoch) * b[d].deal.StoragePricePerEpoch
            ELSE b[d].earned = Owing(b[d].deal, b[d].until)

\* BooksBalance and PaymentExact, strengthened: also of an open transaction, with terminations in
\* time, and with the deals of a batch numbered from the state's next ID on.
BooksInv ==
    /\ Balanced(st) /\ TerminatedBy(st, epoch) /\ Booked(st, book)
    /\ phase \in {"store", "cron"} => Balanced(msm) /\ TerminatedBy(msm, epoch)
    /\ phase = "store" =>
          /\ st.NextID <= msm.NextID
          /\ DOMAIN msm.Proposals = DOMAIN st.Proposals \cup (st.NextID .. msm.NextID - 1)
          /\ \A d \in DOMAIN st.Proposals : msm.Proposals[d] = st.Proposals[d]
    /\ phase = "cron" => Booked(msm, call.book)

\* n owes what m owes, and has locked as much.
SameOwing(m, n) ==
    /\ n.Proposals = m.Proposals /\ n.NextID = m.NextID
    /\ \A d \in DOMAIN n.Proposals : PaidUntil(n, d) = PaidUntil(m, d)
    /\ n.LockedTable = m.LockedTable /\ n.Totals = m.Totals

\* The books are right in every state, in an open transaction too.
LEMMA BooksInvAlways ==
    ASSUME LateTerminations = FALSE
    PROVE  Spec => []BooksInv
\* The constructor leaves empty books.
<1>InitBooks. Init => BooksInv
  <2> SUFFICES ASSUME Init PROVE BooksInv
    OBVIOUS
  <2>1. /\ DOMAIN st.Proposals = {} /\ DOMAIN st.States = {} /\ phase = "messages" /\ DOMAIN book = {}
        /\ st.LockedTable = [a \in Addrs |-> 0] /\ st.Totals = [r \in BalanceLockingReason |-> 0]
    BY DEF Init
  <2>2. \A a : OwedBy(st, a) = 0
    BY <2>1, SumEmpty DEF OwedBy
  <2>3. \A r : TotalOwed(st, r) = 0
    BY <2>1, SumEmpty DEF TotalOwed
  <2>4. Balanced(st)
    BY <2>1, <2>2, <2>3 DEF Balanced
  <2>5. TerminatedBy(st, epoch) /\ Booked(st, book)
    BY <2>1 DEF TerminatedBy, Booked
  <2> QED BY <2>1, <2>4, <2>5 DEF BooksInv
\* Every step of the market keeps the books, when terminations are reported in time.
<1>BooksInvInductive.
    ASSUME LateTerminations = FALSE
    PROVE  TypeInv /\ DealsInv /\ BooksInv /\ [Next]_vars => BooksInv'
  \* The history after the end of a deal.
  <2>BookedEnd.
      ASSUME NEW m, NEW n, NEW id \in DOMAIN m.Proposals, NEW b, NEW c, Booked(m, b),
             DOMAIN n.Proposals = DOMAIN m.Proposals \ {id}, OthersSame(m, n, id), n.NextID = m.NextID,
             DOMAIN c = DOMAIN b, \A d \in DOMAIN b \ {id} : c[d] = b[d],
             c[id].earned = Owing(c[id].deal, c[id].until)
      PROVE  Booked(n, c)
    <3> USE <2>BookedEnd
    <3>1. DOMAIN n.Proposals \subseteq DOMAIN c
      BY DEF Booked
    <3>2. ASSUME NEW d \in DOMAIN c
          PROVE  /\ d < n.NextID
                 /\ IF d \in DOMAIN n.Proposals
                    THEN /\ c[d].deal = n.Proposals[d]
                         /\ c[d].earned = (PaidUntil(n, d) - c[d].deal.StartEpoch) * c[d].deal.StoragePricePerEpoch
                    ELSE c[d].earned = Owing(c[d].deal, c[d].until)
      <4>1. d < n.NextID
        BY <3>2 DEF Booked
      <4>2. CASE d = id
        BY <4>1, <4>2
      <4>3. CASE d # id
        <5>1. c[d] = b[d] /\ (d \in DOMAIN n.Proposals <=> d \in DOMAIN m.Proposals)
          BY <4>3
        <5>2. d \in DOMAIN n.Proposals => n.Proposals[d] = m.Proposals[d] /\ PaidUntil(n, d) = PaidUntil(m, d)
          BY <4>3 DEF OthersSame
        <5>3. IF d \in DOMAIN m.Proposals
              THEN /\ b[d].deal = m.Proposals[d]
                   /\ b[d].earned = (PaidUntil(m, d) - b[d].deal.StartEpoch) * b[d].deal.StoragePricePerEpoch
              ELSE b[d].earned = Owing(b[d].deal, b[d].until)
          BY <3>2 DEF Booked
        <5> QED BY <4>1, <5>1, <5>2, <5>3
      <4> QED BY <4>2, <4>3
    <3> QED BY <3>1, <3>2, Zenon DEF Booked
  \* The history after a step that leaves what is owed.
  <2>BookedSame.
      ASSUME NEW m, NEW n, n.Proposals = m.Proposals, n.NextID = m.NextID,
             \A d \in DOMAIN n.Proposals : PaidUntil(n, d) = PaidUntil(m, d), NEW b, Booked(m, b)
      PROVE  Booked(n, b)
    <3> USE <2>BookedSame
    <3>1. ASSUME NEW d \in DOMAIN b
          PROVE  /\ d < n.NextID
                 /\ IF d \in DOMAIN n.Proposals
                    THEN /\ b[d].deal = n.Proposals[d]
                         /\ b[d].earned = (PaidUntil(n, d) - b[d].deal.StartEpoch) * b[d].deal.StoragePricePerEpoch
                    ELSE b[d].earned = Owing(b[d].deal, b[d].until)
      <4>1. /\ d < m.NextID
            /\ IF d \in DOMAIN m.Proposals
               THEN /\ b[d].deal = m.Proposals[d]
                    /\ b[d].earned = (PaidUntil(m, d) - b[d].deal.StartEpoch) * b[d].deal.StoragePricePerEpoch
               ELSE b[d].earned = Owing(b[d].deal, b[d].until)
        BY <3>1 DEF Booked
      <4> QED BY <4>1
    <3>2. DOMAIN n.Proposals \subseteq DOMAIN b
      BY DEF Booked
    <3> QED BY <3>1, <3>2, Zenon DEF Booked
  \* Storing a deal locks what it owes.
  <2>StoreBooks.
      ASSUME TypeInv, DealsInv, BooksInv, StoreDeal
      PROVE  BooksInv'
    <3> USE <2>StoreBooks
    <3> DEFINE deal == Head(call.validDeals)
               id == msm.NextID
               t == GenRandNextEpoch(deal.StartEpoch, id)
    <3>1. /\ phase = "store" /\ phase' = "store" /\ st' = st /\ epoch' = epoch /\ book' = book
          /\ StoreEffect /\ TypeInv'
      BY StoreType DEF StoreDeal
    <3>2. msm \in MarketState /\ msm' \in MarketState /\ deal \in Offers /\ id \in Nat /\ st.NextID \in Nat
      BY <3>1, StateTypes DEF TypeInv, TypeOK, StoreEffect
    <3>3. Published(msm, msm', deal, t) /\ SameBalances(lockClientAndProviderBalances(msm, deal), msm')
      BY <3>1 DEF Published, StoreEffect
    <3>4. WellFormed(msm)
      BY <3>1 DEF DealsInv, DealsOK
    <3>5. /\ Balanced(msm) /\ TerminatedBy(msm, epoch) /\ st.NextID <= msm.NextID
          /\ DOMAIN msm.Proposals = DOMAIN st.Proposals \cup (st.NextID .. msm.NextID - 1)
          /\ \A d \in DOMAIN st.Proposals : msm.Proposals[d] = st.Proposals[d]
          /\ Balanced(st) /\ TerminatedBy(st, epoch) /\ Booked(st, book)
      BY <3>1 DEF BooksInv
    <3>6. msm'.NextID = id + 1
      BY <3>3 DEF Published
    <3> HIDE DEF deal, t, id
    <3>7. /\ id \notin DOMAIN msm.Proposals /\ id \in DOMAIN msm'.Proposals
          /\ DOMAIN msm'.Proposals = DOMAIN msm.Proposals \cup {id}
          /\ msm'.Proposals[id] = deal
          /\ \A d \in DOMAIN msm.Proposals : msm'.Proposals[d] = msm.Proposals[d]
          /\ OthersSame(msm, msm', id)
          /\ FeeOwed(msm', id) = TotalStorageFee(deal)
          /\ TerminatedBy(msm', epoch)
      BY <3>2, <3>3, <3>4, <3>5, PublishedOthers, ZenonT(60) DEF id
    <3>8. Locked(msm, msm', deal)
      BY <3>2, <3>3, LockValues
    <3>9. Balanced(msm')
      BY <3>2, <3>5, <3>7, <3>8, BalancedPublication
    <3>10. DOMAIN msm'.Proposals = DOMAIN st.Proposals \cup (st.NextID .. msm'.NextID - 1)
      <4>1. st.NextID .. (id + 1) - 1 = (st.NextID .. id - 1) \cup {id}
        BY <3>2, <3>5 DEF id
      <4> QED BY <3>5, <3>6, <3>7, <4>1 DEF id
    <3>11. \A d \in DOMAIN st.Proposals : msm'.Proposals[d] = st.Proposals[d]
      BY <3>5, <3>7
    <3>12. st.NextID <= msm'.NextID
      BY <3>2, <3>5, <3>6 DEF id
    <3>13. Balanced(msm)' /\ TerminatedBy(msm, epoch)'
      BY <3>1, <3>7, <3>9
    <3>14. Balanced(st)' /\ TerminatedBy(st, epoch)' /\ Booked(st, book)'
      BY <3>1, <3>5
    <3> QED BY <3>1, <3>10, <3>11, <3>12, <3>13, <3>14 DEF BooksInv
  \* Committing a batch enters its deals in the history.
  <2>CommitPublishBooks.
      ASSUME TypeInv, DealsInv, BooksInv, CommitPublish
      PROVE  BooksInv'
    <3> USE <2>CommitPublishBooks
    <3> DEFINE new == st.NextID .. msm.NextID - 1
    <3>1. /\ phase = "store" /\ phase' = "messages" /\ st' = msm /\ epoch' = epoch
          /\ DOMAIN book' = DOMAIN book \cup new
          /\ \A d \in DOMAIN book : book'[d] = book[d]
          /\ \A d \in new \ DOMAIN book : book'[d] = [deal |-> msm.Proposals[d], earned |-> 0, until |-> EpochUndefined]
      BY DEF CommitPublish
    <3>2. msm \in MarketState /\ st \in MarketState /\ st.NextID \in Nat /\ msm.NextID \in Nat
      BY <3>1, StateTypes DEF TypeInv, TypeOK
    <3>3. /\ Balanced(msm) /\ TerminatedBy(msm, epoch) /\ st.NextID <= msm.NextID
          /\ DOMAIN msm.Proposals = DOMAIN st.Proposals \cup new
          /\ \A d \in DOMAIN st.Proposals : msm.Proposals[d] = st.Proposals[d]
          /\ Booked(st, book)
      BY <3>1 DEF BooksInv
    <3>4. /\ msm.States = st.States /\ DOMAIN st.States \subseteq DOMAIN st.Proposals
          /\ \A d \in DOMAIN st.Proposals : d < st.NextID
          /\ \A d \in DOMAIN msm.Proposals : d \in Nat /\ d < msm.NextID
      BY <3>1, <3>2, StateTypes, EpochTypes DEF DealsInv, DealsOK, WellFormed
    <3>5. book \in Book
      BY DEF TypeInv
    <3>6. \A d \in DOMAIN book : d \in Nat /\ d < st.NextID
      BY <3>3, <3>5, PartialFunctionType, EpochTypes DEF Booked, Book
    <3>7. \A d \in new : d \in Int /\ st.NextID <= d /\ d < msm.NextID /\ d \notin DOMAIN book /\ d \notin DOMAIN st.Proposals
      <4>1. \A d \in new : d \in Int /\ st.NextID <= d /\ d < msm.NextID
        BY <3>2
      <4> HIDE DEF new
      <4> QED BY <3>2, <3>3, <3>6, <4>1 DEF Booked
    <3> HIDE DEF new
    <3>8. DOMAIN msm.Proposals \subseteq DOMAIN book'
      BY <3>1, <3>3 DEF Booked
    <3>9. ASSUME NEW d \in DOMAIN book'
          PROVE  /\ d < msm.NextID
                 /\ IF d \in DOMAIN msm.Proposals
                    THEN /\ book'[d].deal = msm.Proposals[d]
                         /\ book'[d].earned = (PaidUntil(msm, d) - book'[d].deal.StartEpoch) * book'[d].deal.StoragePricePerEpoch
                    ELSE book'[d].earned = Owing(book'[d].deal, book'[d].until)
      <4>1. CASE d \in DOMAIN book
        <5>1. d < msm.NextID
          BY <3>2, <3>3, <3>6, <4>1
        <5>2. d \notin new /\ (d \in DOMAIN msm.Proposals <=> d \in DOMAIN st.Proposals) /\ book'[d] = book[d]
          BY <3>1, <3>3, <3>7, <4>1
        <5>3. d \in DOMAIN st.Proposals => PaidUntil(msm, d) = PaidUntil(st, d) /\ msm.Proposals[d] = st.Proposals[d]
          BY <3>3, <3>4 DEF PaidUntil
        <5>4. IF d \in DOMAIN st.Proposals
              THEN /\ book[d].deal = st.Proposals[d]
                   /\ book[d].earned = (PaidUntil(st, d) - book[d].deal.StartEpoch) * book[d].deal.StoragePricePerEpoch
              ELSE book[d].earned = Owing(book[d].deal, book[d].until)
          BY <3>3, <4>1 DEF Booked
        <5> QED BY <5>1, <5>2, <5>3, <5>4
      <4>2. CASE d \notin DOMAIN book
        <5>1. d \in new /\ d < msm.NextID /\ d \in DOMAIN msm.Proposals /\ d \notin DOMAIN msm.States
          BY <3>1, <3>3, <3>4, <3>7, <3>9, <4>2
        <5>2. book'[d].deal = msm.Proposals[d] /\ book'[d].earned = 0
          BY <3>1, <4>2, <5>1
        <5>3. PaidUntil(msm, d) = msm.Proposals[d].StartEpoch
          BY <5>1 DEF PaidUntil
        <5>4. msm.Proposals[d].StartEpoch \in Nat /\ msm.Proposals[d].StoragePricePerEpoch \in Nat
          BY <3>2, <5>1, StateTypes, OfferAmounts
        <5>5. \A x, y \in Nat : (x - x) * y = 0
          OBVIOUS
        <5> QED BY <5>1, <5>2, <5>3, <5>4, <5>5
      <4> QED BY <4>1, <4>2
    <3>10. Booked(msm, book')
      BY <3>8, <3>9, Zenon DEF Booked
    <3>11. Balanced(st)' /\ TerminatedBy(st, epoch)' /\ Booked(st, book)'
      BY <3>1, <3>3, <3>10
    <3> QED BY <3>1, <3>11 DEF BooksInv
  \* A deal that times out releases all it owed and has earned nothing.
  <2>TimeOutBooks.
      ASSUME TypeInv, DealsInv, BooksInv, NEW op, TimeOutDeal(op)
      PROVE  BooksInv'
    <3> USE <2>TimeOutBooks
    <3> DEFINE id == op[2]
               deal == msm.Proposals[id]
    <3>1. /\ phase = "cron" /\ phase' = "cron" /\ st' = st /\ epoch' = epoch /\ book' = book
          /\ TypeInv' /\ TimeOutEffect(op)
      BY TimeOutType, Zenon DEF TimeOutDeal
    <3>2. /\ msm \in MarketState /\ msm' \in MarketState /\ deal \in Offers
          /\ Settlement(msm, msm', deal, 0, TotalStorageFee(deal), TRUE, deal.ProviderCollateral)
      BY TimeOutSettles, Zenon
    <3>3. /\ id \in DOMAIN msm.Proposals /\ id \notin DOMAIN msm.States
          /\ msm'.Proposals = Without(msm.Proposals, id) /\ msm'.States = msm.States
          /\ msm'.PendingProposals = msm.PendingProposals \ {deal} /\ msm'.NextID = msm.NextID
          /\ msm'.LastCron = msm.LastCron
          /\ call'.book = [call.book EXCEPT ![id].until = deal.StartEpoch]
      BY <3>1 DEF TimeOutEffect
    <3>4. msm.States = Without(msm.States, id)
      <4>1. msm.States \in PartialFunctions(DealIDs, DealState)
        BY <3>2 DEF MarketState
      <4>2. PICK D : msm.States \in [D -> DealState]
        BY <4>1 DEF PartialFunctions
      <4> QED BY <3>3, <4>2 DEF Without
    <3>5. Ended(msm, msm', id)
      BY <3>3, <3>4 DEF Ended, SettledProposal, Updated
    <3>6. DOMAIN msm.States \subseteq DOMAIN msm.Proposals
      BY <3>1 DEF DealsInv, DealsOK, WellFormed
    <3>7. /\ Balanced(msm) /\ TerminatedBy(msm, epoch) /\ Booked(msm, call.book)
          /\ Balanced(st) /\ TerminatedBy(st, epoch) /\ Booked(st, book)
      BY <3>1 DEF BooksInv
    <3>8. /\ DOMAIN msm'.Proposals = DOMAIN msm.Proposals \ {id} /\ OthersSame(msm, msm', id)
          /\ TerminatedBy(msm', epoch)
      BY <3>5, <3>6, <3>7, EndedOthers
    <3>9. PaidUntil(msm, id) = deal.StartEpoch
      BY <3>3 DEF PaidUntil
    <3>10. FeeOwed(msm, id) = TotalStorageFee(deal)
      <4>1. \A x, y \in Int : x * y = y * x
        OBVIOUS
      <4>2. deal.EndEpoch - deal.StartEpoch \in Int /\ deal.StoragePricePerEpoch \in Int
        BY <3>2, OfferAmounts
      <4> QED BY <3>9, <4>1, <4>2 DEF FeeOwed, TotalStorageFee
    <3>11. Balanced(msm')
      <4>1. Released(msm, msm', deal, FeeOwed(msm, id), TRUE)
        BY <3>2, <3>10, Zenon DEF Settlement
      <4> QED BY <3>2, <3>3, <3>7, <3>8, <4>1, BalancedEnd, Zenon
    <3>12. Booked(msm', call'.book)
      <4> DEFINE b == call.book
                 c == call'.book
      <4>1. b \in Book /\ id \in DOMAIN b /\ b[id].deal = deal
            /\ b[id].earned = (deal.StartEpoch - deal.StartEpoch) * deal.StoragePricePerEpoch
        BY <3>1, <3>3, <3>7, <3>9 DEF TypeInv, CronCall, Booked
      <4>2. b[id] \in BookEntry
        BY <4>1, PartialFunctionType DEF Book
      <4>3. /\ DOMAIN c = DOMAIN b /\ \A d \in DOMAIN b \ {id} : c[d] = b[d]
            /\ c[id] = [b[id] EXCEPT !.until = deal.StartEpoch]
        BY <3>3, <4>1
      <4>4. c[id].deal = deal /\ c[id].earned = b[id].earned /\ c[id].until = deal.StartEpoch
        BY <4>1, <4>2, <4>3 DEF BookEntry
      <4>5. deal.StartEpoch \in Nat /\ deal.StoragePricePerEpoch \in Nat
        BY <3>2, OfferAmounts
      <4>6. Owing(deal, deal.StartEpoch) = b[id].earned
        <5>1. Max2(0, deal.StartEpoch - deal.StartEpoch) = deal.StartEpoch - deal.StartEpoch
          BY <4>5 DEF Max2
        <5> QED BY <4>1, <5>1 DEF Owing
      <4>7. c[id].earned = Owing(c[id].deal, c[id].until)
        BY <4>4, <4>6
      <4> HIDE DEF b, c
      <4>8. Booked(msm, b)
        BY <3>7 DEF b
      <4>9. Booked(msm', c)
        <5>1. id \in DOMAIN msm.Proposals /\ msm'.NextID = msm.NextID
          BY <3>3
        <5>2. DOMAIN msm'.Proposals = DOMAIN msm.Proposals \ {id} /\ OthersSame(msm, msm', id)
          BY <3>8
        <5>3. DOMAIN c = DOMAIN b /\ \A d \in DOMAIN b \ {id} : c[d] = b[d]
          BY <4>3
        <5> QED BY <4>7, <4>8, <5>1, <5>2, <5>3, <2>BookedEnd
      <4> QED BY <4>9 DEF c
    <3>13. /\ Balanced(msm)' /\ TerminatedBy(msm, epoch)' /\ Booked(msm, call.book)'
           /\ Balanced(st)' /\ TerminatedBy(st, epoch)' /\ Booked(st, book)'
      BY <3>1, <3>7, <3>8, <3>11, <3>12
    <3> QED BY <3>1, <3>13 DEF BooksInv
  \* An update pays for the time since the last one, and the end of a deal releases the rest.
  <2>UpdateBooks.
      ASSUME TypeInv, DealsInv, BooksInv, NEW op, UpdateDeal(op)
      PROVE  BooksInv'
    \* The history after an update of a deal.
    <3>BookedUpdate.
        ASSUME NEW m, NEW n, NEW id \in DOMAIN m.Proposals, NEW b, NEW c, Booked(m, b),
               n.Proposals = m.Proposals, OthersSame(m, n, id), n.NextID = m.NextID,
               DOMAIN c = DOMAIN b, \A d \in DOMAIN b \ {id} : c[d] = b[d], c[id].deal = b[id].deal,
               c[id].earned = (PaidUntil(n, id) - b[id].deal.StartEpoch) * b[id].deal.StoragePricePerEpoch
        PROVE  Booked(n, c)
      <4> USE <3>BookedUpdate
      <4>1. DOMAIN n.Proposals \subseteq DOMAIN c
        BY DEF Booked
      <4>2. ASSUME NEW d \in DOMAIN c
            PROVE  /\ d < n.NextID
                   /\ IF d \in DOMAIN n.Proposals
                      THEN /\ c[d].deal = n.Proposals[d]
                           /\ c[d].earned = (PaidUntil(n, d) - c[d].deal.StartEpoch) * c[d].deal.StoragePricePerEpoch
                      ELSE c[d].earned = Owing(c[d].deal, c[d].until)
        <5>1. d < n.NextID
          BY <4>2 DEF Booked
        <5>2. IF d \in DOMAIN m.Proposals
              THEN /\ b[d].deal = m.Proposals[d]
                   /\ b[d].earned = (PaidUntil(m, d) - b[d].deal.StartEpoch) * b[d].deal.StoragePricePerEpoch
              ELSE b[d].earned = Owing(b[d].deal, b[d].until)
          BY <4>2 DEF Booked
        <5>3. CASE d = id
          BY <5>1, <5>2, <5>3
        <5>4. CASE d # id
          <6>1. c[d] = b[d]
            BY <5>4
          <6>2. d \in DOMAIN n.Proposals => PaidUntil(n, d) = PaidUntil(m, d)
            BY <5>4 DEF OthersSame
          <6> QED BY <5>1, <5>2, <6>1, <6>2
        <5> QED BY <5>3, <5>4
      <4> QED BY <4>1, <4>2, Zenon DEF Booked
    <3> USE <2>UpdateBooks
    <3> DEFINE id == op[2]
               deal == msm.Proposals[id]
               state == msm.States[id]
               pay == totalPayment(state, deal)
               paid == (PaidUntil(msm, id) - deal.StartEpoch) * deal.StoragePricePerEpoch
               until == IF everSlashed(state) THEN state.SlashEpoch ELSE deal.EndEpoch
               b == call.book
               c == call'.book
    <3>1. /\ phase = "cron" /\ phase' = "cron" /\ st' = st /\ epoch' = epoch /\ book' = book
          /\ TypeInv' /\ UpdateEffect(op) /\ epoch \in Epochs
      BY UpdateType, Zenon DEF UpdateDeal, TypeInv, TypeOK
    <3>2. /\ msm \in MarketState /\ msm' \in MarketState /\ deal \in Offers /\ state \in DealState
          /\ Settlement(msm, msm', deal, pay, FeeReleased(state, deal), removeDeal(state, deal),
                        If(everSlashed(state), deal.ProviderCollateral))
          /\ pay \in Nat
      BY UpdateSettles
    <3>3. /\ id \in DOMAIN msm.Proposals /\ id \in DOMAIN msm.States /\ epoch >= deal.StartEpoch
          /\ msm'.NextID = msm.NextID /\ msm'.LastCron = msm.LastCron
          /\ msm'.PendingProposals = IF Updated(msm, id) THEN msm.PendingProposals
                                     ELSE msm.PendingProposals \ {deal}
      BY <3>1, ZenonT(60) DEF UpdateEffect, Updated
    <3>4. DOMAIN msm.States \subseteq DOMAIN msm.Proposals /\ UpdatedBy(msm, epoch)
      BY <3>1 DEF DealsInv, DealsOK, WellFormed
    <3>5. /\ Balanced(msm) /\ TerminatedBy(msm, epoch) /\ Booked(msm, b)
          /\ Balanced(st) /\ TerminatedBy(st, epoch) /\ Booked(st, book)
      BY <3>1 DEF BooksInv
    <3>6. /\ removeDeal(state, deal) =>
               /\ FeeReleased(state, deal) = FeeOwed(msm, id)
               /\ paid + pay = Owing(deal, until)
          /\ ~removeDeal(state, deal) =>
               /\ FeeReleased(state, deal) = FeeOwed(msm, id) - (deal.EndEpoch - epoch) * deal.StoragePricePerEpoch
               /\ paid + pay = (epoch - deal.StartEpoch) * deal.StoragePricePerEpoch
      BY <3>1, <3>2, <3>3, <3>4, <3>5, UpdateFees, ZenonT(60)
    <3>7. b \in Book /\ id \in DOMAIN b /\ b[id].deal = deal /\ b[id].earned = paid
      BY <3>1, <3>3, <3>5 DEF TypeInv, CronCall, Booked
    <3>8. b[id] \in BookEntry
      BY <3>7, PartialFunctionType DEF Book
    <3>9. CASE removeDeal(state, deal)
      <4>1. Ended(msm, msm', id)
        BY <3>1, <3>3, <3>9 DEF UpdateEffect, Ended, SettledProposal
      <4>2. /\ DOMAIN msm'.Proposals = DOMAIN msm.Proposals \ {id} /\ OthersSame(msm, msm', id)
            /\ TerminatedBy(msm', epoch)
        BY <3>4, <3>5, <4>1, EndedOthers
      <4>3. Balanced(msm')
        <5>1. Released(msm, msm', deal, FeeOwed(msm, id), TRUE)
          BY <3>2, <3>6, <3>9, Zenon DEF Settlement
        <5> QED BY <3>2, <3>3, <3>5, <4>2, <5>1, BalancedEnd, Zenon
      <4>4. c = [b EXCEPT ![id] = [deal |-> @.deal, earned |-> @.earned + pay, until |-> until]]
        BY <3>1, <3>9 DEF UpdateEffect
      <4> HIDE DEF until, pay, paid
      <4>5. /\ DOMAIN c = DOMAIN b /\ \A d \in DOMAIN b \ {id} : c[d] = b[d]
            /\ c[id].deal = deal /\ c[id].earned = paid + pay /\ c[id].until = until
        BY <3>7, <4>4
      <4> HIDE DEF b, c
      <4>6. c[id].earned = Owing(c[id].deal, c[id].until)
        BY <3>6, <3>9, <4>5, ZenonT(60)
      <4>7. Booked(msm', c)
        BY <3>3, <3>5, <4>2, <4>5, <4>6, <2>BookedEnd, ZenonT(60)
      <4>8. /\ Balanced(msm)' /\ TerminatedBy(msm, epoch)' /\ Booked(msm, call.book)'
            /\ Balanced(st)' /\ TerminatedBy(st, epoch)' /\ Booked(st, book)'
        BY <3>1, <3>5, <4>2, <4>3, <4>7 DEF c
      <4> QED BY <3>1, <4>8 DEF BooksInv
    <3>10. CASE ~removeDeal(state, deal)
      <4>1. Marked(msm, msm', id, epoch)
        BY <3>1, <3>3, <3>10 DEF UpdateEffect, Marked, SettledProposal
      <4>2. ~everSlashed(state)
        BY <3>10 DEF removeDeal
      <4>3. /\ msm'.Proposals = msm.Proposals /\ OthersSame(msm, msm', id) /\ PaidUntil(msm', id) = epoch
            /\ TerminatedBy(msm', epoch)
        <5>1. msm \in MarketState /\ epoch \in Epochs
          BY <3>1, <3>2
        <5>2. id \in DOMAIN msm.Proposals /\ id \in DOMAIN msm.States /\ epoch >= deal.StartEpoch
          BY <3>3
        <5>3. TerminatedBy(msm, epoch)
          BY <3>5
        <5> QED BY <4>1, <4>2, <5>1, <5>2, <5>3, MarkedOthers
      <4>4. FeeOwed(msm', id) = (deal.EndEpoch - epoch) * deal.StoragePricePerEpoch
        BY <4>3 DEF FeeOwed
      <4>5. Balanced(msm')
        <5>1. Released(msm, msm', deal, FeeOwed(msm, id) - FeeOwed(msm', id), FALSE)
          <6>1. removeDeal(state, deal) = FALSE
            BY <3>10 DEF removeDeal
          <6>2. Released(msm, msm', deal, FeeReleased(state, deal), FALSE)
            BY <3>2, <6>1, Zenon DEF Settlement
          <6>3. FeeReleased(state, deal) = FeeOwed(msm, id) - FeeOwed(msm', id)
            BY <3>6, <3>10, <4>4, ZenonT(60)
          <6> QED BY <6>2, <6>3, Zenon
        <5> QED BY <3>2, <3>3, <3>5, <4>3, <5>1, BalancedUpdate, Zenon
      <4>6. c = [b EXCEPT ![id].earned = @ + pay]
        BY <3>1, <3>10 DEF UpdateEffect
      <4> HIDE DEF pay, paid
      <4>7. /\ DOMAIN c = DOMAIN b /\ \A d \in DOMAIN b \ {id} : c[d] = b[d]
            /\ c[id].deal = b[id].deal /\ c[id].earned = paid + pay
        BY <3>7, <3>8, <4>6 DEF BookEntry
      <4> HIDE DEF b, c
      <4>8. c[id].earned = (PaidUntil(msm', id) - b[id].deal.StartEpoch) * b[id].deal.StoragePricePerEpoch
        BY <3>6, <3>7, <3>10, <4>3, <4>7, ZenonT(60)
      <4>9. Booked(msm', c)
        BY <3>3, <3>5, <4>3, <4>7, <4>8, <3>BookedUpdate, ZenonT(60)
      <4>10. /\ Balanced(msm)' /\ TerminatedBy(msm, epoch)' /\ Booked(msm, call.book)'
            /\ Balanced(st)' /\ TerminatedBy(st, epoch)' /\ Booked(st, book)'
        BY <3>1, <3>5, <4>3, <4>5, <4>9 DEF c
      <4> QED BY <3>1, <4>10 DEF BooksInv
    <3> QED BY <3>9, <3>10
  \* A step that owes the same keeps the books.
  <2>SameBooks.
      ASSUME NEW m, NEW n, SameOwing(m, n), NEW b, Balanced(m), Booked(m, b)
      PROVE  Balanced(n) /\ Booked(n, b)
    BY <2>SameBooks, BalancedSame, <2>BookedSame DEF SameOwing
  \* The same deal states owe the same.
  <2>StatesOweTheSame.
      ASSUME NEW m, NEW n, n.Proposals = m.Proposals, n.NextID = m.NextID, n.States = m.States,
             n.LockedTable = m.LockedTable, n.Totals = m.Totals
      PROVE  SameOwing(m, n) /\ \A e : TerminatedBy(m, e) => TerminatedBy(n, e)
    BY <2>StatesOweTheSame DEF SameOwing, PaidUntil, TerminatedBy
  \* Activation starts no payment.
  <2>ActivateBooks.
      ASSUME TypeInv, DealsInv, BooksInv, NEW miner, NEW ids, NEW expiry, ActivateDeals(miner, ids, expiry)
      PROVE  BooksInv'
    <3> USE <2>ActivateBooks
    <3>1. /\ phase' = "messages" /\ epoch' = epoch /\ book' = book /\ st \in MarketState
          /\ Balanced(st) /\ TerminatedBy(st, epoch) /\ Booked(st, book)
      BY DEF ActivateDeals, BooksInv, TypeInv, TypeOK
    <3>2. /\ ids \subseteq DOMAIN st.Proposals /\ ids \cap DOMAIN st.States = {}
          /\ DOMAIN st'.States = DOMAIN st.States \cup ids
          /\ \A d \in ids : st'.States[d].LastUpdatedEpoch = -1 /\ st'.States[d].SlashEpoch = -1
          /\ \A d \in DOMAIN st.States : st'.States[d] = st.States[d]
          /\ st'.Proposals = st.Proposals /\ st'.NextID = st.NextID
          /\ st'.LockedTable = st.LockedTable /\ st'.Totals = st.Totals
      BY ActivateEffect DEF EpochUndefined
    <3>3. ASSUME NEW d \in DOMAIN st.Proposals PROVE PaidUntil(st', d) = PaidUntil(st, d)
      <4>1. st.Proposals[d].StartEpoch \in Nat
        BY <3>1, StateTypes, OfferAmounts
      <4>2. CASE d \in ids
        <5>1. d \in DOMAIN st'.States /\ d \notin DOMAIN st.States
          BY <3>2, <4>2
        <5>2. PaidUntil(st', d) = Max2(st.Proposals[d].StartEpoch, -1) /\ PaidUntil(st, d) = st.Proposals[d].StartEpoch
          BY <3>2, <4>2, <5>1 DEF PaidUntil
        <5> QED BY <4>1, <5>2 DEF Max2
      <4>3. CASE d \notin ids
        BY <3>2, <4>3 DEF PaidUntil
      <4> QED BY <4>2, <4>3
    <3>4. SameOwing(st, st')
      BY <3>2, <3>3 DEF SameOwing
    <3>5. TerminatedBy(st', epoch)
      BY <3>1, <3>2 DEF TerminatedBy, everSlashed, EpochUndefined
    <3>6. Balanced(st)' /\ Booked(st, book)' /\ TerminatedBy(st, epoch)'
      BY <3>1, <3>4, <3>5, <2>SameBooks
    <3> QED BY <3>1, <3>6 DEF BooksInv
  \* A termination reported before the next tick comes after all the payments.
  <2>TerminateBooks.
      ASSUME LateTerminations = FALSE, TypeInv, DealsInv, BooksInv,
             NEW miner, NEW e \in Epochs, NEW ids, OnMinerSectorsTerminate(miner, e, ids)
      PROVE  BooksInv'
    <3> USE <2>TerminateBooks
    <3>1. /\ phase = "messages" /\ phase' = "messages" /\ epoch' = epoch /\ book' = book /\ st \in MarketState
          /\ Balanced(st) /\ TerminatedBy(st, epoch) /\ Booked(st, book)
          /\ e <= epoch /\ e >= st.LastCron
      BY DEF OnMinerSectorsTerminate, TerminationEpochPossible, BooksInv, TypeInv, TypeOK
    <3>2. /\ DOMAIN st'.States = DOMAIN st.States
          /\ \A d \in DOMAIN st.States :
                 /\ st'.States[d].LastUpdatedEpoch = st.States[d].LastUpdatedEpoch
                 /\ \/ st'.States[d].SlashEpoch = st.States[d].SlashEpoch
                    \/ /\ st'.States[d].SlashEpoch = e
                       /\ d \in DOMAIN st.Proposals /\ st.Proposals[d].EndEpoch > e
          /\ st'.Proposals = st.Proposals /\ st'.NextID = st.NextID
          /\ st'.LockedTable = st.LockedTable /\ st'.Totals = st.Totals
      BY TerminateEffect
    <3>3. \A d \in DOMAIN st.Proposals : PaidUntil(st', d) = PaidUntil(st, d)
      BY <3>2 DEF PaidUntil
    <3>4. SameOwing(st, st')
      BY <3>2, <3>3 DEF SameOwing
    <3>5. ASSUME NEW d \in DOMAIN st'.States, everSlashed(st'.States[d])
          PROVE  /\ st'.States[d].SlashEpoch <= epoch
                 /\ st'.States[d].SlashEpoch < st'.Proposals[d].EndEpoch
                 /\ st'.States[d].LastUpdatedEpoch <= st'.States[d].SlashEpoch
      <4>1. CASE st'.States[d].SlashEpoch = st.States[d].SlashEpoch
        BY <3>1, <3>2, <3>5, <4>1, ZenonT(60) DEF TerminatedBy, everSlashed
      <4>2. CASE st'.States[d].SlashEpoch = e /\ d \in DOMAIN st.Proposals /\ st.Proposals[d].EndEpoch > e
        <5>1. /\ d \in DOMAIN st.States /\ e \in Nat /\ st.Proposals[d].EndEpoch \in Nat
              /\ st.States[d].LastUpdatedEpoch \in Int /\ st.LastCron \in Int
          BY <3>1, <3>2, <4>2, StateTypes, EpochTypes, OfferAmounts
        <5>2. UpdatedBy(st, st.LastCron)
          BY ZenonT(60) DEF DealsInv, DealsOK
        <5>3. st.States[d].LastUpdatedEpoch <= e
          BY <3>1, <5>1, <5>2, EpochTypes DEF UpdatedBy, Updated
        <5> QED BY <3>1, <3>2, <4>2, <5>1, <5>3
      <4> QED BY <3>2, <4>1, <4>2
    <3>6. TerminatedBy(st', epoch)
      BY <3>5 DEF TerminatedBy
    <3>7. Balanced(st)' /\ Booked(st, book)' /\ TerminatedBy(st, epoch)'
      BY <3>1, <3>4, <3>6, <2>SameBooks
    <3> QED BY <3>1, <3>7 DEF BooksInv
  <2> USE <1>BooksInvInductive
  <2> SUFFICES ASSUME TypeInv, DealsInv, BooksInv, [Next]_vars PROVE BooksInv'
    OBVIOUS
  <2>0. /\ st \in MarketState /\ epoch \in Nat
        /\ Balanced(st) /\ TerminatedBy(st, epoch) /\ Booked(st, book)
    BY EpochTypes DEF TypeInv, TypeOK, BooksInv
  <2>1. CASE \E a \in Addrs : \E v : AddBalance(a, v) \/ WithdrawBalance(a, v)
    <3>1. /\ phase' = "messages" /\ epoch' = epoch /\ book' = book
          /\ st'.Proposals = st.Proposals /\ st'.NextID = st.NextID /\ st'.States = st.States
          /\ st'.LockedTable = st.LockedTable /\ st'.Totals = st.Totals
      BY <2>0, <2>1 DEF AddBalance, WithdrawBalance, MarketState
    <3>2. SameOwing(st, st') /\ TerminatedBy(st', epoch)
      BY <2>0, <3>1, <2>StatesOweTheSame
    <3>3. Balanced(st)' /\ Booked(st, book)' /\ TerminatedBy(st, epoch)'
      BY <2>0, <3>1, <3>2, <2>SameBooks
    <3> QED BY <3>1, <3>3 DEF BooksInv
  <2>2. CASE \/ \E deals \in Batches : PublishStorageDeals(deals)
             \/ \E inBounds, ok \in BOOLEAN : FilterDeal(inBounds, ok)
             \/ AbortPublish \/ AbortCron
    <3>1. st' = st /\ epoch' = epoch /\ book' = book /\ phase' \notin {"store", "cron"}
      BY <2>2, Zenon DEF PublishStorageDeals, FilterDeal, AbortPublish, AbortCron
    <3>2. Balanced(st)' /\ Booked(st, book)' /\ TerminatedBy(st, epoch)'
      BY <2>0, <3>1
    <3> QED BY <3>1, <3>2 DEF BooksInv
  <2>3. CASE OpenPublish
    <3>1. st' = st /\ epoch' = epoch /\ book' = book /\ phase' = "store" /\ msm' = st
      BY <2>3 DEF OpenPublish
    <3>2. /\ Balanced(st)' /\ Booked(st, book)' /\ TerminatedBy(st, epoch)'
          /\ Balanced(msm)' /\ TerminatedBy(msm, epoch)'
      BY <2>0, <3>1
    <3>3. st.NextID .. (st.NextID - 1) = {} /\ st.NextID <= st.NextID
      BY <2>0, StateTypes
    <3> QED BY <3>1, <3>2, <3>3 DEF BooksInv
  <2>4. CASE StoreDeal
    BY <2>4, <2>StoreBooks
  <2>5. CASE CommitPublish
    BY <2>5, <2>CommitPublishBooks
  <2>6. CASE \E miner, ids, expiry : ActivateDeals(miner, ids, expiry)
    BY <2>6, <2>ActivateBooks
  <2>7. CASE \E miner, ids : \E e \in Epochs : OnMinerSectorsTerminate(miner, e, ids)
    BY <2>7, <2>TerminateBooks, Zenon
  <2>8. CASE CronTick
    <3>1. st' = st /\ epoch' = epoch /\ book' = book /\ phase' = "cron" /\ msm' = st /\ call'.book = book
      BY <2>8 DEF CronTick
    <3>2. /\ Balanced(st)' /\ Booked(st, book)' /\ TerminatedBy(st, epoch)'
          /\ Balanced(msm)' /\ TerminatedBy(msm, epoch)' /\ Booked(msm, call.book)'
      BY <2>0, <3>1
    <3> QED BY <3>1, <3>2 DEF BooksInv
  <2>9. CASE \E op : TimeOutDeal(op)
    BY <2>9, <2>TimeOutBooks
  <2>10. CASE \E op : UpdateDeal(op)
    BY <2>10, <2>UpdateBooks
  <2>11. CASE CommitCron
    <3>1. phase = "cron" /\ phase' = "ticked" /\ msm \in MarketState /\ epoch' = epoch /\ book' = call.book
      BY <2>11 DEF CommitCron, TypeInv, TypeOK
    <3>2. /\ st'.Proposals = msm.Proposals /\ st'.NextID = msm.NextID /\ st'.States = msm.States
          /\ st'.LockedTable = msm.LockedTable /\ st'.Totals = msm.Totals
      BY <2>11, <3>1 DEF CommitCron, MarketState
    <3>3. Balanced(msm) /\ TerminatedBy(msm, epoch) /\ Booked(msm, call.book)
      BY <3>1 DEF BooksInv
    <3>4. SameOwing(msm, st') /\ TerminatedBy(st', epoch)
      BY <3>2, <3>3, <2>StatesOweTheSame
    <3>5. Balanced(st)' /\ Booked(st, book)' /\ TerminatedBy(st, epoch)'
      BY <3>1, <3>3, <3>4, <2>SameBooks
    <3> QED BY <3>1, <3>5 DEF BooksInv
  <2>12. ASSUME NEW n \in 1 .. MaxNullRounds + 1, NextEpoch(n) PROVE BooksInv'
    <3>1. /\ phase' = "messages" /\ st' = st /\ epoch' = epoch + n /\ n \in Nat /\ book' = book
      BY <2>12, BoundsAssumption DEF NextEpoch
    <3>2. \A d \in DOMAIN st.States : st.States[d].SlashEpoch \in Int
      BY <2>0, StateTypes, EpochTypes
    <3>3. TerminatedBy(st, epoch + n)
      BY <2>0, <3>1, <3>2 DEF TerminatedBy
    <3>4. Balanced(st)' /\ Booked(st, book)' /\ TerminatedBy(st, epoch)'
      BY <2>0, <3>1, <3>3
    <3> QED BY <3>1, <3>4 DEF BooksInv
  <2>13. CASE Horizon \/ UNCHANGED vars
    <3>1. /\ st' = st /\ msm' = msm /\ call' = call /\ epoch' = epoch /\ book' = book /\ phase' = phase
      BY <2>13 DEF Horizon, vars
    <3>2. Balanced(st)' /\ Booked(st, book)' /\ TerminatedBy(st, epoch)'
      BY <2>0, <3>1
    <3>3. phase \in {"store", "cron"} => Balanced(msm)' /\ TerminatedBy(msm, epoch)'
      BY <3>1 DEF BooksInv
    <3>4. phase = "cron" => Booked(msm, call.book)'
      BY <3>1 DEF BooksInv
    <3> QED BY <3>1, <3>2, <3>3, <3>4, ZenonT(60) DEF BooksInv
  <2> QED
    BY <2>1, <2>2, <2>3, <2>4, <2>5, <2>6, <2>7, <2>8, <2>9, <2>10, <2>11, <2>12, <2>13
       DEF Next, EndCron
<1>1. TypeInv /\ DealsInv /\ BooksInv /\ [Next]_vars => BooksInv'
  BY <1>BooksInvInductive, Zenon
<1> QED BY <1>1, <1>InitBooks, TypeInvAlways, DealsInvAlways, PTL DEF Spec

\* When miners report terminations in the epoch they happen, as the miner actor's cron does, what is
\* locked for each account and each total by reason is always exactly what the live deals owe:
\* no update, slash, expiry or time-out leaves funds locked for no deal or releases another's.
THEOREM BooksAlwaysBalance ==
    ASSUME LateTerminations = FALSE
    PROVE  Spec => []BooksBalance
<1>1. BooksInv /\ FundsInv => BooksBalance
  BY DEF BooksInv, Balanced, FundsInv, Solvent, BooksBalance
<1>2. Spec => []BooksInv
  BY BooksInvAlways, Zenon
<1> QED BY <1>1, <1>2, FundsInvAlways, PTL

\* Under the same assumption a provider earns exactly the time its deal ran, at the deal's price,
\* however the updates were spaced, and is never paid ahead.
THEOREM PaymentsExact ==
    ASSUME LateTerminations = FALSE
    PROVE  Spec => []PaymentExact
<1>1. TypeInv /\ DealsInv /\ BooksInv => PaymentExact
  <2> SUFFICES ASSUME TypeInv, DealsInv, BooksInv, NEW d \in DOMAIN book
               PROVE  IF d \in DOMAIN st.Proposals
                      THEN book[d].earned <= Owing(book[d].deal, Min2(epoch, book[d].deal.EndEpoch))
                      ELSE book[d].earned = Owing(book[d].deal, book[d].until)
    BY Zenon DEF PaymentExact, Owing
  <2>1. /\ st \in MarketState /\ epoch \in Nat /\ Booked(st, book)
        /\ UpdatedBy(st, st.LastCron) /\ st.LastCron <= epoch /\ st.LastCron \in Int
    BY StateTypes, EpochTypes DEF TypeInv, TypeOK, BooksInv, DealsInv, DealsOK
  <2>2. CASE d \notin DOMAIN st.Proposals
    BY <2>1, <2>2 DEF Booked
  <2>3. CASE d \in DOMAIN st.Proposals
    <3> DEFINE deal == st.Proposals[d]
               until == PaidUntil(st, d)
               cap == Min2(epoch, deal.EndEpoch)
               p == deal.StoragePricePerEpoch
    <3>1. book[d].deal = deal /\ book[d].earned = (until - deal.StartEpoch) * p
      BY <2>1, <2>3 DEF Booked
    <3>2. /\ deal.StartEpoch \in Nat /\ deal.EndEpoch \in Nat /\ p \in Nat /\ deal.StartEpoch < deal.EndEpoch
      BY <2>1, <2>3, StateTypes, OfferAmounts
    <3>3. UpdatedBy(st, epoch)
      <4>1. \A x \in DOMAIN st.States : st.States[x].LastUpdatedEpoch \in Int
        BY <2>1, StateTypes, EpochTypes
      <4> QED BY <2>1, <4>1 DEF UpdatedBy
    <3>4. /\ until \in Nat /\ deal.StartEpoch <= until /\ until < deal.EndEpoch
          /\ epoch >= deal.StartEpoch => until <= epoch
      BY <2>1, <2>3, <3>3, PaidUntilBounds
    <3> HIDE DEF until, p
    <3>5. CASE epoch >= deal.StartEpoch
      <4>1. cap \in Nat /\ until <= cap /\ Max2(0, cap - deal.StartEpoch) = cap - deal.StartEpoch
        BY <2>1, <3>2, <3>4, <3>5 DEF Min2, Max2
      <4>2. (until - deal.StartEpoch) * p + (cap - until) * p = (cap - deal.StartEpoch) * p
        BY <3>2, <3>4, <4>1, PriceSums
      <4>3. cap - until \in Nat
        BY <3>4, <4>1
      <4>4. (cap - until) * p \in Nat
        BY <3>2, <4>3, PriceNat
      <4>5. (until - deal.StartEpoch) * p \in Int
        BY <3>2, <3>4, PriceSums
      <4>6. (until - deal.StartEpoch) * p <= (cap - deal.StartEpoch) * p
        BY <4>2, <4>4, <4>5
      <4> QED BY <2>3, <3>1, <4>1, <4>6 DEF Owing, p
    <3>6. CASE ~(epoch >= deal.StartEpoch)
      <4>1. until = deal.StartEpoch
        <5>1. d \in DOMAIN st.States => st.States[d].LastUpdatedEpoch \in Int
                /\ (st.States[d].LastUpdatedEpoch = -1 \/ (deal.StartEpoch <= st.States[d].LastUpdatedEpoch
                                                       /\ st.States[d].LastUpdatedEpoch <= epoch))
          BY <2>1, <3>3, StateTypes, EpochTypes DEF UpdatedBy, Updated
        <5> QED BY <2>1, <3>2, <3>6, <5>1 DEF until, PaidUntil, Max2
      <4>2. Max2(0, cap - deal.StartEpoch) = 0 /\ until - deal.StartEpoch = 0
        BY <2>1, <3>2, <3>6, <4>1 DEF Max2, Min2
      <4>3. 0 * p = 0
        BY <3>2
      <4> QED BY <2>3, <3>1, <4>2, <4>3 DEF Owing, p
    <3> QED BY <3>5, <3>6
  <2> QED BY <2>2, <2>3
<1>2. Spec => []BooksInv
  BY BooksInvAlways, Zenon
<1> QED BY <1>1, <1>2, TypeInvAlways, DealsInvAlways, PTL

-----------------------------------------------------------------------------
(* No operation of a tick fails.                                           *)

\* No tick fails.
LEMMA TickSucceeds ==
    ASSUME TypeInv, EscrowInv, DealsInv, FundsInv, BooksInv
    PROVE  ~CronFails
<1> SUFFICES ASSUME phase = "cron" PROVE ~CronFails
  BY DEF CronFails
<1>1. /\ msm \in MarketState /\ call.amountSlashed \in Nat /\ call.due \subseteq Nat \X DealIDs
      /\ epoch \in Epochs /\ epoch \in Nat
  BY EpochTypes DEF TypeInv, TypeOK, CronCall
<1>2. Covered(msm) /\ Balanced(msm) /\ TerminatedBy(msm, epoch)
  BY DEF EscrowInv, BooksInv
<1>3. WellFormed(msm) /\ UpdatedBy(msm, epoch) /\ Scheduled(msm, CronOps) /\ \A op \in call.due : op[1] <= epoch
  BY DEF DealsInv, DealsOK
<1>4. ~(call.amountSlashed > balance)
  <2>1. SumOf(msm.EscrowTable, Addrs) \in Nat
    BY <1>1, EscrowTypes, FiniteSets, SumNat
  <2> QED BY <1>1, <2>1 DEF FundsInv
<1>5. ASSUME NEW op \in NextOps PROVE ~DealOpFails(op[2])
  <2> DEFINE id == op[2]
             deal == msm.Proposals[id]
             state == msm.States[id]
  <2>1. op \in CronOps /\ op[1] <= epoch /\ op[1] \in Nat
    BY <1>1, <1>3 DEF NextOps, CronOps
  <2>2. id \in DOMAIN msm.Proposals /\ op[1] >= deal.StartEpoch
    BY <1>3, <2>1 DEF Scheduled
  <2>3. deal \in Offers /\ deal.StartEpoch \in Nat /\ msm \in WorkingState
    BY <1>1, <2>2, StateTypes, OfferAmounts, WorkingStates
  <2>4. epoch >= deal.StartEpoch
    BY <1>1, <2>1, <2>2, <2>3
  <2>5. ~Updated(msm, id) => deal \in msm.PendingProposals
    BY <1>3, <2>2 DEF WellFormed
  <2> HIDE DEF id
  <2>6. CASE id \notin DOMAIN msm.States
    <3> DEFINE n == processDealInitTimedOut(msm, deal)
    <3>1. TotalStorageFee(deal) = FeeOwed(msm, id) /\ TotalStorageFee(deal) \in Int
      <4>1. PaidUntil(msm, id) = deal.StartEpoch
        BY <2>6 DEF PaidUntil
      <4>2. \A x, y \in Int : x * y = y * x /\ x * y \in Int
        OBVIOUS
      <4>3. deal.EndEpoch - deal.StartEpoch \in Int /\ deal.StoragePricePerEpoch \in Int
        BY <2>3, OfferAmounts
      <4> QED BY <4>1, <4>2, <4>3 DEF FeeOwed, TotalStorageFee
    <3>2. BalanceStep(msm, n) /\ Released(msm, n, deal, TotalStorageFee(deal), TRUE)
      BY <2>3, TimeOutStep, TimeOutValues, ZenonT(60)
    <3>3. TotalStorageFee(deal) <= FeeOwed(msm, id)
      BY <3>1
    <3> HIDE DEF n
    <3>4. NoNegativeBalance(n)
      BY <1>1, <1>2, <1>3, <2>2, <3>1, <3>2, <3>3, NothingOverdrawn, ZenonT(60)
    <3>5. deal \in msm.PendingProposals
      BY <2>5, <2>6 DEF Updated
    <3> QED BY <1>1, <2>2, <2>3, <2>4, <2>6, <3>4, <3>5 DEF DealOpFails, n, id
  <2>7. CASE id \in DOMAIN msm.States
    <3> DEFINE n == updatePendingDealState(msm, state, deal)
    <3>1. state \in DealState /\ state.LastUpdatedEpoch \in Int /\ state.SlashEpoch \in Int
      BY <1>1, <2>7, StateTypes, EpochTypes
    <3>2. ~(state.LastUpdatedEpoch > epoch)
      BY <1>1, <1>3, <2>7, <3>1, EpochTypes DEF UpdatedBy, Updated
    <3>3. state.SlashEpoch <= epoch /\ state.SlashEpoch <= deal.EndEpoch
      <4>1. deal.EndEpoch \in Nat
        BY <2>3, OfferAmounts
      <4>2. CASE everSlashed(state)
        BY <1>1, <1>2, <2>7, <3>1, <4>1, <4>2 DEF TerminatedBy
      <4>3. CASE ~everSlashed(state)
        BY <1>1, <4>1, <4>3, EpochTypes DEF everSlashed
      <4> QED BY <4>2, <4>3
    <3>4. FeeReleased(state, deal) <= FeeOwed(msm, id)
      <4>1. FeeOwed(msm, id) \in Nat
        BY <1>1, <1>3, <2>2, PaidUntilBounds
      <4>2. /\ removeDeal(state, deal) => FeeReleased(state, deal) = FeeOwed(msm, id)
            /\ ~removeDeal(state, deal) => FeeReleased(state, deal) <= FeeOwed(msm, id)
        BY <1>1, <1>2, <1>3, <2>2, <2>4, <2>7, UpdateFees, ZenonT(60)
      <4> HIDE DEF state, deal
      <4> QED BY <4>1, <4>2
    <3>5. BalanceStep(msm, n) /\ Released(msm, n, deal, FeeReleased(state, deal), removeDeal(state, deal))
      BY <1>1, <2>3, <3>1, <3>3, UpdateStep, UpdateValues, ZenonT(60)
    <3>6. FeeReleased(state, deal) \in Int
      <4>1. totalPayment(state, deal) \in Nat
        BY <1>1, <2>3, <3>1, <3>3, UpdateStep
      <4>2. dealGetPaymentRemaining(deal, state.SlashEpoch) \in Int
        <5>1. deal.EndEpoch - Max2(state.SlashEpoch, deal.StartEpoch) \in Int /\ deal.StoragePricePerEpoch \in Int
          BY <2>3, <3>1, OfferAmounts DEF Max2
        <5> QED BY <5>1 DEF dealGetPaymentRemaining
      <4> QED BY <4>1, <4>2 DEF FeeReleased, If
    <3> HIDE DEF n
    <3>7. NoNegativeBalance(n)
      BY <1>1, <1>2, <1>3, <2>2, <3>4, <3>5, <3>6, NothingOverdrawn, ZenonT(60)
    <3>8. state.LastUpdatedEpoch = EpochUndefined => deal \in msm.PendingProposals
      BY <2>5, <2>7 DEF Updated
    <3>9. ~(epoch < deal.StartEpoch) /\ ~(state.SlashEpoch > epoch) /\ ~(state.SlashEpoch > deal.EndEpoch)
      BY <1>1, <2>3, <2>4, <3>1, <3>3, OfferAmounts
    <3> QED BY <2>2, <2>7, <3>2, <3>7, <3>8, <3>9, ZenonT(60) DEF DealOpFails, n, id
  <2> QED BY <2>6, <2>7
<1> QED BY <1>4, <1>5 DEF CronFails

\* Under the same assumption no handler gives up half way: every deal that passed the filter of
\* PublishStorageDeals can be locked when its turn comes, although the filter looked at the state
\* before the batch, and no operation of CronTick fails, so that a tick settles all its deals.
THEOREM HandlersSucceed ==
    ASSUME LateTerminations = FALSE
    PROVE  Spec => []HandlersNeverFail
<1>1. TypeInv /\ EscrowInv /\ DealsInv /\ FundsInv /\ BooksInv /\ RoomInv => HandlersNeverFail
  BY StoreSucceeds, TickSucceeds, Zenon DEF HandlersNeverFail
<1>2. Spec => []BooksInv
  BY BooksInvAlways, Zenon
<1> QED BY <1>1, <1>2, TypeInvAlways, EscrowInvAlways, DealsInvAlways, FundsInvAlways, RoomInvAlways, PTL

=============================================================================
