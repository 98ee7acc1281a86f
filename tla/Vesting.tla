------------------------------ MODULE Vesting -------------------------------
(* The vesting table of a storage miner (vesting_state.go): a slice of      *)
(* entries [Epoch, Amount], sorted by epoch, one entry per epoch.           *)
EXTENDS Integers, SequencesExt

CONSTANTS
    VestPeriod,         \* VestSpec.VestPeriod
    StepDuration,       \* VestSpec.StepDuration
    Quantization,       \* VestSpec.Quantization
    ProvingPeriodStart  \* the offset of the miner's quantization

ASSUME VestingAssumption ==
    /\ {VestPeriod, StepDuration, Quantization} \subseteq Nat \ {0}
    /\ ProvingPeriodStart \in Int

(* QuantizeUp: the next epoch on the grid of the given unit *)
GridUp(e, unit) == e + ((ProvingPeriodStart - e) % unit)

FundsSum(funds) == FoldSeq(LAMBDA f, sum : sum + f.Amount, 0, funds)

(* unlockVestedFunds: the entries of epochs that are over leave the table,  *)
(* from the front up to the first that is not.                              *)
unlockVestedFunds(funds, curr) ==
    LET later == {i \in DOMAIN funds : funds[i].Epoch >= curr}
        n == Min(later \cup {Len(funds) + 1}) - 1
    IN  [amount |-> FundsSum(SubSeq(funds, 1, n)), funds |-> SubSeq(funds, n + 1, Len(funds))]

(* addLockedFunds: the sum vests linearly, a step at a time, each step at   *)
(* its epoch rounded up; what falls on an epoch that has an entry is added  *)
(* to it.  targetVest(k) is vestedSoFar after k steps of the loop, which    *)
(* goes on while it is less than the sum.                                   *)
vestEpoch(curr, k) == GridUp(curr + k * StepDuration, Quantization)
targetVest(curr, vestingSum, k) ==
    LET elapsed == vestEpoch(curr, k) - curr
    IN  IF k = 0 THEN 0
        ELSE IF elapsed < VestPeriod THEN (vestingSum * elapsed) \div VestPeriod ELSE vestingSum

addLockedFunds(funds, curr, vestingSum) ==
    LET steps == {k \in 1 .. VestPeriod : targetVest(curr, vestingSum, k - 1) < vestingSum}
        vestThisTime(k) == targetVest(curr, vestingSum, k) - targetVest(curr, vestingSum, k - 1)
        epochs == {funds[i].Epoch : i \in DOMAIN funds} \cup {vestEpoch(curr, k) : k \in steps}
        total(e) ==
            FundsSum(SelectSeq(funds, LAMBDA f : f.Epoch = e))
            + MapThenSumSet(vestThisTime, {k \in steps : vestEpoch(curr, k) = e})
    IN  SetToSortSeq({[Epoch |-> e, Amount |-> total(e)] : e \in epochs},
                     LAMBDA f, g : f.Epoch < g.Epoch)

(* unlockUnvestedFunds: up to the target is taken from the entries that are *)
(* still vesting, the soonest first; entries already vested stay in front.  *)
UnlockStep(funds, curr, target, acc, i) ==
    LET take == Min({target - acc.amount, funds[i].Amount})
    IN  IF acc.amount >= target THEN acc
        ELSE IF funds[i].Epoch < curr THEN [acc EXCEPT !.start = i + 1]
        ELSE IF take = funds[i].Amount THEN [acc EXCEPT !.amount = @ + take, !.last = i]
        ELSE [acc EXCEPT !.amount = @ + take, !.funds[i].Amount = @ - take]

unlockUnvestedFunds(funds, curr, target) ==
    LET Removed(r) ==
            [amount |-> r.amount,
             funds |-> IF r.last = 0 THEN r.funds
                       ELSE SubSeq(r.funds, 1, r.start - 1) \o SubSeq(r.funds, r.last + 1, Len(funds))]
    IN  Removed(FoldLeft(LAMBDA acc, i : UnlockStep(funds, curr, target, acc, i),
                         [amount |-> 0, start |-> 1, last |-> 0, funds |-> funds],
                         [i \in DOMAIN funds |-> i]))
=============================================================================
