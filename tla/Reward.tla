------------------------------- MODULE Reward -------------------------------
(***************************************************************************)
(* The reward actor (src/actors/builtin/reward): block rewards, and the    *)
(* effective network time from which the reward of an epoch is computed.   *)
(*                                                                         *)
(* The fixed-point numbers have few fractional bits (One instead of 2^128) *)
(* and the exponentials of epoch and network time are tables.              *)
(***************************************************************************)
EXTENDS Integers

CONSTANTS
  One,                      \* 1 as a fixed-point number
  BaselineExponent,         \* growth of the baseline in an epoch, fixed-point
  BaselineInitialValue,     \* reward_logic.go
  SimpleReward,             \* epoch -> tokens of simple minting
  BaselineSupply,           \* computeBaselineSupply: network time (fixed-point) -> tokens
  ExpectedLeadersPerEpoch,  \* builtin/network.go
  RewardFund                \* tokens the actor starts with

ASSUME RewardAssumption ==
  /\ One \in Nat \ {0} /\ BaselineExponent \in Nat /\ BaselineExponent > One
  /\ BaselineInitialValue \in Nat \ {0}
  /\ RewardFund \in Nat
  /\ \A e \in DOMAIN SimpleReward : SimpleReward[e] \in Nat
  /\ ExpectedLeadersPerEpoch \in Nat \ {0}

VARIABLES
  rw,      \* State
  funds,   \* tokens the actor holds
  credits  \* history: epoch -> the realized power its update was given

rewardVars == <<rw, funds, credits>>

InitBaselinePower == (BaselineInitialValue * One) \div BaselineExponent
BaselinePowerFromPrev(prev) == (prev * BaselineExponent) \div One

ComputeRTheta(s) ==
  IF s.EffectiveNetworkTime = 0 THEN 0
  ELSE s.EffectiveNetworkTime * One
       - ((s.CumsumBaseline - s.CumsumRealized) * One) \div s.EffectiveBaselinePower

computeReward(currEpoch, prevTheta, currTheta) ==
  SimpleReward[currEpoch] + BaselineSupply[currTheta] - BaselineSupply[prevTheta]

\* The loop of updateToNextEpoch: network time moves on while the realized sum is ahead of the
\* baseline sum.  A step adds at least 1, so CumsumRealized steps are enough.
MutantOneStep(s) ==
  IF s.CumsumRealized <= s.CumsumBaseline THEN s
  ELSE [s EXCEPT !.EffectiveNetworkTime = @ + 1,
                 !.EffectiveBaselinePower = BaselinePowerFromPrev(@),
                 !.CumsumBaseline = @ + BaselinePowerFromPrev(s.EffectiveBaselinePower)]

CatchUp(s) ==
  LET caught[fuel \in Nat, t \in Nat, power \in Nat, sum \in Nat] ==
        IF fuel = 0 \/ s.CumsumRealized <= sum THEN <<t, power, sum>>
        ELSE caught[fuel - 1, t + 1, BaselinePowerFromPrev(power), sum + BaselinePowerFromPrev(power)]
      r == caught[s.CumsumRealized, s.EffectiveNetworkTime, s.EffectiveBaselinePower, s.CumsumBaseline]
  IN  [s EXCEPT !.EffectiveNetworkTime = r[1], !.EffectiveBaselinePower = r[2], !.CumsumBaseline = r[3]]

Capped(baseline, power) == IF baseline < power THEN baseline ELSE power

updateToNextEpoch(s, power) ==
  LET baseline == BaselinePowerFromPrev(s.ThisEpochBaselinePower)
  IN  CatchUp([s EXCEPT !.Epoch = @ + 1,
                        !.ThisEpochBaselinePower = baseline,
                        !.CumsumRealized = @ + Capped(baseline, power)])

updateToNextEpochWithReward(s, power) ==
  LET next == updateToNextEpoch(s, power)
  IN  [next EXCEPT !.ThisEpochReward = computeReward(next.Epoch, ComputeRTheta(s), ComputeRTheta(next))]

ConstructState(power) ==
  updateToNextEpochWithReward(
    [CumsumBaseline |-> 0, CumsumRealized |-> 0, EffectiveNetworkTime |-> 0,
     EffectiveBaselinePower |-> BaselineInitialValue, ThisEpochReward |-> 0,
     ThisEpochBaselinePower |-> InitBaselinePower, Epoch |-> -1, TotalStoragePowerReward |-> 0], power)

RewardInit ==
  /\ rw = ConstructState(0)
  /\ funds = RewardFund
  /\ credits = [e \in {0} |-> 0]

-----------------------------------------------------------------------------
\* The updates of the null rounds before currEpoch, none of which pays a reward.
NullRounds(s, currEpoch, power) ==
  LET at[e \in s.Epoch .. currEpoch] == IF e = s.Epoch THEN s ELSE updateToNextEpoch(at[e - 1], power)
  IN  IF s.Epoch < currEpoch THEN at[currEpoch] ELSE s

UpdateNetworkKPI(currEpoch, power) ==
  /\ \E caughtUp \in {NullRounds(rw, currEpoch, power)} :
       \E next \in {updateToNextEpochWithReward(caughtUp, power)} :
         /\ rw' = next
         /\ credits' = [e \in 0 .. next.Epoch |-> IF e \in DOMAIN credits THEN credits[e] ELSE power]
  /\ UNCHANGED funds

\* The block reward of winCount wins, or what is left beside the gas.
blockReward(balance, gasReward, winCount) ==
  LET full == (rw.ThisEpochReward * winCount) \div ExpectedLeadersPerEpoch
  IN  IF full + gasReward > balance THEN balance - gasReward ELSE full

\* The gas reward arrives with the message.  Reward and gas leave for the miner or, when
\* ApplyRewards fails, for the burnt funds actor, a transfer that the balance always covers.
\* The penalty is the miner's to pay.
AwardBlockReward(gasReward, winCount) ==
  \E reward \in {blockReward(funds + gasReward, gasReward, winCount)} :
    /\ reward >= 0
    /\ rw' = [rw EXCEPT !.TotalStoragePowerReward = @ + reward]
    /\ funds' = funds - reward
    /\ UNCHANGED credits

-----------------------------------------------------------------------------
(* Properties *)

\* The first n + 1 baselines that follow one of `power'.
Growth(power, n) ==
  LET b[i \in 0 .. n] == BaselinePowerFromPrev(IF i = 0 THEN power ELSE b[i - 1])
  IN  b

SumTo(f, n) ==
  LET sum[i \in -1 .. n] == IF i = -1 THEN 0 ELSE sum[i - 1] + f[i]
  IN  sum[n]

\* The baseline sum that network time t stands for.
Target(t) == IF t = 0 THEN 0 ELSE SumTo(Growth(BaselineInitialValue, t - 1), t - 1)

\* The reward state is what the history of the network's power makes it: every epoch, null rounds
\* included, is counted once, with the power that the first tick after it reported, capped by the
\* baseline of that epoch; and EffectiveNetworkTime is "ceiling of real effective network time"
\* (reward_state.go), the first time by which the baseline sum covers what was realized, however
\* many steps it had to catch up.  It never runs ahead of the clock, and no epoch's reward is
\* negative.  What TotalStoragePowerReward says was awarded is what has left the fund, also when
\* the fund runs out.
RewardStateExact ==
  /\ DOMAIN credits = 0 .. rw.Epoch
  /\ LET baseline == Growth(InitBaselinePower, rw.Epoch)
     IN  /\ rw.ThisEpochBaselinePower = baseline[rw.Epoch]
         /\ rw.CumsumRealized =
              SumTo([e \in 0 .. rw.Epoch |-> Capped(baseline[e], credits[e])], rw.Epoch)
  /\ rw.CumsumBaseline = Target(rw.EffectiveNetworkTime)
  /\ rw.CumsumRealized <= rw.CumsumBaseline
  /\ rw.EffectiveNetworkTime > 0 => Target(rw.EffectiveNetworkTime - 1) < rw.CumsumRealized
  /\ rw.EffectiveNetworkTime <= rw.Epoch + 1
  /\ rw.ThisEpochReward >= 0
  /\ funds >= 0 /\ rw.TotalStoragePowerReward = RewardFund - funds
=============================================================================
