---------------------------- MODULE PowerReward ----------------------------
(* The power actor composed with the reward actor, which it tells the power  *)
(* of the network at the end of each tick.                                   *)
EXTENDS Power, Reward

CONSTANTS
  WinCounts,   \* wins of a block
  GasRewards,  \* gas that comes with a block
  Plans        \* bounds: [power, events, pledge, proofs, awards, steps],
               \* power of a claim, steps in epochs between tipsets

ASSUME PlansAssumption == \A p \in Plans : p.steps \subseteq 1 .. MaxNullRounds + 1

VARIABLES
  plan,   \* the bounds of this behaviour
  awards  \* blocks rewarded

composed == <<vars, rewardVars, plan, awards>>

PRInit == Init /\ RewardInit /\ plan \in Plans /\ awards = 0

WithinPlan ==
  /\ nextID' <= plan.events
  /\ st'.TotalPledgeCollateral <= plan.pledge
  /\ \A m \in Miners :
       /\ st'.ProofValidationBatch[m] <= plan.proofs
       /\ HasClaim(st', m) => st'.Claims[m].RawBytePower <= plan.power

PRMinerStep == MinerStep /\ WithinPlan /\ UNCHANGED <<rewardVars, plan, awards>>

\* The end of CronTick sends the raw byte power to the reward actor.
PRFinishTick ==
  /\ FinishTick
  /\ UpdateNetworkKPI(epoch, st'.ThisEpochRawBytePower)
  /\ UNCHANGED <<plan, awards>>

PRTickStep ==
  /\ \/ \E verified \in BOOLEAN : CronTick(verified)
     \/ \E m \in Miners, successful \in BOOLEAN : ConfirmSectorProofsValid(m, successful)
     \/ LoadCronEvents
     \/ OnDeferredCronEvent
     \/ \E ok \in BOOLEAN : CallbackReturns(ok)
     \/ EventsDone
     \/ DeleteClaim
     \/ \E n \in plan.steps : NextEpoch(n)
  /\ UNCHANGED <<rewardVars, plan, awards>>

\* The last message of a block.
Award(gasReward, winCount) ==
  /\ phase = "messages"
  /\ awards < plan.awards
  /\ awards' = awards + 1
  /\ AwardBlockReward(gasReward, winCount)
  /\ UNCHANGED <<vars, plan>>

PRNext ==
  \/ PRMinerStep
  \/ PRTickStep
  \/ PRFinishTick
  \/ \E gasReward \in GasRewards, winCount \in WinCounts : Award(gasReward, winCount)

PRSpec == PRInit /\ [][PRNext]_composed

\* Messages and calls end: the tick of an epoch comes and each of its steps is
\* taken.  Miners need do nothing.
PRFairSpec == PRSpec /\ WF_composed(PRTickStep \/ PRFinishTick)
=============================================================================
