------------------------------ MODULE MCPower -------------------------------
(* Small instances of the power and reward actors for TLC. *)
EXTENDS PowerReward

\* Power comes and goes one sector at a time, at twice the quality.
MCDeltas == {<<3, 6>>, <<-3, -6>>}

MCPledgeDeltas == {1, -1}

MCSimple == [e \in 0 .. 3 |-> IF e = 0 THEN 2 ELSE 1]

\* Supply grows with network time, ever more slowly.
MCSupply == [theta \in 0 .. 12 |-> (12 * theta) \div (theta + 4)]

\* Two events and a null round; one event, or blocks and pledges, over three epochs or two;
\* claims that move about above the minimum.
MCPlans ==
  {[power |-> 6, events |-> 2, pledge |-> 0, proofs |-> 1, awards |-> 0, steps |-> {2}],
   [power |-> 6, events |-> 1, pledge |-> 0, proofs |-> 1, awards |-> 0, steps |-> {1, 2}],
   [power |-> 6, events |-> 0, pledge |-> 1, proofs |-> 0, awards |-> 2, steps |-> {1, 2}],
   [power |-> 9, events |-> 1, pledge |-> 0, proofs |-> 0, awards |-> 0, steps |-> {2}]}
=============================================================================
