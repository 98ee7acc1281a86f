------------------------------ MODULE MCMiner -------------------------------
(* A small miner for TLC. *)
EXTENDS Miner

MCDeposit == [d \in BOOLEAN |-> IF d THEN 2 ELSE 1]
MCPledge == [d \in BOOLEAN |-> IF d THEN 3 ELSE 2]

MCControls == {{}, {InitialWorker}}

Nothing == [precommit |-> 0, compact |-> 0, award |-> 0, report |-> 0, dispute |-> 0, update |-> 0,
            withdraw |-> 0, receive |-> 0, terminate |-> 0, expire |-> 0, fault |-> 0, null |-> 0,
            info |-> 0, sectors |-> {1}]

\* Each run of the model does a few things of one or two kinds:
\* pre-commits that are proven or expire, null rounds included;
Commitments == [Nothing EXCEPT !.sectors = {1, 2}, !.precommit = 2, !.compact = 1, !.expire = 2,
                               !.update = 1, !.terminate = 1, !.null = 1]
\* rewards and penalties;
Rewards == [Nothing EXCEPT !.precommit = 1, !.award = 2, !.report = 1, !.expire = 1, !.fault = 1]
\* withdrawals from a miner with debts and vesting funds;
Withdrawals == [Nothing EXCEPT !.sectors = {1, 2}, !.precommit = 1, !.award = 1, !.withdraw = 1,
                               !.dispute = 1, !.terminate = 1, !.receive = 1]
\* changes of keys, with and without a deadline job.
Keys == [Nothing EXCEPT !.info = 4]
KeysWithCron == [Nothing EXCEPT !.precommit = 1, !.info = 2]
MCBudgets == {Commitments, Rewards, Withdrawals, Keys, KeysWithCron}
=============================================================================
