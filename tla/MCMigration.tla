---------------------------- MODULE MCMigration -----------------------------
(* A small tree for TLC. *)
EXTENDS Migration

Code(n) == [name |-> n, version |-> 7]
Actor7(n, h, b) == [Code |-> Code(n), Head |-> h, CallSeqNum |-> b, Balance |-> b]

Proposal(l) == [Label |-> l, Encoding |-> "string"]
\* Deals 1 to 3 have labels that are not UTF-8: 1 is published, 2 active and
\* not yet updated, 3 updated; 4 is published with a good label.
MCMarket == [Proposals |-> [d \in 1 .. 4 |-> Proposal(<<"bad", "bad2", "bad3", "good">>[d])],
             States |-> [d \in 2 .. 3 |-> IF d = 2 THEN EpochUndefined ELSE 5],
             PendingProposals |-> {Proposal(l) : l \in {"bad", "bad2", "good"}}]
MCValidLabels == {"good"}

MCTree == << Actor7("system", 0, 0), Actor7("storagemarket", MCMarket, 1), Actor7("account", 2, 3) >>
MCTrees == {MCTree, <<Actor7("account", 1, 1), Actor7("unknown", 2, 2)>>}

MCNames == {"system", "storagemarket", "account"}
MCManifests == {MCNames, MCNames \ {"system"}}

Cfg(W, j, r) == [workers |-> W, JobQueueSize |-> j, ResultQueueSize |-> r]
MCConfigs == {Cfg({}, 0, 0)} \cup {Cfg({1}, 1, 0), Cfg({1, 2}, 0, 0), Cfg({1, 2}, 1, 1)}
=============================================================================
