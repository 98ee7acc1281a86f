------------------------------ MODULE Deadline ------------------------------
(***************************************************************************)
(* One proving deadline of one storage miner, with its partitions, the     *)
(* miner's sector table and pledge, the miner's power claim, and the cron  *)
(* callbacks that close the deadline and work off early terminations       *)
(* (actors/builtin/miner: deadline_state.go, miner_state.go and the        *)
(* handlers of miner_actor.go that touch a deadline).                      *)
(*                                                                         *)
(* Messages run one at a time; a message that aborts changes nothing, so   *)
(* its conditions are guards.  A cron callback that aborts is never        *)
(* retried: `cronFailed' records it.                                       *)
(***************************************************************************)
EXTENDS Partition, Sequences

CONSTANTS
    SectorNumbers,           \* sector numbers the miner may commit
    PartitionSize,           \* sectors of a partition (WindowPoStPartitionSectors)
    WPoStChallengeWindow,    \* epochs a deadline is open
    WPoStDisputeWindow,      \* epochs after the close in which proofs may be disputed
    FaultDeclarationCutoff,  \* epochs before the opening when declarations stop
    FaultMaxAge,             \* epochs a sector may stay faulty
    AddressedSectorsMax,     \* early terminations processed at once
    AddressedPartitionsMax,  \* partitions with early terminations processed at once
    MinSectorExpiration,     \* shortest lifetime of a sector
    MaxSectorLifetime,       \* longest lifetime of a sector
    MaxSectorExpirationExtension,  \* how far ahead an extension may reach
    PledgePerPower,          \* pledge of a sector per unit of quality-adjusted power
    Expirations,             \* the expiration epochs messages ask for
    VerifiedSectors,         \* sectors committed full of verified deals
    MaxEpoch,                \* bound: the last epoch
    StaleDisputes            \* may a dispute meet sectors changed since the snapshot?

ASSUME WindowAssumption ==
    /\ SectorNumbers \subseteq Nat /\ IsFiniteSet(SectorNumbers)
    /\ WPoStChallengeWindow \in Nat \ {0} /\ WPoStDisputeWindow \in Nat
    /\ WPoStProvingPeriod \in Nat \ {0} /\ DeadlineLast \in Nat
    /\ 3 * WPoStChallengeWindow + WPoStDisputeWindow <= WPoStProvingPeriod
    /\ FaultDeclarationCutoff \in Nat
    /\ FaultMaxAge \in Nat /\ FaultMaxAge % WPoStProvingPeriod = 0
    /\ PartitionSize \in Nat \ {0}
    /\ AddressedSectorsMax \in Nat \ {0} /\ AddressedPartitionsMax \in Nat \ {0}
    /\ MinSectorExpiration \in Nat \ {0} /\ MaxSectorLifetime \in Nat
    /\ MaxSectorExpirationExtension \in Nat /\ PledgePerPower \in Nat
    /\ Expirations \subseteq Nat /\ MaxEpoch \in Nat
    /\ StaleDisputes \in BOOLEAN

VARIABLES
    epoch,          \* current epoch
    phase,          \* "messages", then the cron callbacks of "deadline" and "jobs"
    dl,             \* the deadline
    sectors,        \* st.Sectors: sector number -> on-chain information
    allocated,      \* sector numbers ever committed (st.AllocatedSectors)
    initialPledge,  \* st.InitialPledge
    earlyBit,       \* st.EarlyTerminations has this deadline
    claim,          \* the miner's power as the power actor knows it
    jobs,           \* early-termination callbacks still to run in this epoch
    nextJobs,       \* early-termination callbacks enrolled for the next epoch
    cronFailed      \* a cron callback of the miner aborted

vars == <<epoch, phase, dl, sectors, allocated, initialPledge, earlyBit, claim,
          jobs, nextJobs, cronFailed>>

-----------------------------------------------------------------------------
(* When things may happen.  The occurrence of the deadline that has not     *)
(* elapsed yet ends at QuantizeUp(epoch).                                   *)

LastOf(e) == QuantizeUp(e)
OpenOf(e) == QuantizeUp(e) - WPoStChallengeWindow + 1
IsOpen == OpenOf(epoch) <= epoch

deadlineIsMutable == epoch < OpenOf(epoch) - WPoStChallengeWindow
deadlineAvailableForOptimisticPoStDispute ==
    ~IsOpen /\ epoch < (LastOf(epoch) + 1 - WPoStProvingPeriod) + WPoStDisputeWindow
deadlineAvailableForCompaction ==
    deadlineIsMutable /\ ~deadlineAvailableForOptimisticPoStDispute
MutantNoCutoff == FALSE
FaultCutoffPassed == epoch >= OpenOf(epoch) - FaultDeclarationCutoff

-----------------------------------------------------------------------------
(* The deadline *)

ConstructDeadline ==
    [Partitions |-> <<>>, ExpirationsEpochs |-> {}, PartitionsPoSted |-> {},
     EarlyTerminations |-> {}, LiveSectors |-> 0, TotalSectors |-> 0,
     FaultyPower |-> PowerZero,
     OptimisticPoStSubmissions |-> <<>>,
     PartitionsSnapshot |-> <<>>, OptimisticPoStSubmissionsSnapshot |-> <<>>,
     SectorsSnapshot |-> <<>>]

(* A PartitionSectorMap naming each sector of S under its partition *)
PartitionSectors(d, S) ==
    [i \in {j \in DOMAIN d.Partitions : d.Partitions[j].Sectors \cap S # {}} |->
        d.Partitions[i].Sectors \cap S]

WithPartitions(d, r) ==
    [i \in DOMAIN d.Partitions |-> IF i \in DOMAIN r THEN r[i].p ELSE d.Partitions[i]]

AllOk(r) == \A i \in DOMAIN r : r[i].ok

(* AddExpirationPartitions *)
MutantNotIndexed(queue, e, I) == queue
AddExpirationPartitions(queue, e, I) == queue \cup ({QuantizeUp(e)} \X I)

(* AddSectors: in order of sector number, first into the last partition     *)
(* while it has room, then into new ones.                                   *)
PartitionFor(d, S, s) ==
    LET n == Len(d.Partitions)
        rank == Cardinality({t \in S : t < s})
        room == IF n = 0 THEN 0 ELSE PartitionSize - Cardinality(d.Partitions[n].Sectors)
    IN  IF rank < room THEN n ELSE n + 1 + (rank - room) \div PartitionSize

DAddSectors(d, proven, infos, S) ==
    LET part(i) == {s \in S : PartitionFor(d, S, s) = i}
        old(i) == IF i \in DOMAIN d.Partitions THEN d.Partitions[i] ELSE ConstructPartition
        Result(r) ==
            [ok |-> AllOk(r),
             dl |-> [d EXCEPT
                       !.Partitions = [i \in 1 .. Max({Len(d.Partitions)} \cup DOMAIN r) |->
                                          IF i \in DOMAIN r THEN r[i].p ELSE d.Partitions[i]],
                       !.LiveSectors = @ + Cardinality(S),
                       !.TotalSectors = @ + Cardinality(S),
                       !.ExpirationsEpochs = @ \cup
                           {<<QuantizeUp(infos[s].Expiration), PartitionFor(d, S, s)>> : s \in S}],
             power |-> SumOfPowers([i \in DOMAIN r |-> r[i].power])]
    IN  Result([i \in {PartitionFor(d, S, s) : s \in S} |->
                    PAddSectors(old(i), proven, infos, part(i))])

(* RecordFaults *)
DRecordFaults(d, infos, pm, faultExpiration) ==
    LET Result(r) ==
            [ok |-> DOMAIN pm \subseteq DOMAIN d.Partitions /\ AllOk(r),
             dl |-> [d EXCEPT
                       !.Partitions = WithPartitions(d, r),
                       !.FaultyPower = Plus(@, SumOfPowers([i \in DOMAIN r |-> r[i].newFaultyPower])),
                       !.ExpirationsEpochs = AddExpirationPartitions(@, faultExpiration,
                                                 {i \in DOMAIN r : r[i].newFaults # {}})],
             powerDelta |-> SumOfPowers([i \in DOMAIN r |-> r[i].powerDelta])]
    IN  Result([i \in DOMAIN pm \cap DOMAIN d.Partitions |->
               PRecordFaults(d.Partitions[i], infos, pm[i], faultExpiration)])

(* DeclareFaultsRecovered *)
DDeclareFaultsRecovered(d, infos, pm) ==
    LET Result(r) ==
            [ok |-> AllOk(r), dl |-> [d EXCEPT !.Partitions = WithPartitions(d, r)]]
    IN  Result([i \in DOMAIN pm |-> PDeclareFaultsRecovered(d.Partitions[i], infos, pm[i])])

(* TerminateSectors *)
DTerminateSectors(d, infos, e, pm) ==
    LET Result(r) ==
            LET removed(i) == r[i].removed.OnTimeSectors \cup r[i].removed.EarlySectors
                nonEmpty == {i \in DOMAIN r : removed(i) # {}}
            IN  [ok |-> AllOk(r),
                 dl |-> [d EXCEPT
                           !.Partitions = WithPartitions(d, r),
                           !.EarlyTerminations = @ \cup nonEmpty,
                           !.LiveSectors = @ - MapThenSumSet(LAMBDA i : Cardinality(removed(i)), nonEmpty),
                           !.FaultyPower = Minus(@, SumOfPowers([i \in DOMAIN r |-> r[i].removed.FaultyPower]))],
                 powerLost |-> SumOfPowers([i \in DOMAIN r |-> r[i].removed.ActivePower])]
    IN  Result([i \in DOMAIN pm |-> PTerminateSectors(d.Partitions[i], infos, e, pm[i])])

(* RecordProvenSectors for the partitions I with the sectors `skipped'      *)
RecordProvenSectors(d, infos, I, skipped, faultExpiration) ==
    LET Result(a, b) ==
            LET r == [i \in I |-> [p |-> ActivateUnproven(b[i].p)]]
                recovered == SumOfPowers([i \in I |-> b[i].power])
            IN  [ok |-> I \cap d.PartitionsPoSted = {} /\ AllOk(a) /\ AllOk(b),
                 dl |-> [d EXCEPT
                           !.Partitions = WithPartitions(d, r),
                           !.PartitionsPoSted = @ \cup I,
                           !.ExpirationsEpochs = AddExpirationPartitions(@, faultExpiration,
                                                     {i \in I : a[i].hasNewFaults}),
                           !.FaultyPower = Plus(Minus(@, recovered),
                                                SumOfPowers([i \in I |-> a[i].newFaultyPower]))],
                 powerDelta |-> Plus(recovered,
                                     SumOfPowers([i \in I |-> Plus(a[i].powerDelta,
                                                                   b[i].p.UnprovenPower)])),
                 recoveredPower |-> recovered,
                 proven |-> UNION {(r[i].p.Sectors \ r[i].p.Faults) \ r[i].p.Terminated :
                                      i \in I}]
        Recover(a) == Result(a, [i \in I |-> RecoverFaults(a[i].p, infos)])
    IN  Recover([i \in I |-> RecordSkippedFaults(d.Partitions[i], infos,
                                 skipped \cap d.Partitions[i].Sectors, faultExpiration)])

(* ProcessDeadlineEnd: partitions without a proof become faulty; what the   *)
(* disputes of this proving period will need is set aside.                  *)
ProcessDeadlineEnd(d, faultExpiration, infos) ==
    LET missed == {i \in DOMAIN d.Partitions \ d.PartitionsPoSted :
                      ~(/\ d.Partitions[i].RecoveringPower = PowerZero
                        /\ d.Partitions[i].FaultyPower = d.Partitions[i].LivePower)}
        disputable == d.OptimisticPoStSubmissions # <<>>
        Result(r) ==
            [ok |-> AllOk(r),
             dl |-> [d EXCEPT
                       !.Partitions = WithPartitions(d, r),
                       !.FaultyPower = Plus(@, SumOfPowers([i \in missed |-> r[i].newFaultyPower])),
                       !.ExpirationsEpochs = AddExpirationPartitions(@, faultExpiration,
                                                 {i \in missed : r[i].newFaultyPower # PowerZero}),
                       !.PartitionsPoSted = {},
                       !.PartitionsSnapshot = WithPartitions(d, r),
                       !.OptimisticPoStSubmissionsSnapshot = d.OptimisticPoStSubmissions,
                       !.OptimisticPoStSubmissions = <<>>,
                       !.SectorsSnapshot = IF disputable THEN infos ELSE <<>>],
             powerDelta |-> SumOfPowers([i \in missed |-> r[i].powerDelta])]
    IN  Result([i \in missed |-> RecordMissedPost(d.Partitions[i], faultExpiration)])

(* PopExpiredSectors, from the partitions that popExpiredPartitions names   *)
DPopExpiredSectors(d, until) ==
    LET due == {x \in d.ExpirationsEpochs : x[1] <= until}
        expired == {x[2] : x \in due}
        Result(r) ==
            LET popped(i) == r[i].popped.OnTimeSectors \cup r[i].popped.EarlySectors
            IN  [ok |-> expired \subseteq DOMAIN d.Partitions /\ AllOk(r),
                 dl |-> [d EXCEPT
                           !.ExpirationsEpochs = @ \ due,
                           !.Partitions = WithPartitions(d, r),
                           !.EarlyTerminations = @ \cup
                               {i \in DOMAIN r : r[i].popped.EarlySectors # {}},
                           !.LiveSectors = @ - Cardinality(UNION {popped(i) : i \in DOMAIN r}),
                           !.FaultyPower = Minus(@, SumOfPowers([i \in DOMAIN r |->
                                                                    r[i].popped.FaultyPower]))],
                 pledge |-> MapThenSumSet(LAMBDA i : r[i].popped.OnTimePledge, DOMAIN r),
                 activePower |-> SumOfPowers([i \in DOMAIN r |-> r[i].popped.ActivePower]),
                 early |-> UNION {r[i].popped.EarlySectors : i \in DOMAIN r}]
    IN  Result([i \in expired \cap DOMAIN d.Partitions |->
                    PPopExpiredSectors(d.Partitions[i], until)])

(* IsLive *)
IsLive(d) ==
    \/ d.LiveSectors > 0
    \/ d.PartitionsPoSted # {}
    \/ d.Partitions # d.PartitionsSnapshot
    \/ d.OptimisticPoStSubmissions # d.OptimisticPoStSubmissionsSnapshot

(* PopEarlyTerminations: partitions in order, until AddressedPartitionsMax  *)
(* partitions or AddressedSectorsMax sectors are processed.                 *)
DPopEarlyTerminations(d) ==
    LET marked == d.EarlyTerminations \cap DOMAIN d.Partitions
        pending(i) == d.Partitions[i].EarlyTerminated
        before(i) == MapThenSumSet(LAMBDA j : Cardinality(pending(j)), {j \in marked : j < i})
        visited == {i \in marked : /\ Cardinality({j \in marked : j < i}) < AddressedPartitionsMax
                                   /\ before(i) < AddressedSectorsMax}
        taken == [i \in visited |->
                      FirstTerminations(pending(i), AddressedSectorsMax - before(i))]
        finished == {i \in visited : taken[i] = pending(i)}
    IN  [dl |-> [d EXCEPT
                   !.Partitions = [i \in DOMAIN @ |->
                        IF i \in visited THEN [@[i] EXCEPT !.EarlyTerminated = @ \ taken[i]]
                        ELSE @[i]],
                   !.EarlyTerminations = marked \ finished],
         sectors |-> {t[2] : t \in UNION {taken[i] : i \in visited}}]

(* RemovePartitions, shifting the remaining ones to the left *)
ShiftedIndex(I, i) == i - Cardinality({j \in I : j < i})
CutQueue(queue, I) == {<<x[1], ShiftedIndex(I, x[2])>> : x \in {y \in queue : y[2] \notin I}}
RemovedLive(d, I) == UNION {LiveSectors(d.Partitions[i]) : i \in I}
RemovedDead(d, I) == UNION {d.Partitions[i].Terminated : i \in I}

RemovePartitions(d, I) ==
    LET kept == DOMAIN d.Partitions \ I
        live == RemovedLive(d, I)
        dead == RemovedDead(d, I)
    IN  [ok |-> /\ I \subseteq DOMAIN d.Partitions /\ d.EarlyTerminations = {}
                /\ \A i \in I : d.Partitions[i].Faults = {} /\ d.Partitions[i].Unproven = {},
         dl |-> [d EXCEPT
                   !.Partitions = [k \in 1 .. Cardinality(kept) |->
                        d.Partitions[CHOOSE i \in kept : ShiftedIndex(I, i) = k]],
                   !.LiveSectors = @ - Cardinality(live),
                   !.TotalSectors = @ - Cardinality(live \cup dead),
                   !.ExpirationsEpochs = CutQueue(@, I)],
         live |-> live, dead |-> dead,
         power |-> SumOfPowers([i \in I |-> d.Partitions[i].LivePower])]

-----------------------------------------------------------------------------
Init ==
    /\ epoch = 0 /\ phase = "messages"
    /\ dl = ConstructDeadline
    /\ sectors = <<>> /\ allocated = {}
    /\ initialPledge = 0 /\ earlyBit = FALSE /\ claim = PowerZero
    /\ jobs = 0 /\ nextJobs = 0 /\ cronFailed = FALSE

InMessages == phase = "messages" /\ ~cronFailed

(* requestUpdatePower: the power actor refuses a negative claim.            *)
UpdateClaim(delta) ==
    /\ NonNegative(Plus(claim, delta))
    /\ claim' = Plus(claim, delta)

(* ConfirmSectorProofsValid for sectors assigned to this deadline: the      *)
(* assignment never picks an immutable one.  The pre-commitment bounds the  *)
(* expiration from above, the confirmation from below.                      *)
SectorFor(s, expiration) ==
    LET new == [Activation |-> epoch, Expiration |-> expiration,
                VerifiedDealWeight |-> IF s \in VerifiedSectors THEN expiration - epoch ELSE 0,
                HasDeals |-> s \in VerifiedSectors, InitialPledge |-> 0]
    IN  [new EXCEPT !.InitialPledge = PledgePerPower * QAPowerForSector(new)]

ConfirmSectorProofsValid(S, expirations) ==
    LET new == [s \in S |-> SectorFor(s, expirations[s])]
    IN  /\ InMessages /\ deadlineIsMutable
        /\ \A s \in S : /\ expirations[s] - epoch >= MinSectorExpiration
                        /\ expirations[s] <= epoch + MaxSectorExpirationExtension
        /\ \E r \in {DAddSectors(dl, FALSE, new, S)} : r.ok /\ dl' = r.dl
        /\ sectors' = [s \in DOMAIN sectors \cup S |->
                          IF s \in S THEN new[s] ELSE sectors[s]]
        /\ allocated' = allocated \cup S
        /\ initialPledge' = initialPledge + PledgeForSectors(new, S)
        /\ UNCHANGED <<epoch, phase, earlyBit, claim, jobs, nextJobs, cronFailed>>

(* SubmitWindowedPoSt: a proof that recovers power is verified at once, any *)
(* other is kept, unverified, for a dispute.                                *)
SubmitWindowedPoSt(I, skipped, valid) ==
    /\ InMessages /\ IsOpen
    /\ \E r \in {RecordProvenSectors(dl, sectors, I, skipped, LastOf(epoch) + FaultMaxAge)} :
          /\ r.ok /\ r.proven # {}
          /\ IF r.recoveredPower = PowerZero
             THEN dl' = [r.dl EXCEPT !.OptimisticPoStSubmissions =
                             Append(@, [Partitions |-> I, Valid |-> valid])]
             ELSE valid /\ dl' = r.dl
          /\ UpdateClaim(r.powerDelta)
    /\ UNCHANGED <<epoch, phase, sectors, allocated, initialPledge, earlyBit, jobs,
                   nextJobs, cronFailed>>

(* DisputeWindowedPoSt of the k-th submission of the last challenge window: *)
(* the sectors it claimed to prove are recorded as faulty, with the sector  *)
(* information of that time.                                                *)
DisputedSectors(k) ==
    [i \in dl.OptimisticPoStSubmissionsSnapshot[k].Partitions |->
        ActiveSectors(dl.PartitionsSnapshot[i])]
DisputeResult(k) ==
    DRecordFaults(dl, dl.SectorsSnapshot, DisputedSectors(k),
                  LastOf(epoch) - WPoStProvingPeriod + FaultMaxAge)
Disputable(k) ==
    /\ InMessages /\ deadlineAvailableForOptimisticPoStDispute
    /\ ~dl.OptimisticPoStSubmissionsSnapshot[k].Valid
SnapshotCurrent(k) ==
    \A i \in DOMAIN DisputedSectors(k) \cap DOMAIN dl.Partitions :
        \A s \in DisputedSectors(k)[i] \cap LiveSectors(dl.Partitions[i]) :
            dl.SectorsSnapshot[s] = sectors[s]

DisputeWindowedPoSt(k) ==
    /\ Disputable(k)
    /\ StaleDisputes \/ SnapshotCurrent(k)
    /\ \E r \in {DisputeResult(k)} :
          /\ r.ok
          /\ dl' = [r.dl EXCEPT !.OptimisticPoStSubmissionsSnapshot =
                       [j \in DOMAIN @ \ {k} |-> @[j]]]
          /\ UpdateClaim(r.powerDelta)
    /\ UNCHANGED <<epoch, phase, sectors, allocated, initialPledge, earlyBit, jobs,
                   nextJobs, cronFailed>>

(* The limits of DeadlineSectorMap.Check on the sectors S of a message *)
WithinLimits(S) ==
    /\ Cardinality(S) <= AddressedSectorsMax
    /\ Cardinality(DOMAIN PartitionSectors(dl, S)) <= AddressedPartitionsMax

DeclareFaults(S) ==
    /\ InMessages /\ ~FaultCutoffPassed /\ WithinLimits(S)
    /\ \E r \in {DRecordFaults(dl, sectors, PartitionSectors(dl, S),
                               LastOf(epoch) + FaultMaxAge)} :
          /\ r.ok
          /\ dl' = r.dl
          /\ UpdateClaim(r.powerDelta)
    /\ UNCHANGED <<epoch, phase, sectors, allocated, initialPledge, earlyBit, jobs,
                   nextJobs, cronFailed>>

DeclareFaultsRecovered(S) ==
    /\ InMessages /\ ~FaultCutoffPassed /\ WithinLimits(S)
    /\ \E r \in {DDeclareFaultsRecovered(dl, sectors, PartitionSectors(dl, S))} :
          r.ok /\ dl' = r.dl
    /\ UNCHANGED <<epoch, phase, sectors, allocated, initialPledge, earlyBit, claim,
                   jobs, nextJobs, cronFailed>>

(* ExtendSectorExpiration of S: deal weight already spent is dropped.  The  *)
(* deadline need not be mutable.                                            *)
Extended(info, expiration) ==
    [info EXCEPT
        !.Expiration = expiration,
        !.VerifiedDealWeight = (@ * (info.Expiration - epoch))
                                   \div (info.Expiration - info.Activation)]

validateExpiration(activation, expiration) ==
    /\ expiration - activation >= MinSectorExpiration
    /\ expiration <= epoch + MaxSectorExpirationExtension
    /\ expiration - activation <= MaxSectorLifetime

(* ReplaceSectors in every partition of pm, and the sector table after it   *)
Replaced(new, pm) == [i \in DOMAIN pm |-> PReplaceSectors(dl.Partitions[i], sectors, new, pm[i])]

ExtendSectorExpiration(S, expiration) ==
    LET new == [s \in DOMAIN sectors |->
                   IF s \in S THEN Extended(sectors[s], expiration) ELSE sectors[s]]
    IN  /\ InMessages
        /\ Cardinality(S) <= AddressedSectorsMax
        /\ \A s \in S : /\ epoch <= sectors[s].Expiration
                        /\ sectors[s].Expiration <= expiration
                        /\ validateExpiration(sectors[s].Activation, expiration)
        /\ \E r \in {Replaced(new, PartitionSectors(dl, S))} :
              /\ AllOk(r)
              /\ dl' = [dl EXCEPT
                           !.Partitions = WithPartitions(dl, r),
                           !.ExpirationsEpochs = AddExpirationPartitions(@, expiration, DOMAIN r)]
              /\ UpdateClaim(SumOfPowers([i \in DOMAIN r |-> r[i].powerDelta]))
        /\ sectors' = new
        /\ UNCHANGED <<epoch, phase, allocated, initialPledge, earlyBit, jobs, nextJobs,
                       cronFailed>>

(* ProveReplicaUpdates: a committed-capacity sector takes verified deals    *)
(* for the rest of its life; its pledge may grow.                           *)
Upgraded(info) ==
    LET new == [info EXCEPT !.Activation = epoch, !.HasDeals = TRUE,
                            !.VerifiedDealWeight = info.Expiration - epoch]
    IN  [new EXCEPT !.InitialPledge = Max({@, PledgePerPower * QAPowerForSector(new)})]

ProveReplicaUpdates(S) ==
    LET new == [s \in DOMAIN sectors |-> IF s \in S THEN Upgraded(sectors[s]) ELSE sectors[s]]
    IN  /\ InMessages /\ deadlineIsMutable
        /\ \A s \in S : ~sectors[s].HasDeals /\ epoch < sectors[s].Expiration
        /\ \E r \in {Replaced(new, PartitionSectors(dl, S))} :
              /\ AllOk(r)
              /\ dl' = [dl EXCEPT !.Partitions = WithPartitions(dl, r)]
              /\ UpdateClaim(SumOfPowers([i \in DOMAIN r |-> r[i].powerDelta]))
        /\ sectors' = new
        /\ initialPledge' = initialPledge + PledgeForSectors(new, S)
                                          - PledgeForSectors(sectors, S)
        /\ UNCHANGED <<epoch, phase, allocated, earlyBit, jobs, nextJobs, cronFailed>>

(* scheduleEarlyTerminationWork: a callback for the next epoch *)
MutantNotScheduled(needed) == nextJobs
scheduleEarlyTerminationWork(needed) == IF needed THEN nextJobs + 1 ELSE nextJobs

(* processEarlyTerminations on the deadline d: the pledge of the sectors it *)
(* pops is released and their deals are terminated; `more' asks for another *)
(* callback.  The sector table must still know every sector popped.         *)
processEarlyTerminations(d, bit) ==
    LET Result(r) ==
            [ok |-> r.sectors \subseteq DOMAIN sectors, dl |-> r.dl,
             pledge |-> IF r.sectors \subseteq DOMAIN sectors
                        THEN PledgeForSectors(sectors, r.sectors) ELSE 0,
             more |-> r.dl.EarlyTerminations # {}]
    IN  IF ~bit THEN [ok |-> TRUE, dl |-> d, pledge |-> 0, more |-> FALSE]
        ELSE Result(DPopEarlyTerminations(d))

(* TerminateSectors, and what processEarlyTerminations does at once; with   *)
(* no sectors it only goes on with the backlog.                             *)
TerminateSectors(S) ==
    /\ InMessages /\ WithinLimits(S)
    /\ S # {} => deadlineIsMutable
    /\ \E t \in {DTerminateSectors(dl, sectors, epoch, PartitionSectors(dl, S))} :
          /\ t.ok
          /\ UpdateClaim(Minus(PowerZero, t.powerLost))
          /\ \E p \in {processEarlyTerminations(t.dl, earlyBit \/ S # {})} :
                /\ p.ok /\ initialPledge >= p.pledge
                /\ dl' = p.dl
                /\ earlyBit' = p.more
                /\ initialPledge' = initialPledge - p.pledge
                /\ nextJobs' = scheduleEarlyTerminationWork(~earlyBit /\ p.more)
    /\ UNCHANGED <<epoch, phase, sectors, allocated, jobs, cronFailed>>

(* CompactPartitions: the sectors of the partitions I that still live move  *)
(* to the end of the deadline, the others are forgotten.                    *)
CompactPartitions(I) ==
    /\ InMessages /\ deadlineAvailableForCompaction
    /\ \E r \in {RemovePartitions(dl, I)} :
          LET known == [s \in DOMAIN sectors \ r.dead |-> sectors[s]]
          IN  /\ r.ok
              /\ \E a \in {DAddSectors(r.dl, TRUE, known, r.live)} :
                    a.ok /\ r.power = a.power /\ dl' = a.dl
              /\ sectors' = known
    /\ UNCHANGED <<epoch, phase, allocated, initialPledge, earlyBit, claim, jobs,
                   nextJobs, cronFailed>>

-----------------------------------------------------------------------------
(* The end of an epoch: cron runs the deadline callback of the deadline's   *)
(* last epoch before the early-termination callbacks, which are enrolled    *)
(* later.                                                                   *)

EndEpoch ==
    /\ InMessages
    /\ phase' = IF epoch = LastOf(epoch) THEN "deadline" ELSE "jobs"
    /\ UNCHANGED <<epoch, dl, sectors, allocated, initialPledge, earlyBit, claim, jobs,
                   nextJobs, cronFailed>>

(* AdvanceDeadline *)
AdvanceDeadline ==
    LET last == LastOf(epoch)
        Result(e, x) ==
            [ok |-> e.ok /\ x.ok, dl |-> x.dl, pledge |-> x.pledge,
             powerDelta |-> Minus(e.powerDelta, x.activePower), early |-> x.early]
        Expire(e) == Result(e, DPopExpiredSectors(e.dl, last))
    IN  IF ~IsLive(dl)
        THEN [ok |-> TRUE, dl |-> dl, pledge |-> 0, powerDelta |-> PowerZero, early |-> {}]
        ELSE Expire(ProcessDeadlineEnd(dl, last + FaultMaxAge, sectors))

(* handleProvingDeadline: early terminations are processed at once only     *)
(* when there were none before, since otherwise a callback is due already.  *)
handleProvingDeadline ==
    /\ phase = "deadline"
    /\ phase' = "jobs"
    /\ \E r \in {AdvanceDeadline} :
       \E p \in {IF ~earlyBit /\ r.early # {} THEN processEarlyTerminations(r.dl, TRUE)
                 ELSE [ok |-> TRUE, dl |-> r.dl, pledge |-> 0, more |-> earlyBit]} :
          IF /\ r.ok /\ p.ok
             /\ initialPledge >= r.pledge + p.pledge
             /\ NonNegative(Plus(claim, r.powerDelta))
          THEN /\ dl' = p.dl
               /\ earlyBit' = p.more
               /\ initialPledge' = initialPledge - r.pledge - p.pledge
               /\ claim' = Plus(claim, r.powerDelta)
               /\ nextJobs' = scheduleEarlyTerminationWork(~earlyBit /\ p.more)
               /\ UNCHANGED cronFailed
          ELSE /\ cronFailed' = TRUE
               /\ UNCHANGED <<dl, earlyBit, initialPledge, claim, nextJobs>>
    /\ UNCHANGED <<epoch, sectors, allocated, jobs>>

(* The deadline cron of a miner without pledge is discontinued, possibly    *)
(* at the end of another deadline.                                          *)
DeadlineCronDiscontinued ==
    /\ phase = "deadline" /\ initialPledge = 0
    /\ phase' = "jobs"
    /\ UNCHANGED <<epoch, dl, sectors, allocated, initialPledge, earlyBit, claim, jobs,
                   nextJobs, cronFailed>>

(* OnDeferredCronEvent with CronEventProcessEarlyTerminations *)
ProcessEarlyTerminationsEvent ==
    /\ phase = "jobs" /\ ~cronFailed /\ jobs > 0
    /\ jobs' = jobs - 1
    /\ \E p \in {processEarlyTerminations(dl, earlyBit)} :
          IF p.ok /\ initialPledge >= p.pledge
          THEN /\ dl' = p.dl
               /\ earlyBit' = p.more
               /\ initialPledge' = initialPledge - p.pledge
               /\ nextJobs' = scheduleEarlyTerminationWork(p.more)
               /\ UNCHANGED cronFailed
          ELSE /\ cronFailed' = TRUE
               /\ UNCHANGED <<dl, earlyBit, initialPledge, nextJobs>>
    /\ UNCHANGED <<epoch, phase, sectors, allocated, claim>>

NextEpoch ==
    /\ phase = "jobs" /\ jobs = 0 /\ ~cronFailed
    /\ epoch < MaxEpoch
    /\ epoch' = epoch + 1 /\ phase' = "messages"
    /\ jobs' = nextJobs /\ nextJobs' = 0
    /\ UNCHANGED <<dl, sectors, allocated, initialPledge, earlyBit, claim, cronFailed>>

(* The model stops at its horizon. *)
Horizon ==
    /\ phase = "jobs" /\ jobs = 0 /\ epoch = MaxEpoch
    /\ UNCHANGED vars

-----------------------------------------------------------------------------
AllSectors == UNION {dl.Partitions[i].Sectors : i \in DOMAIN dl.Partitions}
NonEmptySubsets(S) == SUBSET S \ {{}}

Next ==
    \/ \E S \in NonEmptySubsets(SectorNumbers \ allocated) :
          \E expirations \in [S -> Expirations] : ConfirmSectorProofsValid(S, expirations)
    \/ \E I \in NonEmptySubsets(DOMAIN dl.Partitions), valid \in BOOLEAN :
          \E skipped \in SUBSET UNION {dl.Partitions[i].Sectors : i \in I} :
             SubmitWindowedPoSt(I, skipped, valid)
    \/ \E k \in DOMAIN dl.OptimisticPoStSubmissionsSnapshot : DisputeWindowedPoSt(k)
    \/ \E S \in NonEmptySubsets(AllSectors) :
          \/ DeclareFaults(S)
          \/ DeclareFaultsRecovered(S)
          \/ \E expiration \in Expirations : ExtendSectorExpiration(S, expiration)
          \/ ProveReplicaUpdates(S)
    \/ \E S \in SUBSET AllSectors : TerminateSectors(S)
    \/ \E I \in NonEmptySubsets(DOMAIN dl.Partitions) : CompactPartitions(I)
    \/ EndEpoch
    \/ handleProvingDeadline
    \/ DeadlineCronDiscontinued
    \/ ProcessEarlyTerminationsEvent
    \/ NextEpoch
    \/ Horizon

Spec == Init /\ [][Next]_vars

(* Cron runs at the end of every epoch and calls back everything enrolled,  *)
(* and epochs follow each other; messages are owed nothing.                 *)
Fairness ==
    /\ WF_phase(phase = "messages" /\ phase' \in {"deadline", "jobs"})
    /\ WF_phase(phase = "deadline" /\ phase' = "jobs")
    /\ WF_jobs(phase = "jobs" /\ jobs > 0 /\ jobs' = jobs - 1)
    /\ WF_vars(NextEpoch)

FairSpec == Spec /\ Fairness

-----------------------------------------------------------------------------
PowerPair == [Raw : Int, QA : Int]
ExpirationSet ==
    [OnTimeSectors : SUBSET SectorNumbers, EarlySectors : SUBSET SectorNumbers,
     OnTimePledge : Int, ActivePower : PowerPair, FaultyPower : PowerPair]
SectorOnChainInfo ==
    [Activation : Int, Expiration : Int, VerifiedDealWeight : Int, HasDeals : BOOLEAN,
     InitialPledge : Int]
IsQueue(q) == DOMAIN q \subseteq Int /\ \A e \in DOMAIN q : q[e] \in ExpirationSet
IsPartition(p) ==
    /\ p = [Sectors |-> p.Sectors, Unproven |-> p.Unproven, Faults |-> p.Faults,
            Recoveries |-> p.Recoveries, Terminated |-> p.Terminated,
            ExpirationsEpochs |-> p.ExpirationsEpochs, EarlyTerminated |-> p.EarlyTerminated,
            LivePower |-> p.LivePower, UnprovenPower |-> p.UnprovenPower,
            FaultyPower |-> p.FaultyPower, RecoveringPower |-> p.RecoveringPower]
    /\ {p.Sectors, p.Unproven, p.Faults, p.Recoveries, p.Terminated} \subseteq SUBSET SectorNumbers
    /\ IsQueue(p.ExpirationsEpochs)
    /\ p.EarlyTerminated \subseteq Int \X SectorNumbers
    /\ {p.LivePower, p.UnprovenPower, p.FaultyPower, p.RecoveringPower} \subseteq PowerPair

(* The state has its type.                                                  *)
TypeOK ==
    /\ epoch \in 0 .. MaxEpoch
    /\ phase \in {"messages", "deadline", "jobs"}
    /\ \A i \in DOMAIN dl.Partitions : IsPartition(dl.Partitions[i])
    /\ DOMAIN dl.Partitions = 1 .. Len(dl.Partitions)
    /\ dl.ExpirationsEpochs \subseteq Int \X DOMAIN dl.Partitions
    /\ dl.PartitionsPoSted \subseteq DOMAIN dl.Partitions
    /\ dl.EarlyTerminations \subseteq DOMAIN dl.Partitions
    /\ {dl.LiveSectors, dl.TotalSectors} \subseteq Int /\ dl.FaultyPower \in PowerPair
    /\ \A s \in DOMAIN sectors : sectors[s] \in SectorOnChainInfo
    /\ DOMAIN sectors \subseteq allocated /\ allocated \subseteq SectorNumbers
    /\ initialPledge \in Int /\ claim \in PowerPair
    /\ earlyBit \in BOOLEAN /\ cronFailed \in BOOLEAN
    /\ jobs \in Nat /\ nextJobs \in Nat

Partitions == {dl.Partitions[i] : i \in DOMAIN dl.Partitions}
SectorsAt(q, e) == q[e].OnTimeSectors \cup q[e].EarlySectors

(* Every sector of the table sits in exactly one partition, compaction      *)
(* (CompactPartitions) and refilling (AddSectors) included, and no number   *)
(* is lost or used twice.                                                   *)
OneHome ==
    /\ AllSectors = DOMAIN sectors
    /\ \A i, j \in DOMAIN dl.Partitions :
          i # j => dl.Partitions[i].Sectors \cap dl.Partitions[j].Sectors = {}

(* Every live sector is scheduled to expire exactly once: on time at its    *)
(* own quantized expiration, or, only while it is faulty, earlier; a        *)
(* terminated sector is not scheduled.  This must survive every way of      *)
(* rescheduling (RescheduleAsFaults, RescheduleAllAsFaults,                 *)
(* RescheduleRecovered, ReplaceSectors, RemoveSectors, PopUntil).           *)
ScheduledOnce ==
    \A p \in Partitions :
        LET q == p.ExpirationsEpochs
        IN  /\ UNION {SectorsAt(q, e) : e \in DOMAIN q} = LiveSectors(p)
            /\ \A e, f \in DOMAIN q : e # f => SectorsAt(q, e) \cap SectorsAt(q, f) = {}
            /\ \A e \in DOMAIN q :
                  /\ SectorsAt(q, e) # {}
                  /\ \A s \in q[e].OnTimeSectors : e = QuantizeUp(sectors[s].Expiration)
                  /\ \A s \in q[e].EarlySectors :
                        s \in p.Faults /\ e < QuantizeUp(sectors[s].Expiration)

(* The deadline's queue of expirations names every partition that has       *)
(* something to expire at an epoch: otherwise popExpiredPartitions would    *)
(* never visit it.                                                          *)
IndexCoversQueues ==
    \A i \in DOMAIN dl.Partitions : \A e \in DOMAIN dl.Partitions[i].ExpirationsEpochs :
        <<e, i>> \in dl.ExpirationsEpochs

(* Once cron has closed the deadline, nothing that was due is still there.  *)
NothingOverdue ==
    \A p \in Partitions : \A e \in DOMAIN p.ExpirationsEpochs :
        epoch < e \/ (epoch = e /\ phase # "jobs")

(* No faulty sector outlives the fault age: its entry is at most FaultMaxAge *)
(* after the end of the proving period in which it is faulty.               *)
FaultsExpireInTime ==
    \A p \in Partitions : \A e \in DOMAIN p.ExpirationsEpochs :
        SectorsAt(p.ExpirationsEpochs, e) \cap p.Faults # {} => e <= LastOf(epoch) + FaultMaxAge

(* The memoized power and pledge of the queues, the partitions and the      *)
(* deadline are the sums over the sectors they stand for, and so are the    *)
(* counts of sectors, although no operation recomputes them.                *)
MemosExact ==
    /\ \A p \in Partitions :
          /\ p.LivePower = PowerForSectors(sectors, LiveSectors(p))
          /\ p.UnprovenPower = PowerForSectors(sectors, p.Unproven)
          /\ p.FaultyPower = PowerForSectors(sectors, p.Faults)
          /\ p.RecoveringPower = PowerForSectors(sectors, p.Recoveries)
          /\ \A es \in Entries(p.ExpirationsEpochs) :
                LET all == es.OnTimeSectors \cup es.EarlySectors
                IN  /\ es.OnTimePledge = PledgeForSectors(sectors, es.OnTimeSectors)
                    /\ es.ActivePower = PowerForSectors(sectors, all \ p.Faults)
                    /\ es.FaultyPower = PowerForSectors(sectors, all \cap p.Faults)
    /\ dl.FaultyPower = PowerForSectors(sectors, UNION {p.Faults : p \in Partitions})
    /\ dl.LiveSectors = Cardinality(UNION {LiveSectors(p) : p \in Partitions})
    /\ dl.TotalSectors = Cardinality(AllSectors)

(* The power the power actor credits to the miner is the power of the       *)
(* sectors that are proven and not faulty, whatever the order of faults,    *)
(* recoveries, proofs, disputes, extensions and terminations.               *)
ClaimIsActivePower ==
    claim = PowerForSectors(sectors, UNION {ActiveSectors(p) : p \in Partitions})

(* The pledge requirement is that of the live sectors and of those whose    *)
(* early termination is not settled: each sector's pledge is released once. *)
PledgeExact ==
    initialPledge = PledgeForSectors(sectors,
        UNION {LiveSectors(p) \cup {t[2] : t \in p.EarlyTerminated} : p \in Partitions})

(* Every live sector is due to expire once, at the right time               *)
(* (ScheduledOnce); once cron has closed the deadline nothing that was due  *)
(* is still there; and no faulty sector outlives the fault age, so that     *)
(* missed proofs end a sector however faults, recoveries, extensions and    *)
(* terminations have moved it.                                              *)
ExpirationsSound == ScheduledOnce /\ NothingOverdue /\ FaultsExpireInTime

(* Whatever the order of operations, what the miner remembers of its        *)
(* sectors (MemosExact), the power it is credited (ClaimIsActivePower) and  *)
(* the pledge it must hold (PledgeExact) are exact, and every index is of a *)
(* partition that exists.                                                   *)
AccountsExact == TypeOK /\ MemosExact /\ ClaimIsActivePower /\ PledgeExact

(* The three levels of the early-termination index agree, and while there   *)
(* is something to settle a callback is enrolled.                           *)
BacklogHasJob ==
    /\ dl.EarlyTerminations = {i \in DOMAIN dl.Partitions : dl.Partitions[i].EarlyTerminated # {}}
    /\ earlyBit <=> dl.EarlyTerminations # {}
    /\ earlyBit => jobs + nextJobs > 0

(* Compaction and refilling lose nothing: sectors have one home (OneHome),  *)
(* the queue of the deadline names every partition with something to expire *)
(* (IndexCoversQueues), and early terminations are known at all three       *)
(* levels and have a callback enrolled (BacklogHasJob).                     *)
IndicesComplete == OneHome /\ IndexCoversQueues /\ BacklogHasJob

(* No cron callback of the miner aborts: none of the checks it runs into    *)
(* (unproven sectors or recoveries at expiry, early expirations moved even  *)
(* earlier, sectors missing from the table, negative pledge or power) can   *)
(* fail.                                                                    *)
CronNeverFails == ~cronFailed

(* A sector that terminated never lives again, compaction included.         *)
TerminatedForever ==
    [][\A s \in allocated :
         (~\E p \in Partitions : s \in LiveSectors(p))
             => ~(\E p \in Partitions' : s \in LiveSectors(p))]_vars

(* Early terminations are settled within as many epochs as there are        *)
(* sectors: each callback settles one sector at least and enrols the next   *)
(* callback (checked where the horizon leaves the time).                    *)
BacklogClears ==
    (earlyBit /\ epoch + Cardinality(SectorNumbers) <= MaxEpoch) ~> ~earlyBit

(* "This always works": the dispute of an invalid proof can record its      *)
(* faults.                                                                  *)
DisputeRecordsFaults ==
    \A k \in DOMAIN dl.OptimisticPoStSubmissionsSnapshot :
        Disputable(k) => /\ DisputeResult(k).ok
                         /\ NonNegative(Plus(claim, DisputeResult(k).powerDelta))
=============================================================================
