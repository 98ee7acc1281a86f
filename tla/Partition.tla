----------------------------- MODULE Partition -----------------------------
(***************************************************************************)
(* A partition of a deadline (actors/builtin/miner/partition_state.go): the *)
(* sets of its sectors in each condition, the memoized power of each set,   *)
(* the expiration queue, and the queue of early terminations whose fees are *)
(* still to be charged, here the set of its <<epoch, sector>> pairs.        *)
(***************************************************************************)
EXTENDS ExpirationQueue

ConstructPartition ==
    [Sectors |-> {}, Unproven |-> {}, Faults |-> {}, Recoveries |-> {}, Terminated |-> {},
     ExpirationsEpochs |-> NewQueue, EarlyTerminated |-> {},
     LivePower |-> PowerZero, UnprovenPower |-> PowerZero,
     FaultyPower |-> PowerZero, RecoveringPower |-> PowerZero]

LiveSectors(p) == p.Sectors \ p.Terminated
ActiveSectors(p) == (LiveSectors(p) \ p.Faults) \ p.Unproven
ActivePower(p) == Minus(Minus(p.LivePower, p.FaultyPower), p.UnprovenPower)

ValidatePowerState(p) ==
    /\ NonNegative(p.LivePower) /\ NonNegative(p.UnprovenPower)
    /\ NonNegative(p.FaultyPower) /\ NonNegative(p.RecoveringPower)
    /\ p.UnprovenPower.Raw <= p.LivePower.Raw
    /\ p.FaultyPower.Raw <= p.LivePower.Raw
    /\ p.RecoveringPower.Raw <= p.LivePower.Raw
    /\ p.RecoveringPower.Raw <= p.FaultyPower.Raw

ValidateBFState(p) ==
    /\ p.Terminated \cap (p.Unproven \cup p.Faults) = {}
    /\ p.Unproven \cup p.Faults \cup p.Terminated \subseteq p.Sectors
    /\ p.Recoveries \subseteq p.Faults

ValidateState(p) == ValidatePowerState(p) /\ ValidateBFState(p)

(* AddSectors *)
PAddSectors(p, proven, infos, S) ==
    LET Result(r) ==
            LET new == [p EXCEPT
                          !.ExpirationsEpochs = r.q,
                          !.Sectors = @ \cup S,
                          !.LivePower = Plus(@, r.power),
                          !.Unproven = IF proven THEN @ ELSE @ \cup S,
                          !.UnprovenPower = IF proven THEN @ ELSE Plus(@, r.power)]
            IN  [ok |-> r.ok /\ p.Sectors \cap S = {} /\ ValidateState(new), p |-> new,
                 power |-> r.power]
    IN  Result(AddActiveSectors(p.ExpirationsEpochs, infos, S))

(* addFaults: S is neither faulty nor terminated; what was unproven loses   *)
(* no power, since it had none.                                             *)
addFaults(p, infos, S, faultExpiration) ==
    LET Result(r) ==
            LET lostUnproven == PowerForSectors(infos, S \cap p.Unproven)
                new == [p EXCEPT
                          !.ExpirationsEpochs = r.q,
                          !.Faults = @ \cup S,
                          !.FaultyPower = Plus(@, r.power),
                          !.Unproven = @ \ S,
                          !.UnprovenPower = Minus(@, lostUnproven)]
            IN  [ok |-> r.ok /\ ValidateState(new), p |-> new,
                 powerDelta |-> Minus(lostUnproven, r.power), newFaultyPower |-> r.power]
    IN  Result(RescheduleAsFaults(p.ExpirationsEpochs, faultExpiration, infos, S))

(* removeRecoveries *)
removeRecoveries(p, infos, S) ==
    [p EXCEPT !.Recoveries = @ \ S,
              !.RecoveringPower = Minus(@, PowerForSectors(infos, S))]

(* RecordFaults: already faulty and terminated sectors are skipped, declared *)
(* recoveries are retracted.                                                 *)
PRecordFaults(p, infos, S, faultExpiration) ==
    LET retracted == p.Recoveries \cap S
        newFaults == ((S \ retracted) \ p.Terminated) \ p.Faults
        Result(added) ==
            LET new == removeRecoveries(added.p, infos, retracted)
            IN  [ok |-> S \subseteq p.Sectors /\ added.ok /\ ValidateState(new), p |-> new,
                 newFaults |-> newFaults, powerDelta |-> added.powerDelta,
                 newFaultyPower |-> added.newFaultyPower]
    IN  Result(addFaults(p, infos, newFaults, faultExpiration))

(* RecordSkippedFaults *)
RecordSkippedFaults(p, infos, skipped, faultExpiration) ==
    LET retracted == p.Recoveries \cap skipped
        newFaults == (skipped \ p.Terminated) \ p.Faults
        Result(added) ==
            LET new == removeRecoveries(added.p, infos, retracted)
            IN  [ok |-> skipped \subseteq p.Sectors /\ added.ok /\ ValidateState(new), p |-> new,
                 powerDelta |-> added.powerDelta, newFaultyPower |-> added.newFaultyPower,
                 hasNewFaults |-> newFaults # {}]
    IN  IF skipped = {}
        THEN [ok |-> TRUE, p |-> p, powerDelta |-> PowerZero, newFaultyPower |-> PowerZero,
              hasNewFaults |-> FALSE]
        ELSE Result(addFaults(p, infos, newFaults, faultExpiration))

(* RecoverFaults: every declared recovery becomes active again.             *)
RecoverFaults(p, infos) ==
    LET Result(r) ==
            LET new == [p EXCEPT
                          !.ExpirationsEpochs = r.q,
                          !.Faults = @ \ p.Recoveries,
                          !.Recoveries = {},
                          !.FaultyPower = Minus(@, r.power),
                          !.RecoveringPower = Minus(@, r.power)]
            IN  [ok |-> r.ok /\ ValidateState(new), p |-> new, power |-> r.power]
    IN  Result(RescheduleRecovered(p.ExpirationsEpochs, infos, p.Recoveries))

MutantStillUnproven(p) == [p EXCEPT !.UnprovenPower = PowerZero]
ActivateUnproven(p) == [p EXCEPT !.Unproven = {}, !.UnprovenPower = PowerZero]

(* DeclareFaultsRecovered: sectors not faulty or already recovering are     *)
(* skipped.                                                                 *)
PDeclareFaultsRecovered(p, infos, S) ==
    LET recoveries == (S \cap p.Faults) \ p.Recoveries
        new == [p EXCEPT !.Recoveries = @ \cup recoveries,
                         !.RecoveringPower = Plus(@, PowerForSectors(infos, recoveries))]
    IN  [ok |-> S \subseteq p.Sectors /\ ValidateState(new), p |-> new]

(* ReplaceSectors with the same sector numbers and new information *)
PReplaceSectors(p, old, new, S) ==
    LET Result(r) ==
            LET after == [p EXCEPT !.ExpirationsEpochs = r.q, !.LivePower = Plus(@, r.powerDelta)]
            IN  [ok |-> r.ok /\ S \subseteq ActiveSectors(p) /\ ValidateState(after), p |-> after,
                 powerDelta |-> r.powerDelta, pledgeDelta |-> r.pledgeDelta]
    IN  Result(QReplaceSectors(p.ExpirationsEpochs, old, new, S))

(* Terminated sectors accumulate. *)
MutantOnlyNewlyTerminated(p, S) == S
WithTerminated(p, S) == p.Terminated \cup S

(* recordEarlyTermination *)
recordEarlyTermination(early, epoch, S) == early \cup ({epoch} \X S)

(* TerminateSectors.  The active power removed excludes the unproven power. *)
PTerminateSectors(p, infos, epoch, S) ==
    LET Result(r) ==
            LET unprovenPower == PowerForSectors(infos, S \cap p.Unproven)
                new == [p EXCEPT
                          !.ExpirationsEpochs = r.q,
                          !.EarlyTerminated = recordEarlyTermination(@, epoch, S),
                          !.Faults = @ \ S,
                          !.Recoveries = @ \ S,
                          !.Terminated = WithTerminated(p, S),
                          !.Unproven = @ \ S,
                          !.LivePower = Minus(Minus(@, r.removed.ActivePower), r.removed.FaultyPower),
                          !.FaultyPower = Minus(@, r.removed.FaultyPower),
                          !.RecoveringPower = Minus(@, r.recoveringPower),
                          !.UnprovenPower = Minus(@, unprovenPower)]
            IN  [ok |-> S \subseteq LiveSectors(p) /\ r.ok /\ ValidateState(new), p |-> new,
                 removed |-> [r.removed EXCEPT !.ActivePower = Minus(@, unprovenPower)]]
    IN  Result(RemoveSectors(p.ExpirationsEpochs, infos, S, p.Faults, p.Recoveries))

(* PopExpiredSectors, which refuses unproven sectors, recoveries and        *)
(* sectors that already terminated.                                         *)
PPopExpiredSectors(p, until) ==
    LET Result(r) ==
            LET expired == r.popped.OnTimeSectors \cup r.popped.EarlySectors
                new == [p EXCEPT
                          !.ExpirationsEpochs = r.q,
                          !.Terminated = WithTerminated(p, expired),
                          !.Faults = @ \ expired,
                          !.LivePower = Minus(@, Plus(r.popped.ActivePower, r.popped.FaultyPower)),
                          !.FaultyPower = Minus(@, r.popped.FaultyPower),
                          !.EarlyTerminated = recordEarlyTermination(@, until, r.popped.EarlySectors)]
            IN  [ok |-> /\ p.Unproven = {} /\ p.Recoveries = {} /\ p.RecoveringPower = PowerZero
                        /\ p.Terminated \cap expired = {} /\ ValidateState(new),
                 p |-> new, popped |-> r.popped]
    IN  Result(PopUntil(p.ExpirationsEpochs, until))

(* RecordMissedPost: everything live becomes faulty, recoveries are lost.   *)
RecordMissedPost(p, faultExpiration) ==
    LET Result(r) ==
            LET newFaultyPower == Minus(p.LivePower, p.FaultyPower)
                new == [p EXCEPT
                          !.ExpirationsEpochs = r.q,
                          !.Faults = LiveSectors(p), !.Recoveries = {}, !.Unproven = {},
                          !.FaultyPower = p.LivePower, !.RecoveringPower = PowerZero,
                          !.UnprovenPower = PowerZero]
            IN  [ok |-> r.ok /\ ValidateState(new), p |-> new,
                 powerDelta |-> Minus(p.UnprovenPower, newFaultyPower),
                 newFaultyPower |-> newFaultyPower]
    IN  Result(RescheduleAllAsFaults(p.ExpirationsEpochs, faultExpiration))

(* PopEarlyTerminations: the first maxSectors terminations, by epoch and    *)
(* then by sector number.                                                   *)
TerminatedBefore(a, b) == a[1] < b[1] \/ (a[1] = b[1] /\ a[2] < b[2])
FirstTerminations(early, maxSectors) ==
    {t \in early : Cardinality({u \in early : TerminatedBefore(u, t)}) < maxSectors}
=============================================================================
