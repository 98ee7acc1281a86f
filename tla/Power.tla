------------------------------- MODULE Power --------------------------------
(***************************************************************************)
(* The power actor (actors/builtin/power) and the tick that the cron actor *)
(* gives it at the end of every epoch: what miners claim, the totals kept  *)
(* of it, the batch of proofs to verify and the queue of callbacks.        *)
(*                                                                         *)
(* The tick loops over miners and events and calls them back.  It is       *)
(* unfolded, one step per call and per claim removed.  During a callback   *)
(* the miner calls the power actor; a callback that fails undoes all of    *)
(* it, so the state at the send is kept in `call'.  Messages that abort    *)
(* change nothing and are no steps.                                        *)
(***************************************************************************)
EXTENDS Integers, Sequences, FiniteSets, FiniteSetsExt

CONSTANTS
  Miners,                        \* miner actors that may be created
  MinPowers,                     \* ConsensusMinerMinPower of the proof types (sector.go)
  Deltas,                        \* <<raw, quality-adjusted>> power changes miners report
  PledgeDeltas,                  \* pledge changes miners report
  ConsensusMinerMinMiners,       \* policy.go
  MaxMinerProveCommitsPerEpoch,  \* policy.go
  NoClaim,                       \* what Claims holds for a miner without one
  NoMiner,                       \* no callback is under way
  MaxPower,                      \* bound: raw power of a claim
  MaxPledge,                     \* bound: total pledge
  MaxEvents,                     \* bound: events ever enrolled
  MaxNullRounds,                 \* bound: epochs that may pass without a tipset
  MaxEpoch                       \* bound: the last epoch

Claim == [MinPower : Nat, RawBytePower : Nat, QualityAdjPower : Nat]

ASSUME PowerAssumption ==
  /\ IsFiniteSet(Miners)
  /\ MinPowers \subseteq Nat \ {0}
  /\ Deltas \subseteq Int \X Int
  /\ PledgeDeltas \subseteq Int
  /\ ConsensusMinerMinMiners \in Nat /\ MaxMinerProveCommitsPerEpoch \in Nat
  /\ NoClaim \notin Claim /\ NoMiner \notin Miners
  /\ MaxPower \in Nat /\ MaxPledge \in Nat /\ MaxEvents \in Nat
  /\ MaxNullRounds \in Nat /\ MaxEpoch \in Nat

VARIABLES
  st,       \* State
  epoch,    \* rt.CurrEpoch()
  phase,    \* "messages", or where the tick is: "confirm", "events", "callback", "remove", "ticked"
  call,     \* locals of the tick
  created,  \* miners that the init actor has made
  nextID,   \* history: number of events ever enrolled
  done      \* history: identities of the events called back

vars == <<st, epoch, phase, call, created, nextID, done>>

EventIDs == 0 .. MaxEvents - 1

Event == [id : EventIDs, epoch : 0 .. MaxEpoch, miner : Miners]

State ==
  [Claims : [Miners -> Claim \cup {NoClaim}],
   TotalRawBytePower : Nat, TotalQualityAdjPower : Nat,
   TotalBytesCommitted : Nat, TotalQABytesCommitted : Nat,
   TotalPledgeCollateral : Nat,
   ThisEpochRawBytePower : Nat, ThisEpochQualityAdjPower : Nat,
   ThisEpochPledgeCollateral : Nat,
   MinerCount : Nat, MinerAboveMinPowerCount : Nat,
   CronEventQueue : SUBSET Event, FirstCronEpoch : 0 .. MaxEpoch + 1,
   ProofValidationBatch : [Miners -> 0 .. MaxMinerProveCommitsPerEpoch]]

\* The locals of the tick: miners whose proofs are still to be confirmed, events
\* still to be called back, failedMinerCrons, and of the callback under way the
\* miner, the phase it returns to and the state before it.
Idle == [miners |-> {}, events |-> {}, failed |-> <<>>,
         miner |-> NoMiner, back |-> "messages", saved |-> NoClaim]

HasClaim(s, m) == s.Claims[m] # NoClaim

Init ==
  /\ st = [Claims |-> [m \in Miners |-> NoClaim],
           TotalRawBytePower |-> 0, TotalQualityAdjPower |-> 0,
           TotalBytesCommitted |-> 0, TotalQABytesCommitted |-> 0,
           TotalPledgeCollateral |-> 0,
           ThisEpochRawBytePower |-> 0, ThisEpochQualityAdjPower |-> 0,
           ThisEpochPledgeCollateral |-> 0,
           MinerCount |-> 0, MinerAboveMinPowerCount |-> 0,
           CronEventQueue |-> {}, FirstCronEpoch |-> 0,
           ProofValidationBatch |-> [m \in Miners |-> 0]]
  /\ epoch = 0
  /\ phase = "messages"
  /\ call = Idle
  /\ created = {}
  /\ nextID = 0
  /\ done = {}

-----------------------------------------------------------------------------
(* Claims.                                                                 *)

\* A miner calls in a message, or in the callback that is under way.
MayCall(m) ==
  \/ phase = "messages" /\ m \in created
  \/ phase = "callback" /\ call.miner = m

CreateMiner(m, minPower) ==
  /\ phase = "messages"
  /\ m \notin created
  /\ st' = [st EXCEPT
       !.Claims = [st.Claims EXCEPT ![m] =
          [MinPower |-> minPower, RawBytePower |-> 0, QualityAdjPower |-> 0]],
       !.MinerCount = st.MinerCount + 1,
       !.MinerAboveMinPowerCount =
          st.MinerAboveMinPowerCount + (IF minPower <= 0 THEN 1 ELSE 0)]
  /\ created' = created \cup {m}
  /\ UNCHANGED <<epoch, phase, call, nextID, done>>

\* A claim that shrinks below the minimum takes only the change with it.
MutantCrossing(old, new) ==
  LET above(c) == c.RawBytePower >= c.MinPower
  IN  [count |-> (IF above(new) THEN 1 ELSE 0) - (IF above(old) THEN 1 ELSE 0),
       raw |-> IF above(old) THEN new.RawBytePower - old.RawBytePower
               ELSE IF above(new) THEN new.RawBytePower ELSE 0,
       qa |-> IF above(old) THEN new.QualityAdjPower - old.QualityAdjPower
              ELSE IF above(new) THEN new.QualityAdjPower ELSE 0]

\* What a change of one claim from old to new does to the count and the totals
\* of claims that reach the minimum.
Crossing(old, new) ==
  LET prevBelow  == old.RawBytePower < old.MinPower
      stillBelow == new.RawBytePower < old.MinPower
  IN  CASE prevBelow /\ ~stillBelow ->
             [count |-> 1, raw |-> new.RawBytePower, qa |-> new.QualityAdjPower]
        [] ~prevBelow /\ stillBelow ->
             [count |-> -1, raw |-> -old.RawBytePower, qa |-> -old.QualityAdjPower]
        [] ~prevBelow /\ ~stillBelow ->
             [count |-> 0, raw |-> new.RawBytePower - old.RawBytePower,
              qa |-> new.QualityAdjPower - old.QualityAdjPower]
        [] OTHER -> [count |-> 0, raw |-> 0, qa |-> 0]

\* The state after the claim of m, present in s, is changed by delta.
addToClaim(s, m, delta) ==
  LET old == s.Claims[m]
      new == [old EXCEPT !.RawBytePower = @ + delta[1], !.QualityAdjPower = @ + delta[2]]
      change == Crossing(old, new)
  IN  [s EXCEPT !.Claims = [@ EXCEPT ![m] = new],
                !.TotalBytesCommitted = @ + delta[1],
                !.TotalQABytesCommitted = @ + delta[2],
                !.TotalRawBytePower = @ + change.raw,
                !.TotalQualityAdjPower = @ + change.qa,
                !.MinerAboveMinPowerCount = @ + change.count]

\* The negative amounts on which addToClaim returns an error.
AddFails(s, m) ==
  \/ s.Claims[m].RawBytePower < 0
  \/ s.Claims[m].QualityAdjPower < 0
  \/ s.MinerAboveMinPowerCount < 0

UpdateClaimedPower(m, delta) ==
  /\ MayCall(m)
  /\ HasClaim(st, m)
  /\ \E s \in {addToClaim(st, m, delta)} :
       /\ ~AddFails(s, m)
       /\ s.Claims[m].RawBytePower <= MaxPower
       /\ st' = s
  /\ UNCHANGED <<epoch, phase, call, created, nextID, done>>

UpdatePledgeTotal(m, delta) ==
  /\ MayCall(m)
  /\ HasClaim(st, m)
  /\ st.TotalPledgeCollateral + delta \in 0 .. MaxPledge
  /\ st' = [st EXCEPT !.TotalPledgeCollateral = @ + delta]
  /\ UNCHANGED <<epoch, phase, call, created, nextID, done>>

-----------------------------------------------------------------------------
(* Events and proofs.                                                      *)

MutantForward(s, e) == s.FirstCronEpoch

\* FirstCronEpoch once an event is enrolled for epoch e.
FirstAfter(s, e) == IF e < s.FirstCronEpoch THEN e ELSE s.FirstCronEpoch

\* Any miner may enroll, with a claim or without.  The events of an epoch are
\* kept in the order of their identities, which is the order of appending.
EnrollCronEvent(m, e) ==
  /\ MayCall(m)
  /\ nextID < MaxEvents
  /\ st' = [st EXCEPT
       !.CronEventQueue = @ \cup {[id |-> nextID, epoch |-> e, miner |-> m]},
       !.FirstCronEpoch = FirstAfter(st, e)]
  /\ nextID' = nextID + 1
  /\ UNCHANGED <<epoch, phase, call, created, done>>

\* Only miners' own messages submit proofs, their callbacks do not.
SubmitPoRepForBulkVerify(m) ==
  /\ phase = "messages" /\ m \in created
  /\ HasClaim(st, m)
  /\ st.ProofValidationBatch[m] < MaxMinerProveCommitsPerEpoch
  /\ st' = [st EXCEPT !.ProofValidationBatch[m] = @ + 1]
  /\ UNCHANGED <<epoch, phase, call, created, nextID, done>>

-----------------------------------------------------------------------------
(* The tick.                                                               *)

\* processBatchProofVerifies empties the batch before any proof is looked at.
\* Without an answer of the verifier no miner is told anything.
ClaimedBatch(s) == {m \in Miners : HasClaim(s, m) /\ s.ProofValidationBatch[m] > 0}

CronTick(verified) ==
  /\ phase = "messages"
  /\ st' = [st EXCEPT !.ProofValidationBatch = [m \in Miners |-> 0]]
  /\ call' = [Idle EXCEPT !.miners = IF verified THEN ClaimedBatch(st) ELSE {}]
  /\ phase' = "confirm"
  /\ UNCHANGED <<epoch, created, nextID, done>>

\* Sends to m; back is where the tick goes on afterwards.
Callback(c, m, back) ==
  /\ call' = [c EXCEPT !.miner = m, !.back = back, !.saved = st]
  /\ phase' = "callback"

\* The miners come in the order of their keys, which the model leaves open.  A
\* miner none of whose proofs is good is not called.
ConfirmSectorProofsValid(m, successful) ==
  /\ phase = "confirm"
  /\ m \in call.miners
  /\ \E c \in {[call EXCEPT !.miners = @ \ {m}]} :
       IF successful THEN Callback(c, m, "confirm")
       ELSE call' = c /\ UNCHANGED phase
  /\ UNCHANGED <<st, epoch, created, nextID, done>>

\* The first loop of processDeferredCronEvents: events up to now leave the
\* queue, those of miners without a claim for good.
MutantToday(s, now) == {ev \in s.CronEventQueue : ev.epoch = now}

Due(s, now) == {ev \in s.CronEventQueue : s.FirstCronEpoch <= ev.epoch /\ ev.epoch <= now}

LoadCronEvents ==
  /\ phase = "confirm"
  /\ call.miners = {}
  /\ st' = [st EXCEPT !.CronEventQueue = @ \ Due(st, epoch),
                      !.FirstCronEpoch = epoch + 1]
  /\ call' = [call EXCEPT !.events = {ev \in Due(st, epoch) : HasClaim(st, ev.miner)}]
  /\ phase' = "events"
  /\ UNCHANGED <<epoch, created, nextID, done>>

\* Events are called back by epoch and, within one, in the order of enrolling.
Earlier(a, b) == a.epoch < b.epoch \/ (a.epoch = b.epoch /\ a.id < b.id)

OnDeferredCronEvent ==
  /\ phase = "events"
  /\ \E ev \in call.events :
       /\ \A other \in call.events \ {ev} : Earlier(ev, other)
       /\ Callback([call EXCEPT !.events = @ \ {ev}], ev.miner, "events")
       /\ done' = done \cup {ev.id}
  /\ UNCHANGED <<st, epoch, created, nextID>>

\* A callback that fails leaves no trace in the state; only that of an event is
\* remembered.
CallbackReturns(ok) ==
  /\ phase = "callback"
  /\ st' = IF ok THEN st ELSE call.saved
  /\ call' = [call EXCEPT !.miner = NoMiner, !.back = "messages", !.saved = NoClaim,
       !.failed = IF ~ok /\ call.back = "events" THEN Append(@, call.miner) ELSE @]
  /\ phase' = call.back
  /\ UNCHANGED <<epoch, created, nextID, done>>

EventsDone ==
  /\ phase = "events"
  /\ call.events = {}
  /\ phase' = "remove"
  /\ UNCHANGED <<st, epoch, call, created, nextID, done>>

\* The state after the claim of a failed miner is removed, if it has one.  On an
\* error of addToClaim the claim stays.
RemoveClaim(s, m) ==
  IF ~HasClaim(s, m) THEN s
  ELSE LET power == <<-s.Claims[m].RawBytePower, -s.Claims[m].QualityAdjPower>>
           r == addToClaim(s, m, power)
       IN  IF AddFails(r, m) THEN [r EXCEPT !.Claims = s.Claims]
           ELSE [r EXCEPT !.Claims = [@ EXCEPT ![m] = NoClaim], !.MinerCount = @ - 1]

DeleteClaim ==
  /\ phase = "remove"
  /\ call.failed # <<>>
  /\ st' = RemoveClaim(st, Head(call.failed))
  /\ call' = [call EXCEPT !.failed = Tail(@)]
  /\ UNCHANGED <<epoch, phase, created, nextID, done>>

CurrentTotalPower(s) ==
  IF s.MinerAboveMinPowerCount < ConsensusMinerMinMiners
  THEN <<s.TotalBytesCommitted, s.TotalQABytesCommitted>>
  ELSE <<s.TotalRawBytePower, s.TotalQualityAdjPower>>

\* The last transaction of CronTick.  The reward actor that is told of it does
\* not fail.
FinishTick ==
  /\ phase = "remove"
  /\ call.failed = <<>>
  /\ st' = [st EXCEPT !.ThisEpochRawBytePower = CurrentTotalPower(st)[1],
                      !.ThisEpochQualityAdjPower = CurrentTotalPower(st)[2],
                      !.ThisEpochPledgeCollateral = st.TotalPledgeCollateral]
  /\ call' = Idle
  /\ phase' = "ticked"
  /\ UNCHANGED <<epoch, created, nextID, done>>

\* The cron actor ticks in every epoch that has a tipset.
NextEpoch(n) ==
  /\ phase = "ticked"
  /\ epoch + n <= MaxEpoch
  /\ epoch' = epoch + n
  /\ phase' = "messages"
  /\ UNCHANGED <<st, call, created, nextID, done>>

MinerStep ==
  \E m \in Miners :
    \/ \E p \in MinPowers : CreateMiner(m, p)
    \/ \E d \in Deltas : UpdateClaimedPower(m, d)
    \/ \E d \in PledgeDeltas : UpdatePledgeTotal(m, d)
    \/ \E e \in 0 .. MaxEpoch : EnrollCronEvent(m, e)
    \/ SubmitPoRepForBulkVerify(m)

TickStep ==
  \/ \E verified \in BOOLEAN : CronTick(verified)
  \/ \E m \in Miners, successful \in BOOLEAN : ConfirmSectorProofsValid(m, successful)
  \/ LoadCronEvents
  \/ OnDeferredCronEvent
  \/ \E ok \in BOOLEAN : CallbackReturns(ok)
  \/ EventsDone
  \/ DeleteClaim
  \/ FinishTick
  \/ \E n \in 1 .. MaxNullRounds + 1 : NextEpoch(n)

Next == MinerStep \/ TickStep

Spec == Init /\ [][Next]_vars

-----------------------------------------------------------------------------
(* Properties.                                                             *)

Claimants == {m \in Miners : HasClaim(st, m)}
Sufficient == {m \in Claimants : st.Claims[m].RawBytePower >= st.Claims[m].MinPower}
RawPower(S) == MapThenSumSet(LAMBDA m : st.Claims[m].RawBytePower, S)
QAPower(S) == MapThenSumSet(LAMBDA m : st.Claims[m].QualityAdjPower, S)

\* MinerNominalPowerMeetsConsensusMinimum, by which block winners are validated.
MeetsConsensusMinimum(m) ==
  \/ st.Claims[m].RawBytePower >= st.Claims[m].MinPower
  \/ /\ st.MinerAboveMinPowerCount < ConsensusMinerMinMiners
     /\ st.Claims[m].RawBytePower > 0

\* The totals and counts that power_actor.go keeps by adding and subtracting are
\* those of the claims at all times: also in and after callbacks that fail, when
\* a miner fails twice in a tick, and when claims cross the minimum (the checks
\* of CheckClaimInvariants, and the count of miners); none is ever negative, within
\* a callback that fails included.  The power that a tick
\* publishes is the power of the miners that may win blocks, and of no others:
\* their shares of it add up to one.
TotalsMatchClaims ==
  /\ st \in State
  /\ st.TotalBytesCommitted = RawPower(Claimants)
  /\ st.TotalQABytesCommitted = QAPower(Claimants)
  /\ st.TotalRawBytePower = RawPower(Sufficient)
  /\ st.TotalQualityAdjPower = QAPower(Sufficient)
  /\ st.MinerAboveMinPowerCount = Cardinality(Sufficient)
  /\ st.MinerCount = Cardinality(Claimants)
  /\ phase = "ticked" =>
       st.ThisEpochRawBytePower = RawPower({m \in Claimants : MeetsConsensusMinimum(m)})

IDs(events) == {ev.id : ev \in events}

\* An event waits where a later tick looks for it, at FirstCronEpoch or after
\* (CheckCronInvariants), although callbacks enroll events for epochs that are
\* over; and one that was called back is not called back again.
EventsOnce ==
  /\ \A ev \in st.CronEventQueue : ev.epoch >= st.FirstCronEpoch
  /\ IDs(st.CronEventQueue) \cap IDs(call.events) = {}
  /\ done \cap (IDs(st.CronEventQueue) \cup IDs(call.events)) = {}

\* Every event that is in the queue between ticks is called back in the end,
\* also when it was enrolled during a tick for an epoch that tick was past, or
\* null rounds pass over its epoch.  Only a miner without a claim loses its
\* events, and a callback that fails loses those it has enrolled.
EventsRun ==
  \A id \in EventIDs, m \in Miners :
    (phase = "messages" /\ \E ev \in st.CronEventQueue : ev.id = id /\ ev.miner = m)
      ~> (id \in done \/ ~HasClaim(st, m))
=============================================================================
