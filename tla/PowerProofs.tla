----------------------------- MODULE PowerProofs ----------------------------
(***************************************************************************)
(* Proof that the events of Power are called back at most once and always  *)
(* wait where a tick finds them, for any miners, bounds and power changes. *)
(*                                                                         *)
(* A failing callback brings back the state before it, so whatever is said *)
(* of the queue is said of that state too.                                 *)
(***************************************************************************)
EXTENDS PowerReward, TLAPS

StateFields ==
  {"Claims", "TotalRawBytePower", "TotalQualityAdjPower",
   "TotalBytesCommitted", "TotalQABytesCommitted", "TotalPledgeCollateral",
   "ThisEpochRawBytePower", "ThisEpochQualityAdjPower", "ThisEpochPledgeCollateral",
   "MinerCount", "MinerAboveMinPowerCount", "CronEventQueue", "FirstCronEpoch",
   "ProofValidationBatch"}

CallFields == {"miners", "events", "failed", "miner", "back", "saved"}

\* Events with identities of their own, none of which was called back.
EventsSound(events) ==
  /\ \A ev \in events : ev.id \in Nat /\ ev.id < nextID /\ ev.id \notin done /\ ev.epoch \in Nat
  /\ \A a, b \in events : a.id = b.id => a = b

QueueSound(s) ==
  /\ DOMAIN s = StateFields
  /\ s.FirstCronEpoch \in Nat
  /\ EventsSound(s.CronEventQueue)
  /\ \A ev \in s.CronEventQueue : ev.epoch >= s.FirstCronEpoch
  /\ \A a \in s.CronEventQueue, b \in call.events : a.id # b.id

\* The inductive invariant.
Inv ==
  /\ nextID \in Nat
  /\ epoch \in Nat
  /\ \A id \in done : id \in Nat /\ id < nextID
  /\ DOMAIN call = CallFields
  /\ EventsSound(call.events)
  /\ QueueSound(st)
  /\ phase = "callback" => QueueSound(call.saved) /\ call.back # "callback"

-----------------------------------------------------------------------------

\* The inductive invariant implies that events are called back once.
LEMMA InvImplies == Inv => EventsOnce
  BY DEF Inv, QueueSound, EventsSound, EventsOnce, IDs

\* No event is enrolled or called back in the beginning.
LEMMA InitInv == Init => Inv
  BY DEF Init, Inv, Idle, QueueSound, EventsSound, StateFields, CallFields

\* A step that leaves the queue, the tick and the history alone keeps Inv.
LEMMA QueueUntouched ==
  ASSUME Inv, DOMAIN st' = StateFields,
         st'.CronEventQueue = st.CronEventQueue,
         st'.FirstCronEpoch = st.FirstCronEpoch,
         UNCHANGED <<epoch, phase, call, nextID, done>>
  PROVE  Inv'
  BY DEF Inv, QueueSound, EventsSound

\* A change of a claim does not touch the queue.
LEMMA ClaimsOnly ==
  ASSUME NEW s, NEW m, NEW delta, DOMAIN s = StateFields
  PROVE  /\ DOMAIN addToClaim(s, m, delta) = StateFields
         /\ addToClaim(s, m, delta).CronEventQueue = s.CronEventQueue
         /\ addToClaim(s, m, delta).FirstCronEpoch = s.FirstCronEpoch
  BY DEF addToClaim, StateFields

\* Removing a claim leaves the queue of events alone.
LEMMA RemoveOnly ==
  ASSUME NEW s, NEW m, DOMAIN s = StateFields
  PROVE  /\ DOMAIN RemoveClaim(s, m) = StateFields
         /\ RemoveClaim(s, m).CronEventQueue = s.CronEventQueue
         /\ RemoveClaim(s, m).FirstCronEpoch = s.FirstCronEpoch
<1> DEFINE power == <<-s.Claims[m].RawBytePower, -s.Claims[m].QualityAdjPower>>
           r == addToClaim(s, m, power)
<1>1. /\ DOMAIN r = StateFields
      /\ r.CronEventQueue = s.CronEventQueue
      /\ r.FirstCronEpoch = s.FirstCronEpoch
  BY ClaimsOnly
<1>2. RemoveClaim(s, m) =
        IF ~HasClaim(s, m) THEN s
        ELSE IF AddFails(r, m) THEN [r EXCEPT !.Claims = s.Claims]
             ELSE [r EXCEPT !.Claims = [@ EXCEPT ![m] = NoClaim], !.MinerCount = @ - 1]
  BY DEF RemoveClaim
<1> HIDE DEF r
<1> QED
  BY <1>1, <1>2 DEF StateFields

-----------------------------------------------------------------------------

\* A call of a miner enrolls at most one event, under a fresh number.
LEMMA MinerStepInv == Inv /\ MinerStep => Inv'
<1> SUFFICES ASSUME Inv, NEW m \in Miners,
                    \/ \E p \in MinPowers : CreateMiner(m, p)
                    \/ \E d \in Deltas : UpdateClaimedPower(m, d)
                    \/ \E d \in PledgeDeltas : UpdatePledgeTotal(m, d)
                    \/ \E e \in 0 .. MaxEpoch : EnrollCronEvent(m, e)
                    \/ SubmitPoRepForBulkVerify(m)
             PROVE  Inv'
  BY DEF MinerStep
<1>1. DOMAIN st = StateFields
  BY DEF Inv, QueueSound
<1>2. CASE \E p \in MinPowers : CreateMiner(m, p)
  BY <1>1, <1>2, QueueUntouched DEF CreateMiner, StateFields
<1>3. CASE \E d \in Deltas : UpdateClaimedPower(m, d)
  BY <1>1, <1>3, QueueUntouched, ClaimsOnly DEF UpdateClaimedPower
<1>4. CASE \E d \in PledgeDeltas : UpdatePledgeTotal(m, d)
  BY <1>1, <1>4, QueueUntouched DEF UpdatePledgeTotal, StateFields
<1>5. CASE \E e \in 0 .. MaxEpoch : EnrollCronEvent(m, e)
  <2>1. PICK e \in 0 .. MaxEpoch : EnrollCronEvent(m, e)
    BY <1>5
  <2> DEFINE new == [id |-> nextID, epoch |-> e, miner |-> m]
  <2>2. /\ DOMAIN st' = StateFields
        /\ st'.CronEventQueue = st.CronEventQueue \cup {new}
        /\ st'.FirstCronEpoch = FirstAfter(st, e)
        /\ nextID' = nextID + 1
        /\ UNCHANGED <<epoch, phase, call, done>>
    BY <1>1, <2>1 DEF EnrollCronEvent, StateFields
  <2>3. new.id = nextID /\ new.epoch = e /\ e \in Nat
    BY PowerAssumption
  <2>4. /\ FirstAfter(st, e) \in Nat
        /\ FirstAfter(st, e) <= e
        /\ FirstAfter(st, e) <= st.FirstCronEpoch
    BY <2>3 DEF FirstAfter, Inv, QueueSound
  <2> HIDE DEF new
  <2>5. nextID \notin done
    BY DEF Inv
  <2> QED
    BY <2>2, <2>3, <2>4, <2>5 DEF Inv, QueueSound, EventsSound
<1>6. CASE SubmitPoRepForBulkVerify(m)
  BY <1>1, <1>6, QueueUntouched DEF SubmitPoRepForBulkVerify, StateFields
<1> QED
  BY <1>2, <1>3, <1>4, <1>5, <1>6

-----------------------------------------------------------------------------

\* Starting a callback keeps the invariant: the state that it saves satisfies it.
LEMMA CallbackInv ==
  ASSUME Inv, NEW c, NEW m, NEW back,
         Callback(c, m, back), back # "callback",
         DOMAIN c = CallFields, c.events \subseteq call.events,
         \A ev \in c.events : ev.id \notin done',
         \A ev \in st.CronEventQueue : ev.id \notin done',
         \A id \in done' : id \in Nat /\ id < nextID,
         UNCHANGED <<st, epoch, nextID>>
  PROVE  Inv'
<1>1. /\ DOMAIN call' = CallFields
      /\ call'.events = c.events
      /\ call'.back = back
      /\ call'.saved = st
  BY DEF Callback, CallFields
<1>2. EventsSound(call.events)'
  BY <1>1 DEF Inv, EventsSound
<1>3. QueueSound(st)'
  BY <1>1 DEF Inv, QueueSound, EventsSound
<1>4. QueueSound(call.saved)'
  BY <1>1, <1>3 DEF QueueSound, EventsSound
<1> QED
  BY <1>1, <1>2, <1>3, <1>4 DEF Inv

\* Every step of the tick keeps the invariant.
LEMMA TickStepInv == Inv /\ TickStep => Inv'
<1> SUFFICES ASSUME Inv, TickStep
             PROVE  Inv'
  OBVIOUS
<1>0. DOMAIN st = StateFields /\ DOMAIN call = CallFields
  BY DEF Inv, QueueSound
<1>1. ASSUME NEW verified \in BOOLEAN, CronTick(verified)
      PROVE  Inv'
  <2>1. /\ DOMAIN st' = StateFields
        /\ st'.CronEventQueue = st.CronEventQueue
        /\ st'.FirstCronEpoch = st.FirstCronEpoch
    BY <1>0, <1>1 DEF CronTick, StateFields
  <2>2. DOMAIN call' = CallFields /\ call'.events = {} /\ phase' = "confirm"
    BY <1>1 DEF CronTick, CallFields, Idle
  <2> QED
    BY <1>1, <2>1, <2>2 DEF CronTick, Inv, QueueSound, EventsSound
<1>2. ASSUME NEW m \in Miners, NEW successful \in BOOLEAN,
             ConfirmSectorProofsValid(m, successful)
      PROVE  Inv'
  <2>0. PICK c : c = [call EXCEPT !.miners = @ \ {m}]
    OBVIOUS
  <2>1. DOMAIN c = CallFields /\ c.events = call.events
    BY <1>0, <2>0 DEF CallFields
  <2>2. /\ IF successful THEN Callback(c, m, "confirm") ELSE call' = c /\ UNCHANGED phase
        /\ UNCHANGED <<st, epoch, created, nextID, done>>
        /\ phase = "confirm"
    BY <1>2, <2>0 DEF ConfirmSectorProofsValid
  <2>3. CASE successful
    <3>1. \A ev \in c.events : ev.id \notin done'
      BY <2>1, <2>2 DEF Inv, EventsSound
    <3>2. \A ev \in st.CronEventQueue : ev.id \notin done'
      BY <2>2 DEF Inv, QueueSound, EventsSound
    <3>3. \A id \in done' : id \in Nat /\ id < nextID
      BY <2>2 DEF Inv
    <3> QED
      BY <2>1, <2>2, <2>3, <3>1, <3>2, <3>3, CallbackInv
  <2>4. CASE ~successful
    BY <2>1, <2>2, <2>4 DEF Inv, QueueSound, EventsSound
  <2> QED
    BY <2>3, <2>4
<1>3. ASSUME LoadCronEvents
      PROVE  Inv'
  <2> DEFINE due == Due(st, epoch)
             claimed == {ev \in due : HasClaim(st, ev.miner)}
  <2>1. /\ DOMAIN st' = StateFields
        /\ st'.CronEventQueue = st.CronEventQueue \ due
        /\ st'.FirstCronEpoch = epoch + 1
        /\ DOMAIN call' = CallFields
        /\ call'.events = claimed
        /\ phase' = "events"
        /\ UNCHANGED <<epoch, nextID, done>>
    BY <1>0, <1>3 DEF LoadCronEvents, StateFields, CallFields
  <2>2. claimed \subseteq due /\ due \subseteq st.CronEventQueue
    BY DEF Due
  <2>3. \A ev \in st.CronEventQueue \ due : ev.epoch >= epoch + 1
    BY DEF Due, Inv, QueueSound, EventsSound
  <2> HIDE DEF claimed, due
  <2> QED
    BY <2>1, <2>2, <2>3 DEF Inv, QueueSound, EventsSound
<1>4. ASSUME OnDeferredCronEvent
      PROVE  Inv'
  <2>1. PICK ev \in call.events :
          /\ Callback([call EXCEPT !.events = @ \ {ev}], ev.miner, "events")
          /\ done' = done \cup {ev.id}
          /\ UNCHANGED <<st, epoch, created, nextID>>
    BY <1>4 DEF OnDeferredCronEvent
  <2>0. PICK c : c = [call EXCEPT !.events = @ \ {ev}]
    OBVIOUS
  <2>2. DOMAIN c = CallFields /\ c.events = call.events \ {ev}
    BY <1>0, <2>0 DEF CallFields
  <2>3. PICK m : m = ev.miner /\ Callback(c, m, "events")
    BY <2>0, <2>1
  <2>4. \A e \in c.events : e.id \notin done'
    BY <2>1, <2>2 DEF Inv, EventsSound
  <2>5. \A e \in st.CronEventQueue : e.id \notin done'
    BY <2>1 DEF Inv, QueueSound, EventsSound
  <2>6. \A id \in done' : id \in Nat /\ id < nextID
    BY <2>1 DEF Inv, EventsSound
  <2> QED
    BY <2>1, <2>2, <2>3, <2>4, <2>5, <2>6, CallbackInv
<1>5. ASSUME NEW ok \in BOOLEAN, CallbackReturns(ok)
      PROVE  Inv'
  <2>1. /\ phase = "callback"
        /\ phase' = call.back
        /\ st' = IF ok THEN st ELSE call.saved
        /\ UNCHANGED <<epoch, nextID, done>>
    BY <1>5 DEF CallbackReturns
  <2>2. DOMAIN call' = CallFields /\ call'.events = call.events
    BY <1>0, <1>5 DEF CallbackReturns, CallFields
  <2>3. QueueSound(st) /\ QueueSound(call.saved) /\ call.back # "callback"
    BY <2>1 DEF Inv
  <2>4. QueueSound(st)'
    BY <2>1, <2>2, <2>3 DEF QueueSound, EventsSound
  <2> QED
    BY <2>1, <2>2, <2>3, <2>4 DEF Inv, EventsSound
<1>6. ASSUME EventsDone
      PROVE  Inv'
  BY <1>6 DEF EventsDone, Inv, QueueSound, EventsSound
<1>7. ASSUME DeleteClaim
      PROVE  Inv'
  <2>1. PICK m : m = Head(call.failed) /\ st' = RemoveClaim(st, m)
    BY <1>7 DEF DeleteClaim
  <2>2. /\ DOMAIN st' = StateFields
        /\ st'.CronEventQueue = st.CronEventQueue
        /\ st'.FirstCronEpoch = st.FirstCronEpoch
    BY <1>0, <2>1, RemoveOnly
  <2>3. DOMAIN call' = CallFields /\ call'.events = call.events
    BY <1>0, <1>7 DEF DeleteClaim, CallFields
  <2> QED
    BY <1>7, <2>2, <2>3 DEF DeleteClaim, Inv, QueueSound, EventsSound
<1>8. ASSUME FinishTick
      PROVE  Inv'
  <2>1. /\ DOMAIN st' = StateFields
        /\ st'.CronEventQueue = st.CronEventQueue
        /\ st'.FirstCronEpoch = st.FirstCronEpoch
    BY <1>0, <1>8 DEF FinishTick, StateFields
  <2>2. DOMAIN call' = CallFields /\ call'.events = {} /\ phase' = "ticked"
    BY <1>8 DEF FinishTick, CallFields, Idle
  <2> QED
    BY <1>8, <2>1, <2>2 DEF FinishTick, Inv, QueueSound, EventsSound
<1>9. ASSUME NEW n \in 1 .. MaxNullRounds + 1, NextEpoch(n)
      PROVE  Inv'
  BY <1>9 DEF NextEpoch, Inv, QueueSound, EventsSound
<1> QED
  BY <1>1, <1>2, <1>3, <1>4, <1>5, <1>6, <1>7, <1>8, <1>9 DEF TickStep

\* Every event is called back at most once, and one that waits is found by the
\* next tick at or after its epoch, for any number of miners, events and failing
\* callbacks (processDeferredCronEvents and appendCronEvent).
THEOREM EventsCalledOnce == Spec => []EventsOnce
<1>1. Inv /\ [Next]_vars => Inv'
  <2> SUFFICES ASSUME Inv, [Next]_vars
               PROVE  Inv'
    OBVIOUS
  <2>1. CASE Next
    BY <2>1, MinerStepInv, TickStepInv DEF Next
  <2>2. CASE UNCHANGED vars
    BY <2>2 DEF vars, Inv, QueueSound, EventsSound
  <2> QED
    BY <2>1, <2>2
<1> QED
  BY <1>1, InitInv, InvImplies, PTL DEF Spec

\* The power actor that tells the reward actor of every tick takes no step that
\* the power actor alone would not: what holds of it holds of the composition.
THEOREM ImplementsPower == PRSpec => Spec
<1>1. PRInit => Init
  BY DEF PRInit
<1>2. (plan \in Plans) /\ [PRNext]_composed => (plan \in Plans)' /\ [Next]_vars
  <2> SUFFICES ASSUME plan \in Plans, [PRNext]_composed
               PROVE  (plan \in Plans)' /\ [Next]_vars
    OBVIOUS
  <2>1. CASE PRMinerStep
    BY <2>1 DEF PRMinerStep, Next
  <2>2. CASE PRFinishTick
    BY <2>2 DEF PRFinishTick, Next, TickStep
  <2>3. CASE PRTickStep
    <3>1. plan.steps \subseteq 1 .. MaxNullRounds + 1
      BY PlansAssumption
    <3> QED
      BY <2>3, <3>1 DEF PRTickStep, Next, TickStep
  <2>4. CASE \E gasReward \in GasRewards, winCount \in WinCounts : Award(gasReward, winCount)
    BY <2>4 DEF Award
  <2>5. CASE UNCHANGED composed
    BY <2>5 DEF composed
  <2> QED
    BY <2>1, <2>2, <2>3, <2>4, <2>5 DEF PRNext
<1>3. PRInit => plan \in Plans
  BY DEF PRInit
<1> QED
  BY <1>1, <1>2, <1>3, PTL DEF PRSpec, Spec
=============================================================================
