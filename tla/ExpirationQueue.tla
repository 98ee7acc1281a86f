-------------------------- MODULE ExpirationQueue --------------------------
(***************************************************************************)
(* The expiration queue of a partition (actors/builtin/miner/              *)
(* expiration_queue.go): for each quantized epoch, the sectors that expire *)
(* there "on time" or "early" (because they are faulty), with the pledge   *)
(* and the power those sectors carry.                                      *)
(*                                                                         *)
(* A queue is a function from its non-empty epochs to expiration sets.     *)
(* `infos' maps sector numbers to their on-chain information.  Every       *)
(* operation that can fail returns a record with a field `ok'; where `ok'  *)
(* is FALSE the Go method returns an error and the other fields mean       *)
(* nothing (the callers abort the message).                                *)
(***************************************************************************)
EXTENDS Integers, FiniteSets, FiniteSetsExt

CONSTANTS
    WPoStProvingPeriod,  \* epochs between two openings of a deadline
    DeadlineLast         \* Last() of the deadline: the offset seed of its quantization

(* QuantSpec.QuantizeUp with unit WPoStProvingPeriod: the division rounds   *)
(* up, before and after the offset alike.                                   *)
QuantizeUp(e) ==
    LET offset == DeadlineLast % WPoStProvingPeriod
    IN  offset - WPoStProvingPeriod * ((offset - e) \div WPoStProvingPeriod)

-----------------------------------------------------------------------------
(* Power.  Raw power counts sectors; QualityForWeight averages the base     *)
(* multiplier 10 and the verified-deal multiplier 100 over the space-time   *)
(* of the sector, in units of a tenth of a sector size.                     *)

PowerZero == [Raw |-> 0, QA |-> 0]
Plus(a, b) == [Raw |-> a.Raw + b.Raw, QA |-> a.QA + b.QA]
Minus(a, b) == [Raw |-> a.Raw - b.Raw, QA |-> a.QA - b.QA]
NonNegative(a) == a.Raw >= 0 /\ a.QA >= 0

QAPowerForSector(info) ==
    LET duration == info.Expiration - info.Activation
    IN  ((duration - info.VerifiedDealWeight) * 10 + info.VerifiedDealWeight * 100)
            \div duration

PowerForSectors(infos, S) ==
    [Raw |-> Cardinality(S),
     QA  |-> MapThenSumSet(LAMBDA s : QAPowerForSector(infos[s]), S)]

PledgeForSectors(infos, S) == MapThenSumSet(LAMBDA s : infos[s].InitialPledge, S)

SumOfPowers(f) ==
    [Raw |-> MapThenSumSet(LAMBDA x : f[x].Raw, DOMAIN f),
     QA  |-> MapThenSumSet(LAMBDA x : f[x].QA, DOMAIN f)]

-----------------------------------------------------------------------------
(* Expiration sets *)

NewExpirationSetEmpty ==
    [OnTimeSectors |-> {}, EarlySectors |-> {}, OnTimePledge |-> 0,
     ActivePower |-> PowerZero, FaultyPower |-> PowerZero]

ESAdd(es, onTime, early, pledge, active, faulty) ==
    [OnTimeSectors |-> es.OnTimeSectors \cup onTime,
     EarlySectors  |-> es.EarlySectors \cup early,
     OnTimePledge  |-> es.OnTimePledge + pledge,
     ActivePower   |-> Plus(es.ActivePower, active),
     FaultyPower   |-> Plus(es.FaultyPower, faulty)]

ESRemove(es, onTime, early, pledge, active, faulty) ==
    [OnTimeSectors |-> es.OnTimeSectors \ onTime,
     EarlySectors  |-> es.EarlySectors \ early,
     OnTimePledge  |-> es.OnTimePledge - pledge,
     ActivePower   |-> Minus(es.ActivePower, active),
     FaultyPower   |-> Minus(es.FaultyPower, faulty)]

(* ExpirationSet.ValidateState *)
ESValid(es) ==
    es.OnTimePledge >= 0 /\ NonNegative(es.ActivePower) /\ NonNegative(es.FaultyPower)

IsEmptyES(es) == es.OnTimeSectors = {} /\ es.EarlySectors = {}

-----------------------------------------------------------------------------
(* The queue as an array of expiration sets *)

NewQueue == [e \in {} |-> NewExpirationSetEmpty]

mayGet(q, e) == IF e \in DOMAIN q THEN q[e] ELSE NewExpirationSetEmpty

(* mustUpdateOrDelete at every epoch an operation touched: entries left     *)
(* without sectors disappear.                                               *)
DeleteEmpty(q) == [e \in {x \in DOMAIN q : ~IsEmptyES(q[x])} |-> q[e]]

Entries(q) == {q[e] : e \in DOMAIN q}
QueueValid(q) == \A es \in Entries(q) : ESValid(es)

DeclaredExpirations(infos, S) == {QuantizeUp(infos[s].Expiration) : s \in S}
DeclaredAt(infos, S, e) == {s \in S : QuantizeUp(infos[s].Expiration) = e}

(* AddActiveSectors: each sector becomes on-time at its own expiration.     *)
AddActiveSectors(q, infos, S) ==
    LET new == [e \in DOMAIN q \cup DeclaredExpirations(infos, S) |->
                    LET T == DeclaredAt(infos, S, e)
                    IN  ESAdd(mayGet(q, e), T, {}, PledgeForSectors(infos, T),
                              PowerForSectors(infos, T), PowerZero)]
    IN  [ok |-> QueueValid(new), q |-> new,
         power |-> PowerForSectors(infos, S), pledge |-> PledgeForSectors(infos, S)]

(* The sectors of S that findSectorsByExpiration groups at epoch e: at a    *)
(* declared expiration those found there on time, elsewhere those found     *)
(* there on time that no declared expiration holds.                         *)
FoundAsDeclared(q, infos, S) ==
    {s \in S : \E e \in DeclaredExpirations(infos, S) : s \in mayGet(q, e).OnTimeSectors}
GroupAt(q, infos, S, e) ==
    mayGet(q, e).OnTimeSectors \cap
        (IF e \in DeclaredExpirations(infos, S) THEN S
         ELSE S \ FoundAsDeclared(q, infos, S))

(* findSectorsByExpiration succeeds when the traversal in epoch order meets *)
(* every remaining sector on time before it meets it early.                 *)
CanFindSectors(q, infos, S) ==
    \A s \in S \ FoundAsDeclared(q, infos, S) :
        \E f \in DOMAIN q \ DeclaredExpirations(infos, S) :
            /\ s \in q[f].OnTimeSectors
            /\ \A e \in DOMAIN q \ DeclaredExpirations(infos, S) :
                   e <= f => s \notin q[e].EarlySectors

(* RescheduleAsFaults: a group that expires by the fault expiration stays   *)
(* on time with its power turned faulty; later groups move to the fault     *)
(* expiration as early.  The groups found by traversal all hold a pointer   *)
(* to one expiration set, the last one visited: each update is applied to   *)
(* that set after the updates for the earlier groups, and stored under the  *)
(* group's own epoch.                                                       *)
RescheduleAsFaults(q, faultExpiration, infos, S) ==
    LET fe == QuantizeUp(faultExpiration)
        declared == DeclaredExpirations(infos, S)
        G(e) == GroupAt(q, infos, S, e)
        groups == {e \in DOMAIN q : G(e) # {}}
        traversed == groups \ declared
        base(e) == IF e \in traversed THEN q[Max(traversed)] ELSE q[e]
        upTo(e) == IF e \in traversed THEN {u \in traversed : u <= e} ELSE {e}
        early(e) == UNION {G(u) : u \in {v \in upTo(e) : v > fe}}
        kept(e) == UNION {G(u) : u \in {v \in upTo(e) : v <= fe}}
        after(e) ==
            [OnTimeSectors |-> base(e).OnTimeSectors \ early(e),
             EarlySectors  |-> base(e).EarlySectors,
             OnTimePledge  |-> base(e).OnTimePledge - PledgeForSectors(infos, early(e)),
             ActivePower   |-> Minus(base(e).ActivePower,
                                     PowerForSectors(infos, early(e) \cup kept(e))),
             FaultyPower   |-> Plus(base(e).FaultyPower, PowerForSectors(infos, kept(e)))]
        moved == UNION {G(e) : e \in {v \in groups : v > fe}}
        swept == [e \in DOMAIN q |-> IF e \in groups THEN after(e) ELSE q[e]]
        base2 == DeleteEmpty(swept)
        new == [e \in DOMAIN base2 \cup (IF moved = {} THEN {} ELSE {fe}) |->
                    IF e = fe
                    THEN ESAdd(mayGet(base2, fe), {}, moved, 0, PowerZero,
                               PowerForSectors(infos, moved))
                    ELSE base2[e]]
    IN  [ok |-> CanFindSectors(q, infos, S) /\ QueueValid(swept), q |-> new,
         power |-> PowerForSectors(infos, S)]

(* RescheduleAllAsFaults: all power up to the fault expiration turns        *)
(* faulty, everything later collapses into the fault expiration as early.   *)
MutantKeepLate(q, faultExpiration) ==
    [ok |-> TRUE,
     q |-> [e \in DOMAIN q |->
               [q[e] EXCEPT !.ActivePower = PowerZero,
                            !.FaultyPower = Plus(q[e].ActivePower, q[e].FaultyPower)]]]
RescheduleAllAsFaults(q, faultExpiration) ==
    LET fe == QuantizeUp(faultExpiration)
        late == {e \in DOMAIN q : e > fe}
        turned(es) == [es EXCEPT !.ActivePower = PowerZero,
                                 !.FaultyPower = Plus(es.ActivePower, es.FaultyPower)]
        new == [e \in (DOMAIN q \ late) \cup (IF late = {} THEN {} ELSE {fe}) |->
                    IF e = fe
                    THEN ESAdd(turned(mayGet(q, fe)), {},
                               UNION {q[x].OnTimeSectors : x \in late}, 0, PowerZero,
                               SumOfPowers([x \in late |->
                                                Plus(q[x].ActivePower, q[x].FaultyPower)]))
                    ELSE turned(q[e])]
    IN  [ok |-> \A e \in late : q[e].EarlySectors = {}, q |-> new]

(* RescheduleRecovered: faulty power turns active; the sectors found early  *)
(* return to their own expiration.                                          *)
RescheduleRecovered(q, infos, S) ==
    LET onTime(e) == q[e].OnTimeSectors \cap S
        early(e) == q[e].EarlySectors \cap S
        swept == [e \in DOMAIN q |->
                    [q[e] EXCEPT
                        !.EarlySectors = @ \ S,
                        !.ActivePower = Plus(@, PowerForSectors(infos, onTime(e))),
                        !.FaultyPower = Minus(@, PowerForSectors(infos, onTime(e) \cup early(e)))]]
        found == UNION {onTime(e) \cup early(e) : e \in DOMAIN q}
        added == AddActiveSectors(DeleteEmpty(swept), infos, UNION {early(e) : e \in DOMAIN q})
    IN  [ok |-> S \subseteq found /\ QueueValid(swept) /\ added.ok, q |-> added.q,
         power |-> PowerForSectors(infos, S)]

(* removeActiveSectors *)
removeActiveSectors(q, infos, S) ==
    LET swept == [e \in DOMAIN q |->
                    LET T == GroupAt(q, infos, S, e)
                    IN  ESRemove(q[e], T, {}, PledgeForSectors(infos, T),
                                 PowerForSectors(infos, T), PowerZero)]
    IN  [ok |-> CanFindSectors(q, infos, S) /\ QueueValid(swept), q |-> DeleteEmpty(swept),
         power |-> PowerForSectors(infos, S), pledge |-> PledgeForSectors(infos, S)]

(* ReplaceSectors: the sectors S leave with their old information and come  *)
(* back with the new one.                                                   *)
QReplaceSectors(q, old, new, S) ==
    LET Result(removed, added) ==
            [ok |-> removed.ok /\ added.ok, q |-> added.q,
             powerDelta |-> Minus(added.power, removed.power),
             pledgeDelta |-> added.pledge - removed.pledge]
        AddBack(removed) == Result(removed, AddActiveSectors(removed.q, new, S))
    IN  AddBack(removeActiveSectors(q, old, S))

(* RemoveSectors: the non-faulty ones from where they expire on time, the   *)
(* faulty ones from wherever they are.                                      *)
RemoveSectors(q, infos, S, faults, recovering) ==
    LET F == S \cap faults
        RemoveFaulty(active) ==
            LET onTime(e) == active.q[e].OnTimeSectors \cap F
                early(e) == active.q[e].EarlySectors \cap F
                swept == [e \in DOMAIN active.q |->
                            ESRemove(active.q[e], onTime(e), early(e),
                                     PledgeForSectors(infos, onTime(e)), PowerZero,
                                     PowerForSectors(infos, onTime(e) \cup early(e)))]
                allOnTime == UNION {onTime(e) : e \in DOMAIN active.q}
                allEarly == UNION {early(e) : e \in DOMAIN active.q}
            IN  [ok |-> /\ active.ok /\ F \subseteq allOnTime \cup allEarly
                        /\ QueueValid(swept),
                 q |-> DeleteEmpty(swept),
                 removed |-> [OnTimeSectors |-> (S \ faults) \cup allOnTime,
                              EarlySectors  |-> allEarly,
                              OnTimePledge  |-> active.pledge + PledgeForSectors(infos, allOnTime),
                              ActivePower   |-> active.power,
                              FaultyPower   |-> PowerForSectors(infos, F)],
                 recoveringPower |-> PowerForSectors(infos, F \cap recovering)]
    IN  RemoveFaulty(removeActiveSectors(q, infos, S \ faults))

(* PopUntil *)
PopUntil(q, until) ==
    LET popped == {e \in DOMAIN q : e <= until}
    IN  [q |-> [e \in DOMAIN q \ popped |-> q[e]],
         popped |-> [OnTimeSectors |-> UNION {q[e].OnTimeSectors : e \in popped},
                     EarlySectors  |-> UNION {q[e].EarlySectors : e \in popped},
                     OnTimePledge  |-> MapThenSumSet(LAMBDA e : q[e].OnTimePledge, popped),
                     ActivePower   |-> SumOfPowers([e \in popped |-> q[e].ActivePower]),
                     FaultyPower   |-> SumOfPowers([e \in popped |-> q[e].FaultyPower])]]
=============================================================================
