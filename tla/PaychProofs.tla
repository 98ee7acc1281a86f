---------------------------- MODULE PaychProofs -----------------------------
(***************************************************************************)
(* Proofs about the payment channel, for every set of lanes and vouchers   *)
(* and any number of messages.                                             *)
(*                                                                         *)
(* The inductive invariant ties the log to the lanes: a lane's nonce is at *)
(* least every nonce the log has for it (LogBehind).  Of an update under   *)
(* way it says which merges are done and that the working copy of the      *)
(* lanes is ahead of the state (CallSound).                                *)
(***************************************************************************)
EXTENDS Paych, SequenceTheorems, TLAPS

LaneMap == [Lanes -> LaneState \cup {NoLane}]

\* lane has state, with at least this nonce.
Behind(lstates, lane, nonce) == lstates[lane] # NoLane /\ nonce <= lstates[lane].Nonce

\* Every nonce of sv, its own and its merges', is behind.
VoucherBehind(lstates, sv) ==
  /\ Behind(lstates, sv.Lane, sv.Nonce)
  /\ \A m \in 1 .. Len(sv.Merges) : Behind(lstates, sv.Merges[m].Lane, sv.Merges[m].Nonce)

LogBehind == \A i \in 1 .. Len(log) : VoucherBehind(st.LaneStates, log[i])

\* lstates has the lanes of old, with nonces at least as great.
Ahead(old, lstates) ==
  \A l \in Lanes : old[l] # NoLane => Behind(lstates, l, old[l].Nonce)

Done(c) == Len(c.Sv.Merges) - Len(c.Merges)

CallSound(c) ==
  /\ st.Exists /\ ~Settled
  /\ c.Sv.Amount >= 0
  /\ Fresh(st.LaneStates, c.Sv.Lane, c.Sv.Nonce)
  /\ c.lstates[c.Sv.Lane] = st.LaneStates[c.Sv.Lane]
  /\ Ahead(st.LaneStates, c.lstates)
  /\ Done(c) \in Nat
  /\ \A i \in 1 .. Len(c.Merges) : c.Merges[i] = c.Sv.Merges[Done(c) + i]
  /\ \A i \in 1 .. Done(c) :
       LET m == c.Sv.Merges[i]
       IN  /\ m.Lane # c.Sv.Lane
           /\ Fresh(st.LaneStates, m.Lane, m.Nonce)
           /\ Behind(c.lstates, m.Lane, m.Nonce)

Inv ==
  /\ TypeOK
  /\ Running => CallSound(call)
  /\ st.Exists => st.ToSend <= balance
  /\ st.SettlingAt # 0 => st.MinSettleHeight <= st.SettlingAt
  /\ ~st.Exists => Settled
  /\ LogBehind
  /\ NoncesRise
  /\ SettlementWaits

-----------------------------------------------------------------------------
(* Lemmas.                                                                 *)

\* An update under way is not Idle.
LEMMA IdleNotCall == Idle \notin Call
<1>1. "Merges" \notin DOMAIN Idle
  BY DEF Idle
<1>2. \A c \in Call : "Merges" \in DOMAIN c
  BY DEF Call
<1> QED
  BY <1>1, <1>2

\* The fields of a voucher.
LEMMA VoucherType ==
  ASSUME NEW sv \in Vouchers
  PROVE  /\ sv.Lane \in Lanes /\ sv.Nonce \in Nat /\ sv.Amount \in Int
         /\ sv.MinSettleHeight \in Nat /\ sv.Merges \in Seq(Merge)
BY PaychAssumption DEF SignedVoucher

\* The fields of an update under way.
LEMMA CallType ==
  ASSUME TypeOK, Running
  PROVE  /\ call.Sv \in Vouchers /\ call.Merges \in Seq(Merge)
         /\ call.lstates \in LaneMap /\ call.redeemedFromOthers \in Nat
<1>1. call \in Call
  BY DEF TypeOK, Running
<1> QED
  BY <1>1 DEF Call, LaneMap

\* The fields of the state.
LEMMA StateType ==
  ASSUME TypeOK
  PROVE  /\ st.Exists \in BOOLEAN /\ st.ToSend \in Nat /\ st.SettlingAt \in Nat
         /\ st.MinSettleHeight \in Nat /\ st.LaneStates \in LaneMap
         /\ balance \in Nat /\ epoch \in Nat /\ log \in Seq(Vouchers)
BY DEF TypeOK, State, LaneMap

\* What is behind stays behind when the lanes move ahead.
LEMMA BehindAhead ==
  ASSUME NEW old \in LaneMap, NEW new \in LaneMap, Ahead(old, new),
         NEW lane \in Lanes, NEW nonce \in Nat, Behind(old, lane, nonce)
  PROVE  Behind(new, lane, nonce)
<1>1. old[lane] # NoLane /\ nonce <= old[lane].Nonce
  BY DEF Behind
<1>2. new[lane] # NoLane /\ old[lane].Nonce <= new[lane].Nonce
  BY <1>1 DEF Ahead, Behind
<1>3. old[lane] \in LaneState /\ new[lane] \in LaneState
  BY <1>1, <1>2 DEF LaneMap
<1>4. old[lane].Nonce \in Nat /\ new[lane].Nonce \in Nat
  BY <1>3 DEF LaneState
<1> QED
  BY <1>1, <1>2, <1>4 DEF Behind

\* Storing a lane with a fresh nonce moves the lanes ahead.
LEMMA StoreAhead ==
  ASSUME NEW old \in LaneMap, NEW lane \in Lanes, NEW ls \in LaneState,
         Fresh(old, lane, ls.Nonce)
  PROVE  LET new == [old EXCEPT ![lane] = ls]
         IN  new \in LaneMap /\ Ahead(old, new) /\ Behind(new, lane, ls.Nonce)
<1> DEFINE new == [old EXCEPT ![lane] = ls]
<1>1. new \in LaneMap /\ new[lane] = ls /\ \A l \in Lanes \ {lane} : new[l] = old[l]
  BY DEF LaneMap
<1>2. ls # NoLane /\ ls.Nonce \in Nat
  BY PaychAssumption DEF LaneState
<1>3. Behind(new, lane, ls.Nonce)
  BY <1>1, <1>2 DEF Behind
<1>4. ASSUME NEW l \in Lanes, old[l] # NoLane
      PROVE  Behind(new, l, old[l].Nonce)
  <2>1. old[l].Nonce \in Nat
    BY <1>4 DEF LaneMap, LaneState
  <2>2. CASE l = lane
    BY <1>1, <1>2, <1>4, <2>1, <2>2 DEF Fresh, Behind
  <2>3. CASE l # lane
    BY <1>1, <1>4, <2>1, <2>3 DEF Behind
  <2> QED
    BY <2>2, <2>3
<1> QED
  BY <1>1, <1>3, <1>4 DEF Ahead

\* Ahead is transitive.
LEMMA AheadTransitive ==
  ASSUME NEW a \in LaneMap, NEW b \in LaneMap, NEW c \in LaneMap, Ahead(a, b), Ahead(b, c)
  PROVE  Ahead(a, c)
<1> SUFFICES ASSUME NEW l \in Lanes, a[l] # NoLane
             PROVE  Behind(c, l, a[l].Nonce)
  BY DEF Ahead
<1>1. a[l].Nonce \in Nat
  BY DEF LaneMap, LaneState
<1>2. Behind(b, l, a[l].Nonce)
  BY DEF Ahead
<1> QED
  BY <1>1, <1>2, BehindAhead

\* A fresh nonce is greater than one that is behind.
LEMMA FreshAbove ==
  ASSUME NEW lstates \in LaneMap, NEW lane \in Lanes, NEW n \in Nat, NEW m \in Nat,
         Behind(lstates, lane, n), Fresh(lstates, lane, m)
  PROVE  n < m
<1>1. lstates[lane] # NoLane /\ n <= lstates[lane].Nonce /\ lstates[lane].Nonce < m
  BY DEF Behind, Fresh
<1>2. lstates[lane].Nonce \in Nat
  BY <1>1 DEF LaneMap, LaneState
<1> QED
  BY <1>1, <1>2

\* The nonces of a voucher and of its merges.
LEMMA VoucherNonces ==
  ASSUME NEW sv \in Vouchers
  PROVE  /\ sv.Lane \in Lanes /\ sv.Nonce \in Nat /\ Len(sv.Merges) \in Nat
         /\ \A m \in 1 .. Len(sv.Merges) :
              sv.Merges[m].Lane \in Lanes /\ sv.Merges[m].Nonce \in Nat
<1>1. sv.Merges \in Seq(Merge)
  BY VoucherType
<1>2. \A m \in 1 .. Len(sv.Merges) : sv.Merges[m] \in Merge
  BY <1>1
<1> QED
  BY <1>1, <1>2, VoucherType DEF Merge

\* What is behind for a voucher stays behind when the lanes move ahead.
LEMMA VoucherBehindAhead ==
  ASSUME NEW old \in LaneMap, NEW new \in LaneMap, Ahead(old, new), NEW sv \in Vouchers,
         VoucherBehind(old, sv)
  PROVE  VoucherBehind(new, sv)
BY VoucherNonces, BehindAhead DEF VoucherBehind

-----------------------------------------------------------------------------
(* The invariant.                                                          *)

\* The constructor establishes it.
LEMMA InitInv == Init => Inv
<1> SUFFICES ASSUME Init PROVE Inv
  OBVIOUS
<1>1. st \in State
  BY DEF Init, State
<1>2. log = <<>> /\ log \in Seq(Vouchers) /\ Len(log) = 0
  BY DEF Init
<1>3. TypeOK
  BY <1>1, <1>2, PaychAssumption DEF Init, TypeOK, Nothing
<1>4. st.Exists /\ st.ToSend = 0 /\ st.SettlingAt = 0 /\ balance \in Nat /\ ~Running
  BY PaychAssumption DEF Init, Running
<1>5. LogBehind /\ NoncesRise /\ SettlementWaits
  BY <1>2 DEF LogBehind, NoncesRise, SettlementWaits
<1> QED
  BY <1>3, <1>4, <1>5 DEF Inv

\* Accepting a voucher for processing.
LEMMA UpdateInv ==
  ASSUME Inv, NEW sv \in Vouchers, UpdateChannelState(sv)
  PROVE  Inv'
<1> DEFINE c == [Sv |-> sv, Merges |-> sv.Merges, lstates |-> st.LaneStates,
                 redeemedFromOthers |-> 0]
<1>1. /\ TypeOK /\ LogBehind /\ NoncesRise /\ SettlementWaits
      /\ st.LaneStates \in LaneMap
  BY StateType DEF Inv
<1>2. call' = c /\ UNCHANGED <<st, balance, epoch, log, paid>>
  BY DEF UpdateChannelState
<1>3. c \in Call
  BY <1>1, VoucherType DEF Call, LaneMap
<1>4. TypeOK'
  BY <1>1, <1>2, <1>3 DEF TypeOK
<1>5. Done(c) = 0
  BY VoucherType DEF Done
<1>6. \A i \in 1 .. Len(c.Merges) : c.Merges[i] = c.Sv.Merges[Done(c) + i]
  BY <1>5, VoucherNonces
<1>7. Ahead(st.LaneStates, c.lstates)
  BY <1>1 DEF Ahead, Behind, LaneMap, LaneState
<1>8. /\ st.Exists /\ ~Settled /\ sv.Amount >= 0
      /\ Fresh(st.LaneStates, sv.Lane, sv.Nonce)
  BY DEF UpdateChannelState
<1>9. CallSound(c)
  BY <1>5, <1>6, <1>7, <1>8 DEF CallSound
<1>10. CallSound(call)'
  BY <1>2, <1>9 DEF CallSound, Settled, Fresh, Behind, Ahead, Done
<1>11. (LogBehind /\ NoncesRise /\ SettlementWaits)'
  BY <1>1, <1>2 DEF LogBehind, NoncesRise, SettlementWaits, VoucherBehind, Behind
<1> QED
  BY <1>2, <1>4, <1>10, <1>11 DEF Inv, Settled

\* One merge.
LEMMA MergeInv ==
  ASSUME Inv, MergeLane
  PROVE  Inv'
<1> DEFINE m == Head(call.Merges)
           ls == [Redeemed |-> call.lstates[m.Lane].Redeemed, Nonce |-> m.Nonce]
           lanes == [call.lstates EXCEPT ![m.Lane] = ls]
           rest == Tail(call.Merges)
           sum == call.redeemedFromOthers + call.lstates[m.Lane].Redeemed
           c == [call EXCEPT !.Merges = rest, !.lstates = lanes, !.redeemedFromOthers = sum]
           sv == call.Sv
<1>1. /\ TypeOK /\ LogBehind /\ NoncesRise /\ SettlementWaits
      /\ st.LaneStates \in LaneMap
      /\ Running /\ CallSound(call)
  BY StateType DEF Inv, MergeLane
<1>2. call' = c /\ UNCHANGED <<st, balance, epoch, log, paid>>
  BY DEF MergeLane
<1>3. /\ call \in Call /\ sv \in Vouchers /\ call.Merges \in Seq(Merge)
      /\ call.lstates \in LaneMap /\ call.redeemedFromOthers \in Nat
  BY <1>1, CallType DEF TypeOK, Running
<1>4. /\ call.Merges # <<>> /\ m.Lane # sv.Lane /\ call.lstates[m.Lane] # NoLane
      /\ Fresh(call.lstates, m.Lane, m.Nonce)
  BY DEF MergeLane, Mergeable
<1>5. /\ m = call.Merges[1] /\ m \in Merge /\ rest \in Seq(Merge)
      /\ Len(call.Merges) \in Nat \ {0}
      /\ Len(rest) = Len(call.Merges) - 1
      /\ \A i \in 1 .. Len(rest) : rest[i] = call.Merges[i + 1]
  BY <1>3, <1>4
<1>6. m.Lane \in Lanes /\ m.Nonce \in Nat
  BY <1>5 DEF Merge
<1>7. call.lstates[m.Lane].Redeemed \in Nat
  BY <1>3, <1>4, <1>6 DEF LaneMap, LaneState
<1>8. ls \in LaneState /\ ls.Nonce = m.Nonce
  BY <1>6, <1>7 DEF LaneState
<1>9. lanes \in LaneMap /\ Ahead(call.lstates, lanes) /\ Behind(lanes, m.Lane, m.Nonce)
  <2> HIDE DEF m, ls
  <2> QED
    BY <1>3, <1>4, <1>6, <1>8, StoreAhead
<1>10. lanes[sv.Lane] = call.lstates[sv.Lane]
  BY <1>3, <1>4 DEF LaneMap
<1>11. sum \in Nat
  BY <1>3, <1>7
<1>12. /\ c.Sv = sv /\ c.Merges = rest /\ c.lstates = lanes /\ c.redeemedFromOthers = sum
  BY <1>3 DEF Call
<1>13. c \in Call
  <2> HIDE DEF lanes, rest, sum
  <2> QED
    BY <1>3, <1>5, <1>9, <1>11 DEF Call, LaneMap
<1> HIDE DEF c, lanes, rest, sum, ls
<1>14. TypeOK'
  BY <1>1, <1>2, <1>13 DEF TypeOK
<1>15. Len(sv.Merges) \in Nat
  BY <1>3, VoucherNonces
<1>16. /\ Done(call) \in Nat
       /\ \A i \in 1 .. Len(call.Merges) : call.Merges[i] = sv.Merges[Done(call) + i]
       /\ Done(c) = Done(call) + 1
  <2>1. /\ Done(call) \in Nat
        /\ \A i \in 1 .. Len(call.Merges) : call.Merges[i] = sv.Merges[Done(call) + i]
    BY <1>1 DEF CallSound
  <2>2. Done(c) = Len(sv.Merges) - Len(rest) /\ Done(call) = Len(sv.Merges) - Len(call.Merges)
    BY <1>12 DEF Done
  <2>3. Len(sv.Merges) - (Len(call.Merges) - 1) = (Len(sv.Merges) - Len(call.Merges)) + 1
    BY <1>5, <1>15
  <2> QED
    BY <1>5, <2>1, <2>2, <2>3
<1>17. \A i \in 1 .. Len(c.Merges) : c.Merges[i] = c.Sv.Merges[Done(c) + i]
  <2> SUFFICES ASSUME NEW i \in 1 .. Len(rest)
               PROVE  rest[i] = sv.Merges[Done(c) + i]
    BY <1>12
  <2>1. i + 1 \in 1 .. Len(call.Merges) /\ rest[i] = call.Merges[i + 1]
    BY <1>5
  <2>2. Done(call) + (i + 1) = Done(c) + i
    BY <1>16
  <2> QED
    BY <1>16, <2>1, <2>2
<1>18. sv.Merges[Done(c)] = m
  <2>1. 1 \in 1 .. Len(call.Merges)
    BY <1>5
  <2>2. call.Merges[1] = sv.Merges[Done(call) + 1]
    BY <1>16, <2>1
  <2> QED
    BY <1>5, <1>16, <2>2
<1>19. Ahead(st.LaneStates, lanes)
  BY <1>1, <1>3, <1>9, AheadTransitive DEF CallSound
<1>20. Fresh(st.LaneStates, m.Lane, m.Nonce)
  <2> SUFFICES ASSUME st.LaneStates[m.Lane] # NoLane
               PROVE  st.LaneStates[m.Lane].Nonce < m.Nonce
    BY DEF Fresh
  <2>1. st.LaneStates[m.Lane].Nonce \in Nat
    BY <1>1, <1>6 DEF LaneMap, LaneState
  <2>2. Behind(call.lstates, m.Lane, st.LaneStates[m.Lane].Nonce)
    BY <1>1, <1>6 DEF CallSound, Ahead
  <2> HIDE DEF m
  <2> QED
    BY <1>3, <1>4, <1>6, <2>1, <2>2, FreshAbove
<1>21. ASSUME NEW i \in 1 .. Done(c)
       PROVE  /\ sv.Merges[i].Lane # sv.Lane
              /\ Fresh(st.LaneStates, sv.Merges[i].Lane, sv.Merges[i].Nonce)
              /\ Behind(lanes, sv.Merges[i].Lane, sv.Merges[i].Nonce)
  <2>1. CASE i = Done(c)
    BY <1>4, <1>9, <1>18, <1>20, <2>1
  <2>2. CASE i # Done(c)
    <3>1. i \in 1 .. Done(call)
      BY <1>16, <2>2
    <3>2. i \in 1 .. Len(sv.Merges)
      BY <1>3, <1>5, <1>15, <3>1 DEF Done
    <3>3. /\ sv.Merges[i].Lane # sv.Lane
          /\ Fresh(st.LaneStates, sv.Merges[i].Lane, sv.Merges[i].Nonce)
          /\ Behind(call.lstates, sv.Merges[i].Lane, sv.Merges[i].Nonce)
      BY <1>1, <3>1 DEF CallSound
    <3>4. sv.Merges[i].Lane \in Lanes /\ sv.Merges[i].Nonce \in Nat
      BY <1>3, <3>2, VoucherNonces
    <3> QED
      BY <1>3, <1>9, <3>3, <3>4, BehindAhead
  <2> QED
    BY <2>1, <2>2
<1>22. CallSound(c)
  BY <1>1, <1>10, <1>12, <1>16, <1>17, <1>19, <1>21 DEF CallSound
<1>23. CallSound(call)'
  BY <1>2, <1>22 DEF CallSound, Settled, Fresh, Behind, Ahead, Done
<1>24. (LogBehind /\ NoncesRise /\ SettlementWaits)'
  BY <1>1, <1>2 DEF LogBehind, NoncesRise, SettlementWaits, VoucherBehind, Behind
<1> QED
  BY <1>2, <1>14, <1>23, <1>24 DEF Inv, Settled

\* The voucher is redeemed.
LEMMA CommitInv ==
  ASSUME Inv, CommitUpdate
  PROVE  Inv'
<1> DEFINE sv == call.Sv
           ls == [Redeemed |-> sv.Amount, Nonce |-> sv.Nonce]
           lanes == [call.lstates EXCEPT ![sv.Lane] = ls]
           at == Postponed(st.SettlingAt, sv.MinSettleHeight)
           height == IF st.MinSettleHeight < sv.MinSettleHeight
                     THEN sv.MinSettleHeight ELSE st.MinSettleHeight
           n == Len(log)
<1>1. /\ TypeOK /\ LogBehind /\ NoncesRise /\ SettlementWaits
      /\ Running /\ CallSound(call) /\ call.Merges = <<>>
      /\ st.SettlingAt # 0 => st.MinSettleHeight <= st.SettlingAt
  BY DEF Inv, CommitUpdate
<1>2. /\ st.Exists /\ st.ToSend \in Nat /\ st.SettlingAt \in Nat
      /\ st.MinSettleHeight \in Nat /\ st.LaneStates \in LaneMap
      /\ balance \in Nat /\ epoch \in Nat /\ log \in Seq(Vouchers)
  BY <1>1, StateType DEF CallSound
<1>3. /\ sv \in Vouchers /\ call.lstates \in LaneMap /\ call.redeemedFromOthers \in Nat
  BY <1>1, CallType
<1>4. /\ sv.Lane \in Lanes /\ sv.Nonce \in Nat /\ sv.Amount \in Nat
      /\ sv.MinSettleHeight \in Nat /\ Len(sv.Merges) \in Nat
  BY <1>1, <1>3, VoucherType DEF CallSound
<1>5. Fresh(st.LaneStates, sv.Lane, sv.Nonce) /\ Fresh(call.lstates, sv.Lane, sv.Nonce)
  BY <1>1 DEF CallSound, Fresh
<1>6. ls \in LaneState /\ ls.Nonce = sv.Nonce
  BY <1>4 DEF LaneState
<1>7. /\ lanes \in LaneMap /\ Ahead(call.lstates, lanes)
      /\ Behind(lanes, sv.Lane, sv.Nonce)
  <2> HIDE DEF ls
  <2> QED
    BY <1>3, <1>4, <1>5, <1>6, StoreAhead
<1>8. Ahead(st.LaneStates, lanes)
  BY <1>1, <1>2, <1>3, <1>7, AheadTransitive DEF CallSound
<1>9. Redeemed(call.lstates, sv.Lane) \in Nat
  BY <1>3, <1>4 DEF Redeemed, LaneMap, LaneState
<1>10. newSendBalance \in Nat /\ newSendBalance <= balance
  <2>1. newSendBalance \in Int
    BY <1>2, <1>3, <1>4, <1>9 DEF newSendBalance
  <2>2. newSendBalance >= 0 /\ newSendBalance <= balance
    BY DEF CommitUpdate, CoversVoucher
  <2> QED BY <2>1, <2>2
<1>11. /\ at \in Nat /\ height \in Nat
       /\ st.SettlingAt <= at /\ (st.SettlingAt = 0 => at = 0)
       /\ st.MinSettleHeight <= height /\ sv.MinSettleHeight <= height
       /\ at # 0 => height <= at
  BY <1>1, <1>2, <1>4 DEF Postponed
<1>12. st' = [st EXCEPT !.ToSend = newSendBalance, !.SettlingAt = at,
                        !.MinSettleHeight = height, !.LaneStates = lanes]
  BY DEF CommitUpdate
<1> HIDE DEF at, height, lanes, ls
<1>13. /\ st'.Exists /\ st'.ToSend = newSendBalance /\ st'.SettlingAt = at
       /\ st'.MinSettleHeight = height /\ st'.LaneStates = lanes
       /\ st' \in State
  BY <1>1, <1>2, <1>7, <1>10, <1>11, <1>12 DEF TypeOK, State, LaneMap
<1>14. /\ call' = Idle /\ log' = Append(log, sv) /\ UNCHANGED <<balance, epoch, paid>>
  BY DEF CommitUpdate
<1>15. /\ n \in Nat /\ Len(log') = n + 1 /\ log' \in Seq(Vouchers)
       /\ log'[n + 1] = sv
       /\ \A i \in 1 .. n : log'[i] = log[i] /\ log[i] \in Vouchers
  BY <1>2, <1>3, <1>14
<1>16. TypeOK'
  BY <1>1, <1>13, <1>14, <1>15 DEF TypeOK
<1>17. \A m \in 1 .. Len(sv.Merges) :
         /\ sv.Merges[m].Lane \in Lanes /\ sv.Merges[m].Nonce \in Nat
         /\ Fresh(st.LaneStates, sv.Merges[m].Lane, sv.Merges[m].Nonce)
         /\ Behind(lanes, sv.Merges[m].Lane, sv.Merges[m].Nonce)
  <2> SUFFICES ASSUME NEW m \in 1 .. Len(sv.Merges)
               PROVE  /\ sv.Merges[m].Lane \in Lanes /\ sv.Merges[m].Nonce \in Nat
                      /\ Fresh(st.LaneStates, sv.Merges[m].Lane, sv.Merges[m].Nonce)
                      /\ Behind(lanes, sv.Merges[m].Lane, sv.Merges[m].Nonce)
    OBVIOUS
  <2>1. sv.Merges[m].Lane \in Lanes /\ sv.Merges[m].Nonce \in Nat
    BY <1>3, VoucherNonces
  <2>2. Done(call) = Len(sv.Merges)
    BY <1>1, <1>4 DEF Done
  <2>3. /\ Fresh(st.LaneStates, sv.Merges[m].Lane, sv.Merges[m].Nonce)
        /\ Behind(call.lstates, sv.Merges[m].Lane, sv.Merges[m].Nonce)
    BY <1>1, <2>2 DEF CallSound
  <2> QED
    BY <1>3, <1>7, <2>1, <2>3, BehindAhead
<1>18. \A i \in 1 .. n : VoucherBehind(st.LaneStates, log[i]) /\ VoucherBehind(lanes, log[i])
  BY <1>1, <1>2, <1>7, <1>8, <1>15, VoucherBehindAhead DEF LogBehind
<1>19. VoucherBehind(lanes, sv)
  BY <1>7, <1>17 DEF VoucherBehind
<1>20. LogBehind'
  <2> SUFFICES ASSUME NEW i \in 1 .. n + 1
               PROVE  VoucherBehind(lanes, log'[i])
    BY <1>13, <1>15 DEF LogBehind, VoucherBehind, Behind
  <2>1. i = n + 1 \/ i \in 1 .. n
    BY <1>15
  <2> QED
    BY <1>15, <1>18, <1>19, <2>1
<1>21. ASSUME NEW i \in 1 .. n
       PROVE  /\ log[i].Lane = sv.Lane => log[i].Nonce < sv.Nonce
              /\ \A m \in 1 .. Len(log[i].Merges) :
                   log[i].Merges[m].Lane = sv.Lane => log[i].Merges[m].Nonce < sv.Nonce
              /\ \A m \in 1 .. Len(sv.Merges) :
                   sv.Merges[m].Lane = log[i].Lane => log[i].Nonce < sv.Merges[m].Nonce
  <2>1. /\ log[i].Lane \in Lanes /\ log[i].Nonce \in Nat
        /\ \A m \in 1 .. Len(log[i].Merges) :
             log[i].Merges[m].Lane \in Lanes /\ log[i].Merges[m].Nonce \in Nat
    BY <1>15, VoucherNonces
  <2>2. /\ Behind(st.LaneStates, log[i].Lane, log[i].Nonce)
        /\ \A m \in 1 .. Len(log[i].Merges) :
             Behind(st.LaneStates, log[i].Merges[m].Lane, log[i].Merges[m].Nonce)
    BY <1>18 DEF VoucherBehind
  <2>3. log[i].Lane = sv.Lane => log[i].Nonce < sv.Nonce
    BY <1>2, <1>4, <1>5, <2>1, <2>2, FreshAbove
  <2>4. \A m \in 1 .. Len(log[i].Merges) :
          log[i].Merges[m].Lane = sv.Lane => log[i].Merges[m].Nonce < sv.Nonce
    BY <1>2, <1>4, <1>5, <2>1, <2>2, FreshAbove
  <2>5. \A m \in 1 .. Len(sv.Merges) :
          sv.Merges[m].Lane = log[i].Lane => log[i].Nonce < sv.Merges[m].Nonce
    BY <1>2, <1>17, <2>1, <2>2, FreshAbove
  <2> QED
    BY <2>3, <2>4, <2>5
<1>22. NoncesRise'
  <2> SUFFICES ASSUME NEW j \in 1 .. n + 1, NEW i \in 1 .. j - 1
               PROVE  /\ log'[i].Lane = log'[j].Lane => log'[i].Nonce < log'[j].Nonce
                      /\ \A m \in 1 .. Len(log'[i].Merges) :
                           log'[i].Merges[m].Lane = log'[j].Lane
                             => log'[i].Merges[m].Nonce < log'[j].Nonce
                      /\ \A m \in 1 .. Len(log'[j].Merges) :
                           log'[j].Merges[m].Lane = log'[i].Lane
                             => log'[i].Nonce < log'[j].Merges[m].Nonce
    BY <1>15 DEF NoncesRise
  <2>1. i \in 1 .. n /\ log'[i] = log[i]
    BY <1>15
  <2>2. CASE j = n + 1
    BY <1>15, <1>21, <2>1, <2>2
  <2>3. CASE j \in 1 .. n
    <3>1. log'[j] = log[j]
      BY <1>15, <2>3
    <3> QED
      BY <1>1, <2>1, <2>3, <3>1 DEF NoncesRise
  <2> QED
    BY <1>15, <2>2, <2>3
<1>23. SettlementWaits'
  <2> SUFFICES ASSUME NEW i \in 1 .. n + 1
               PROVE  /\ log'[i].MinSettleHeight <= height
                      /\ at # 0 => log'[i].MinSettleHeight <= at
    BY <1>13, <1>15 DEF SettlementWaits
  <2>1. log'[i] \in Vouchers /\ log'[i].MinSettleHeight \in Nat
    BY <1>15, VoucherType
  <2>2. log'[i].MinSettleHeight <= height
    <3>1. CASE i = n + 1
      BY <1>11, <1>15, <3>1
    <3>2. CASE i \in 1 .. n
      BY <1>1, <1>2, <1>11, <1>15, <2>1, <3>2 DEF SettlementWaits
    <3> QED
      BY <1>15, <3>1, <3>2
  <2> QED
    BY <1>11, <2>1, <2>2
<1>24. ~Running'
  BY <1>14 DEF Running, Idle
<1> QED
  BY <1>10, <1>11, <1>13, <1>14, <1>16, <1>20, <1>22, <1>23, <1>24 DEF Inv

\* The steps that redeem nothing.
LEMMA OtherInv ==
  ASSUME Inv, AbortUpdate \/ Settle \/ Collect \/ (\E v \in Deposits : Deposit(v))
              \/ NextEpoch \/ UNCHANGED vars
  PROVE  Inv'
<1>1. /\ TypeOK /\ LogBehind /\ NoncesRise /\ SettlementWaits
      /\ Running => CallSound(call)
      /\ st.Exists => st.ToSend <= balance
      /\ st.SettlingAt # 0 => st.MinSettleHeight <= st.SettlingAt
      /\ ~st.Exists => Settled
  BY DEF Inv
<1>2. /\ st.Exists \in BOOLEAN /\ st.ToSend \in Nat /\ st.SettlingAt \in Nat
      /\ st.MinSettleHeight \in Nat /\ st.LaneStates \in LaneMap
      /\ balance \in Nat /\ epoch \in Nat /\ log \in Seq(Vouchers)
  BY <1>1, StateType
<1>3. \A i \in 1 .. Len(log) : log[i].MinSettleHeight \in Nat
  BY <1>2, VoucherType
<1>4. ASSUME UNCHANGED <<log, st>> PROVE (LogBehind /\ NoncesRise)'
  BY <1>1, <1>4 DEF LogBehind, NoncesRise, VoucherBehind, Behind
<1>5. CASE AbortUpdate
  <2>1. call' = Idle /\ UNCHANGED <<st, balance, epoch, log, paid>>
    BY <1>5 DEF AbortUpdate
  <2>2. TypeOK' /\ ~Running'
    BY <1>1, <2>1 DEF TypeOK, Running, Idle
  <2>3. SettlementWaits'
    BY <1>1, <2>1 DEF SettlementWaits
  <2> QED
    BY <1>1, <1>4, <2>1, <2>2, <2>3 DEF Inv, Settled
<1>6. CASE Settle
  <2> DEFINE at == NotBeforeMin(epoch + SettleDelay)
  <2>1. /\ st' = [st EXCEPT !.SettlingAt = at] /\ st.Exists /\ ~Running
        /\ UNCHANGED <<balance, epoch, call, log, paid>>
    BY <1>6 DEF Settle
  <2>2. at \in Nat /\ at # 0 /\ st.MinSettleHeight <= at
    BY <1>2, PaychAssumption DEF NotBeforeMin
  <2> HIDE DEF at
  <2>3. /\ st'.Exists /\ st'.ToSend = st.ToSend /\ st'.SettlingAt = at
        /\ st'.MinSettleHeight = st.MinSettleHeight /\ st'.LaneStates = st.LaneStates
        /\ st' \in State
    BY <1>1, <2>1, <2>2 DEF TypeOK, State
  <2>4. TypeOK' /\ ~Running'
    BY <1>1, <2>1, <2>3 DEF TypeOK, Running, Idle
  <2>5. LogBehind' /\ NoncesRise'
    BY <1>1, <2>1, <2>3 DEF LogBehind, NoncesRise, VoucherBehind, Behind
  <2>6. SettlementWaits'
    BY <1>1, <1>2, <1>3, <2>1, <2>2, <2>3 DEF SettlementWaits
  <2> QED
    BY <1>1, <2>1, <2>2, <2>3, <2>4, <2>5, <2>6 DEF Inv
<1>7. CASE Collect
  <2>1. /\ st' = [st EXCEPT !.Exists = FALSE] /\ Settled /\ ~Running
        /\ paid' = [To |-> st.ToSend, From |-> balance - st.ToSend]
        /\ balance' = 0 /\ st.ToSend <= balance
        /\ UNCHANGED <<epoch, call, log>>
    BY <1>7 DEF Collect
  <2>2. /\ ~st'.Exists /\ st'.SettlingAt = st.SettlingAt
        /\ st'.MinSettleHeight = st.MinSettleHeight /\ st'.LaneStates = st.LaneStates
        /\ st' \in State
    BY <1>1, <2>1 DEF TypeOK, State
  <2>3. balance - st.ToSend \in Nat
    BY <1>2, <2>1
  <2>4. TypeOK' /\ ~Running'
    BY <1>1, <1>2, <2>1, <2>2, <2>3 DEF TypeOK, Running, Idle
  <2>5. LogBehind' /\ NoncesRise'
    <3>1. LogBehind'
      BY <1>1, <2>1, <2>2 DEF LogBehind, VoucherBehind, Behind
    <3>2. NoncesRise'
      BY <1>1, <2>1 DEF NoncesRise
    <3> QED
      BY <3>1, <3>2
  <2>6. SettlementWaits'
    BY <1>1, <1>2, <1>3, <2>1, <2>2 DEF SettlementWaits, Settled
  <2> QED
    BY <1>1, <2>1, <2>2, <2>4, <2>5, <2>6 DEF Inv, Settled
<1>8. ASSUME NEW v \in Deposits, Deposit(v) PROVE Inv'
  <2>1. /\ st.Exists /\ ~Running /\ balance' = balance + v
        /\ UNCHANGED <<st, epoch, call, log, paid>>
    BY <1>8 DEF Deposit
  <2>2. v \in Nat
    BY PaychAssumption
  <2>3. TypeOK' /\ ~Running'
    BY <1>1, <1>2, <2>1, <2>2 DEF TypeOK, Running, Idle
  <2>4. SettlementWaits'
    BY <1>1, <2>1 DEF SettlementWaits
  <2> QED
    BY <1>1, <1>2, <1>4, <2>1, <2>2, <2>3, <2>4 DEF Inv, Settled
<1>9. CASE NextEpoch
  <2>1. ~Running /\ epoch' = epoch + 1 /\ UNCHANGED <<st, balance, call, log, paid>>
    BY <1>9 DEF NextEpoch
  <2>2. TypeOK' /\ ~Running'
    BY <1>1, <1>2, <2>1 DEF TypeOK, Running, Idle
  <2>3. SettlementWaits'
    BY <1>1, <1>2, <1>3, <2>1 DEF SettlementWaits
  <2>4. ~st.Exists => Settled'
    BY <1>1, <1>2, <2>1 DEF Settled
  <2> QED
    BY <1>1, <1>4, <2>1, <2>2, <2>3, <2>4 DEF Inv
<1>10. CASE UNCHANGED vars
  <2>1. UNCHANGED <<st, balance, epoch, call, log, paid>>
    BY <1>10 DEF vars
  <2>2. TypeOK' /\ SettlementWaits' /\ (Running' => Running)
    BY <1>1, <2>1 DEF TypeOK, SettlementWaits, Running, Idle
  <2>3. CallSound(call) => CallSound(call)'
    BY <2>1 DEF CallSound, Settled, Fresh, Behind, Ahead, Done
  <2> QED
    BY <1>1, <1>4, <2>1, <2>2, <2>3 DEF Inv, Settled
<1> QED
  BY <1>5, <1>6, <1>7, <1>8, <1>9, <1>10

\* The invariant holds in every reachable state.
LEMMA Invariance == Spec => []Inv
<1>1. Inv /\ [Next]_vars => Inv'
  BY UpdateInv, MergeInv, CommitInv, OtherInv DEF Next
<1> QED
  BY <1>1, InitInv, PTL DEF Spec

-----------------------------------------------------------------------------
(* The theorems.                                                           *)

\* The state, the funds and the update under way keep their types: no amount
\* becomes negative.
THEOREM ChannelTypeCorrect == Spec => []TypeOK
<1>1. Inv => TypeOK
  BY DEF Inv
<1> QED
  BY <1>1, Invariance, PTL

\* However late, often and out of order vouchers come, those that count have
\* ever greater nonces, their own and those of their merges.
THEOREM VouchersCountOnce == Spec => []NoncesRise
<1>1. Inv => NoncesRise
  BY DEF Inv
<1> QED
  BY <1>1, Invariance, PTL

\* Settlement never comes before a height that a redeemed voucher asks for.
THEOREM SettlementAlwaysWaits == Spec => []SettlementWaits
<1>1. Inv => SettlementWaits
  BY DEF Inv
<1> QED
  BY <1>1, Invariance, PTL

\* The actor implements the abstract channel: promises are covered, may change
\* only until settlement, which takes SettleDelay at least, and are paid.
THEOREM ImplementsChannel == Spec => KeepsPromises
<1>1. Init => Abstract!Init
  BY PaychAssumption DEF Init, Abstract!Init, Abstract!Nothing, Nothing
<1>2. Inv /\ Inv' /\ [Next]_vars => [Abstract!Next]_(Abstract!vars)
  <2> SUFFICES ASSUME Inv, Inv', [Next]_vars
               PROVE  Abstract!Next \/ UNCHANGED Abstract!vars
    OBVIOUS
  <2>1. /\ st.Exists \in BOOLEAN /\ st.ToSend \in Nat /\ st.SettlingAt \in Nat
        /\ st.MinSettleHeight \in Nat /\ balance \in Nat /\ epoch \in Nat
        /\ st.Exists => st.ToSend <= balance
        /\ TypeOK /\ (Running => CallSound(call))
    BY StateType DEF Inv
  <2>2. /\ balance' \in Nat /\ st'.ToSend \in Nat /\ st'.SettlingAt \in Nat
        /\ st'.Exists => st'.ToSend <= balance'
    BY DEF Inv, TypeOK, State
  <2>3. CASE UNCHANGED <<st, balance, epoch, paid>>
    BY <2>3 DEF Abstract!vars
  <2>4. CASE \E sv \in Vouchers : UpdateChannelState(sv)
    BY <2>3, <2>4 DEF UpdateChannelState
  <2>5. CASE MergeLane \/ AbortUpdate
    BY <2>3, <2>5 DEF MergeLane, AbortUpdate
  <2>6. CASE CommitUpdate
    <3>1. /\ UNCHANGED <<balance, epoch, paid>>
          /\ st.Exists /\ ~Settled
          /\ st'.Exists
          /\ st'.SettlingAt = Postponed(st.SettlingAt, call.Sv.MinSettleHeight)
      BY <2>1, <2>6 DEF CommitUpdate, CallSound, TypeOK, State
    <3>2. call.Sv.MinSettleHeight \in Nat
      BY <2>1, <2>6, CallType, VoucherType DEF CommitUpdate
    <3>3. /\ st'.SettlingAt >= st.SettlingAt
          /\ st.SettlingAt = 0 => st'.SettlingAt = 0
      BY <2>1, <3>1, <3>2 DEF Postponed
    <3>4. Abstract!Promise
      BY <2>1, <2>2, <3>1, <3>3 DEF Abstract!Promise, Abstract!Closed, Settled
    <3> QED
      BY <3>4 DEF Abstract!Next
  <2>7. CASE Settle
    <3>1. /\ UNCHANGED <<balance, epoch, paid>>
          /\ st.SettlingAt = 0 /\ st'.SettlingAt = NotBeforeMin(epoch + SettleDelay)
          /\ st'.Exists = st.Exists /\ st'.ToSend = st.ToSend
      BY <2>1, <2>7 DEF Settle, TypeOK, State
    <3>2. st'.SettlingAt >= epoch + SettleDelay
      BY <2>1, <3>1, PaychAssumption DEF NotBeforeMin
    <3>3. Abstract!Settle
      BY <2>2, <3>1, <3>2 DEF Abstract!Settle
    <3> QED
      BY <3>3 DEF Abstract!Next
  <2>8. CASE Collect
    <3>1. /\ st.Exists /\ ~st'.Exists /\ Settled
          /\ paid' = [To |-> st.ToSend, From |-> balance - st.ToSend]
          /\ balance' = 0 /\ st'.SettlingAt = st.SettlingAt /\ epoch' = epoch
      BY <2>1, <2>8 DEF Collect, TypeOK, State
    <3>2. Abstract!Collect
      BY <3>1 DEF Abstract!Collect, Abstract!Closed, Settled
    <3> QED
      BY <3>2 DEF Abstract!Next
  <2>9. ASSUME NEW v \in Deposits, Deposit(v)
        PROVE  Abstract!Next
    <3>1. balance' = balance + v /\ v \in Nat /\ UNCHANGED <<st, epoch, paid>>
      BY <2>9, PaychAssumption DEF Deposit
    <3>2. Abstract!Fund
      BY <2>1, <2>2, <3>1 DEF Abstract!Fund
    <3> QED
      BY <3>2 DEF Abstract!Next
  <2>10. CASE NextEpoch
    <3>1. Abstract!Pass
      BY <2>10 DEF NextEpoch, Abstract!Pass
    <3> QED
      BY <3>1 DEF Abstract!Next
  <2>11. CASE UNCHANGED vars
    BY <2>3, <2>11 DEF vars
  <2> QED
    BY <2>4, <2>5, <2>6, <2>7, <2>8, <2>9, <2>10, <2>11 DEF Next
<1> QED
  BY <1>1, <1>2, Invariance, PTL DEF Spec, KeepsPromises, Abstract!Spec
=============================================================================
