------------------------------- MODULE Paych --------------------------------
(***************************************************************************)
(* The payment channel actor (actors/builtin/paych): From funds it, To     *)
(* redeems vouchers in lanes, either asks for settlement, and after a      *)
(* delay either collects, which ends the channel.                          *)
(*                                                                         *)
(* UpdateChannelState loops over the merges of a voucher; it is unfolded,  *)
(* one step per merge on a working copy of the lanes, with nothing else    *)
(* enabled until it commits or aborts.  A voucher of Vouchers carries a    *)
(* good signature of the party that does not submit it, names this         *)
(* channel, and its secret and its Extra call are in order: otherwise the  *)
(* message aborts before it changes anything.                              *)
(***************************************************************************)
EXTENDS Integers, Sequences, FiniteSetsExt

CONSTANTS
  Lanes,         \* lane identifiers
  Vouchers,      \* the vouchers the parties have signed; each may come any
                 \* number of times, at any time and in any order
  Deposits,      \* the amounts the channel may be sent
  SettleDelay,   \* policy.go
  NoLane,        \* what LaneStates holds for a lane without state
  MaxBalance,    \* bound: tokens in the channel
  MaxEpoch       \* bound: the last epoch

Merge == [Lane : Lanes, Nonce : Nat]

SignedVoucher ==
  [Lane : Lanes, Nonce : Nat, Amount : Int, MinSettleHeight : Nat,
   TimeLockMin : Nat, TimeLockMax : Nat, Merges : Seq(Merge)]

LaneState == [Redeemed : Nat, Nonce : Nat]

ASSUME PaychAssumption ==
  /\ Vouchers \subseteq SignedVoucher
  /\ Deposits \subseteq Nat
  /\ SettleDelay \in Nat \ {0}
  /\ NoLane \notin LaneState
  /\ MaxBalance \in Nat /\ MaxEpoch \in Nat

VARIABLES
  st,       \* State
  balance,  \* rt.CurrentBalance()
  epoch,    \* rt.CurrEpoch()
  call,     \* locals of UpdateChannelState, Idle when it does not run
  log,      \* history: the vouchers redeemed, in order
  paid      \* history: what To and From got when the channel was deleted

vars == <<st, balance, epoch, call, log, paid>>

Idle == [Sv |-> NoLane]
Running == call # Idle

Nothing == [To |-> 0, From |-> 0]

-----------------------------------------------------------------------------
Init ==
  /\ st = [Exists |-> TRUE, ToSend |-> 0, SettlingAt |-> 0, MinSettleHeight |-> 0,
           LaneStates |-> [l \in Lanes |-> NoLane]]
  /\ balance \in 0 .. MaxBalance
  /\ epoch = 0
  /\ call = Idle
  /\ log = <<>>
  /\ paid = Nothing

Settled == st.SettlingAt # 0 /\ epoch >= st.SettlingAt

MutantReplay(lstates, lane, nonce) == TRUE

\* The lane's nonce is behind; findLane gives nil for a lane without state.
Fresh(lstates, lane, nonce) == lstates[lane] # NoLane => lstates[lane].Nonce < nonce

\* The checks on the voucher alone, and the nonce of its lane.
UpdateChannelState(sv) ==
  /\ st.Exists /\ ~Running
  /\ ~Settled
  /\ epoch >= sv.TimeLockMin
  /\ sv.TimeLockMax # 0 => epoch <= sv.TimeLockMax
  /\ sv.Amount >= 0
  /\ Fresh(st.LaneStates, sv.Lane, sv.Nonce)
  /\ call' = [Sv |-> sv, Merges |-> sv.Merges, lstates |-> st.LaneStates,
              redeemedFromOthers |-> 0]
  /\ UNCHANGED <<st, balance, epoch, log, paid>>

Mergeable(merge) ==
  /\ merge.Lane # call.Sv.Lane
  /\ call.lstates[merge.Lane] # NoLane
  /\ Fresh(call.lstates, merge.Lane, merge.Nonce)

MergeLane ==
  /\ Running /\ call.Merges # <<>>
  /\ Mergeable(Head(call.Merges))
  /\ call' = [call EXCEPT
       !.Merges = Tail(call.Merges),
       !.lstates = [call.lstates EXCEPT ![Head(call.Merges).Lane] =
                      [Redeemed |-> call.lstates[Head(call.Merges).Lane].Redeemed,
                       Nonce |-> Head(call.Merges).Nonce]],
       !.redeemedFromOthers =
          call.redeemedFromOthers + call.lstates[Head(call.Merges).Lane].Redeemed]
  /\ UNCHANGED <<st, balance, epoch, log, paid>>

Redeemed(lstates, lane) == IF lstates[lane] = NoLane THEN 0 ELSE lstates[lane].Redeemed

MutantCountAgain == st.ToSend + (call.Sv.Amount - Redeemed(call.lstates, call.Sv.Lane))

newSendBalance ==
  st.ToSend + (call.Sv.Amount
                 - (call.redeemedFromOthers + Redeemed(call.lstates, call.Sv.Lane)))

MutantOnlyPositive == newSendBalance >= 0

CoversVoucher == newSendBalance >= 0 /\ newSendBalance <= balance

\* A voucher can put the settlement off, once it is under way.
Postponed(at, height) == IF at # 0 /\ at < height THEN height ELSE at

CommitUpdate ==
  /\ Running /\ call.Merges = <<>>
  /\ CoversVoucher
  /\ st' = [st EXCEPT
       !.ToSend = newSendBalance,
       !.SettlingAt = Postponed(st.SettlingAt, call.Sv.MinSettleHeight),
       !.MinSettleHeight = IF st.MinSettleHeight < call.Sv.MinSettleHeight
                           THEN call.Sv.MinSettleHeight ELSE st.MinSettleHeight,
       !.LaneStates = [call.lstates EXCEPT ![call.Sv.Lane] =
                         [Redeemed |-> call.Sv.Amount, Nonce |-> call.Sv.Nonce]]]
  /\ call' = Idle
  /\ log' = Append(log, call.Sv)
  /\ UNCHANGED <<balance, epoch, paid>>

AbortUpdate ==
  /\ Running
  /\ IF call.Merges = <<>> THEN ~CoversVoucher ELSE ~Mergeable(Head(call.Merges))
  /\ call' = Idle
  /\ UNCHANGED <<st, balance, epoch, log, paid>>

MutantSettleNow(at) == at

\* Settle: no sooner than a voucher asked for.
NotBeforeMin(at) == IF at < st.MinSettleHeight THEN st.MinSettleHeight ELSE at

Settle ==
  /\ st.Exists /\ ~Running
  /\ st.SettlingAt = 0
  /\ st' = [st EXCEPT !.SettlingAt = NotBeforeMin(epoch + SettleDelay)]
  /\ UNCHANGED <<balance, epoch, call, log, paid>>

\* DeleteActor sends what is left to From.
Collect ==
  /\ st.Exists /\ ~Running
  /\ Settled
  /\ st.ToSend <= balance
  /\ paid' = [To |-> st.ToSend, From |-> balance - st.ToSend]
  /\ balance' = 0
  /\ st' = [st EXCEPT !.Exists = FALSE]
  /\ UNCHANGED <<epoch, call, log>>

Deposit(v) ==
  /\ st.Exists /\ ~Running
  /\ balance + v <= MaxBalance
  /\ balance' = balance + v
  /\ UNCHANGED <<st, epoch, call, log, paid>>

NextEpoch ==
  /\ ~Running
  /\ epoch < MaxEpoch
  /\ epoch' = epoch + 1
  /\ UNCHANGED <<st, balance, call, log, paid>>

Next ==
  \/ \E sv \in Vouchers : UpdateChannelState(sv)
  \/ MergeLane \/ CommitUpdate \/ AbortUpdate
  \/ Settle \/ Collect
  \/ \E v \in Deposits : Deposit(v)
  \/ NextEpoch

Spec == Init /\ [][Next]_vars

-----------------------------------------------------------------------------
(* Properties.                                                             *)

State ==
  [Exists : BOOLEAN, ToSend : Nat, SettlingAt : Nat, MinSettleHeight : Nat,
   LaneStates : [Lanes -> LaneState \cup {NoLane}]]

Call ==
  [Sv : Vouchers, Merges : Seq(Merge), lstates : [Lanes -> LaneState \cup {NoLane}],
   redeemedFromOthers : Nat]

\* The type of every variable: the state, the funds and the update under way.
TypeOK ==
  /\ st \in State
  /\ balance \in Nat
  /\ epoch \in Nat
  /\ call \in Call \cup {Idle}
  /\ log \in Seq(Vouchers)
  /\ paid \in [To : Nat, From : Nat]

\* Vouchers that come twice, late or out of order count for nothing: those
\* redeemed in a lane have ever greater nonces, also greater than those with
\* which the lane was merged into others before, and a merge, too, needs a
\* greater nonce than what was redeemed in the lane before it.
NoncesRise ==
  \A j \in 1 .. Len(log) : \A i \in 1 .. j - 1 :
    /\ log[i].Lane = log[j].Lane => log[i].Nonce < log[j].Nonce
    /\ \A m \in 1 .. Len(log[i].Merges) :
         log[i].Merges[m].Lane = log[j].Lane => log[i].Merges[m].Nonce < log[j].Nonce
    /\ \A m \in 1 .. Len(log[j].Merges) :
         log[j].Merges[m].Lane = log[i].Lane => log[i].Nonce < log[j].Merges[m].Nonce

\* What a lane's last voucher before the j-th redeemed one was worth.
LastAmount(lane, j) ==
  LET earlier == {i \in 1 .. j - 1 : log[i].Lane = lane}
  IN  IF earlier = {} THEN 0 ELSE log[Max(earlier)].Amount

\* What the j-th voucher takes over from the lanes it merges, by their vouchers
\* until then.
TakenOver(j) ==
  MapThenSumSet(LAMBDA m : LastAmount(log[j].Merges[m].Lane, j), 1 .. Len(log[j].Merges))

\* No amount counts twice and none is lost, in whatever order vouchers came: To
\* is promised the last voucher of each lane, less what merges took over, each
\* at its time, since a voucher includes what it merges (newSendBalance of
\* UpdateChannelState).  The vouchers redeemed alone determine the promise.
CountedOnce ==
  st.ToSend = MapThenSumSet(LAMBDA l : LastAmount(l, Len(log) + 1), Lanes)
                - MapThenSumSet(TakenOver, 1 .. Len(log))

\* Settlement waits for every voucher: the channel never settles before the
\* MinSettleHeight of a voucher it has redeemed, whether the voucher came
\* before or after the call for settlement.
SettlementWaits ==
  \A i \in 1 .. Len(log) :
    /\ log[i].MinSettleHeight <= st.MinSettleHeight
    /\ st.SettlingAt # 0 => log[i].MinSettleHeight <= st.SettlingAt
    /\ ~st.Exists => log[i].MinSettleHeight <= epoch

Abstract == INSTANCE Channel WITH
  now      <- epoch,
  held     <- balance,
  promised <- IF st.Exists THEN st.ToSend ELSE 0,
  closesAt <- st.SettlingAt

\* The actor keeps the promises of a payment channel: what is promised is
\* always covered, it can change only until settlement, settlement takes at
\* least SettleDelay and is never moved forward, and collection pays To what is
\* promised and From the rest.
KeepsPromises == Abstract!Spec
=============================================================================
