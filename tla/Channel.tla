------------------------------ MODULE Channel -------------------------------
(***************************************************************************)
(* What a payment channel promises to the two accounts that share it, with *)
(* no lanes, nonces or vouchers: From can always count on getting back     *)
(* what is not promised, and To on what is promised, once the channel has  *)
(* been settling for long enough; nothing changes in between.              *)
(***************************************************************************)
EXTENDS Integers

CONSTANT SettleDelay  \* least time between the call for settlement and the end

VARIABLES
  now,       \* the epoch
  held,      \* tokens in the channel
  promised,  \* the part of them that is To's
  closesAt,  \* when the channel can be closed, 0 before settlement is asked for
  paid       \* what To and From got, the two zero while the channel exists

vars == <<now, held, promised, closesAt, paid>>

Nothing == [To |-> 0, From |-> 0]
Closed == closesAt # 0 /\ now >= closesAt

Init ==
  /\ now = 0
  /\ held \in Nat
  /\ promised = 0
  /\ closesAt = 0
  /\ paid = Nothing

Fund ==
  /\ held' \in Nat /\ held' >= held
  /\ UNCHANGED <<now, promised, closesAt, paid>>

\* A promise moves, within what is held; it may put the end off.
Promise ==
  /\ ~Closed
  /\ promised' \in 0 .. held
  /\ closesAt' \in Nat /\ closesAt' >= closesAt
  /\ closesAt = 0 => closesAt' = 0
  /\ UNCHANGED <<now, held, paid>>

Settle ==
  /\ closesAt = 0
  /\ closesAt' \in Nat /\ closesAt' >= now + SettleDelay
  /\ UNCHANGED <<now, held, promised, paid>>

Collect ==
  /\ Closed
  /\ paid' = [To |-> promised, From |-> held - promised]
  /\ held' = 0
  /\ promised' = 0
  /\ UNCHANGED <<now, closesAt>>

Pass == now' = now + 1 /\ UNCHANGED <<held, promised, closesAt, paid>>

Next == Fund \/ Promise \/ Settle \/ Collect \/ Pass

Spec == Init /\ [][Next]_vars
=============================================================================
