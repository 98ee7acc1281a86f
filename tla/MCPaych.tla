------------------------------ MODULE MCPaych -------------------------------
(***************************************************************************)
(* A channel with two lanes.  The vouchers overlap: two for the same lane  *)
(* and nonce, one with a smaller amount and a greater nonce, one that is   *)
(* only good early and one only late, and merges in both directions, one   *)
(* of them with the same lane twice.                                       *)
(***************************************************************************)
EXTENDS Paych

Voucher(lane, nonce, amount, height, from, until, merges) ==
  [Lane |-> lane, Nonce |-> nonce, Amount |-> amount, MinSettleHeight |-> height,
   TimeLockMin |-> from, TimeLockMax |-> until, Merges |-> merges]

M(lane, nonce) == [Lane |-> lane, Nonce |-> nonce]

SomeVouchers ==
  {Voucher(1, 1, 2, 0, 0, 0, <<>>),
   Voucher(1, 1, 1, 3, 0, 1, <<>>),
   Voucher(1, 2, 1, 0, 0, 0, <<>>),
   Voucher(2, 0, 1, 0, 0, 0, <<>>),
   Voucher(2, 2, 3, 4, 1, 0, <<M(1, 2)>>),
   Voucher(1, 3, 3, 0, 0, 0, <<M(2, 3)>>),
   Voucher(2, 4, 2, 0, 0, 3, <<M(1, 4), M(1, 5)>>)}
=============================================================================
