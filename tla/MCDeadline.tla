----------------------------- MODULE MCDeadline -----------------------------
(* Small instances of Deadline. *)
EXTENDS Deadline
=============================================================================
