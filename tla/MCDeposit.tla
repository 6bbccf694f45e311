----------------------------- MODULE MCDeposit ------------------------------
(* The deposit service on beacon slots 0..3 with 2-bit slots, so that the *)
(* subtraction at slot 0 wraps to 3, and deposits in execution blocks     *)
(* 0..2.                                                                   *)
EXTENDS Deposit

MCDepositSlots == {0, 1, 2}

=============================================================================
