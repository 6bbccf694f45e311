----------------------------- MODULE MCPostBlock ----------------------------
(* Model-checking instance of PostBlock: two execution blocks of one log,  *)
(* two hashes, three PostBlockProcess calls.                               *)
EXTENDS PostBlock

CONSTANTS h1, h2

MCHashes == {h1, h2}
=============================================================================
