----------------------------- MODULE MCPipeline -----------------------------
(* Model-checking instance of Pipeline: two execution hashes and two mixes *)
(* (so parent and RANDAO mismatches both occur), two slots per epoch and a *)
(* two-entry mix vector (so the epoch index moves and wraps), a withdrawal *)
(* limit of one (so the limit and one past it are both offered).           *)
EXTENDS Pipeline

CONSTANTS h1, h2, m1, m2

MCHashes == {h1, h2}
MCMixes == {m1, m2}
MCRandaoMixes == [i \in 0..1 |-> IF i = 0 THEN m1 ELSE m2]
=============================================================================
