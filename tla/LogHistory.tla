----------------------------- MODULE LogHistory ------------------------------
(***************************************************************************)
(* What the execution-log cache promises its readers, with no processing   *)
(* store and no driver: the committed log history only grows by the whole *)
(* list of logs of one block above the last committed block; committing a *)
(* block at the last committed block changes nothing; a node restart      *)
(* forgets everything.  LogCache implements this specification under the  *)
(* mapping history <- finalStore, last <- lastFinalizedBlock, when the    *)
(* engine never hands back a block below the last committed one.          *)
(***************************************************************************)
EXTENDS Naturals, Sequences

CONSTANTS MaxBlock, LogsPerBlock

VARIABLES
  history,  \* the committed logs, in commit order
  last      \* the last committed block

\* All logs of block b, in their order in the block.
BlockLogs(b) == [k \in 1..LogsPerBlock |-> <<b, k>>]

Init ==
  /\ history = <<>>
  /\ last = 0

\* Block b is committed: its logs follow the history unless b is the last
\* committed block already.
Commit(b) ==
  /\ b >= last
  /\ last' = b
  /\ history' = IF b > last THEN history \o BlockLogs(b) ELSE history

\* The node restarts: nothing of the history survives.
Forget ==
  /\ history' = <<>>
  /\ last' = 0

Next ==
  \/ \E b \in 1..MaxBlock : Commit(b)
  \/ Forget

Spec == Init /\ [][Next]_<<history, last>>

=============================================================================
