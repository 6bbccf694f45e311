----------------------------- MODULE MCLogCache -----------------------------
(* Model-checking instance of LogCache: four execution blocks of two logs *)
(* each, enough for a failed block, a repeated block, a skipped block and  *)
(* a restart to interleave.                                                *)
EXTENDS LogCache

MCMaxBlock == 4
MCLogsPerBlock == 2
=============================================================================
