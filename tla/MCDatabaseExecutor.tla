------------------------- MODULE MCDatabaseExecutor -------------------------
(***************************************************************************)
(* A small instance of DatabaseExecutor: two core works, a plugin work and *)
(* a slow plugin work, submitted in every order and number.                *)
(***************************************************************************)
EXTENDS DatabaseExecutor

CONSTANTS core1, core2, statement, slow

MCWork == {core1, core2, statement, slow}
MCPlugin == {statement, slow}
MCSlow == {slow}
=============================================================================
