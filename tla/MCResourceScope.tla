-------------------------- MODULE MCResourceScope --------------------------
(***************************************************************************)
(* An instance of ResourceScope: three openers and a reader in a scope     *)
(* that admits two resources and two operations, and a request beside it.  *)
(***************************************************************************)
EXTENDS ResourceScope

CONSTANTS open1, open2, open3, read, call

OnFirst == [o \in Readers |-> open1]
=============================================================================
