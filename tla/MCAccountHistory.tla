---------------------------- MODULE MCAccountHistory ----------------------------
(* The instances of MCAccountService, with the history variable. *)
EXTENDS MCAccountService, AccountHistory
=============================================================================
