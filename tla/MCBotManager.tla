---------------------------- MODULE MCBotManager ----------------------------
(***************************************************************************)
(* Model-checking instances of BotManager.                                 *)
(***************************************************************************)
EXTENDS BotManager, TLC

CONSTANTS b1, a1, a2, c1, c2

Threads == Permutations(Admins) \cup Permutations(Clients)
=============================================================================
