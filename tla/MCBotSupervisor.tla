--------------------------- MODULE MCBotSupervisor ---------------------------
(* BotSupervisor for TLC: all of its constants are given in the cfg files. *)
EXTENDS BotSupervisor

=============================================================================
