----------------------------- MODULE MCCommands -----------------------------
(* Two receivers and a short replay file, for TLC.                         *)
EXTENDS Commands
=============================================================================
