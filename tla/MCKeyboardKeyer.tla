-------------------------- MODULE MCKeyboardKeyer --------------------------
(* One character, at two speeds, with buffers of two samples, for TLC.     *)
EXTENDS KeyboardKeyer

CONSTANT MaxUnderway \* bound: datagrams under way

MCCharacters == {<<"dah", "dit">>}

(* Bounds: what follows the loss of a command is not explored, nor answers *)
(* that pile up unread.                                                    *)
Explored == ~astray /\ requests + replies <= MaxUnderway

(* Sounding what was typed and talking to the transmitter touch nothing in *)
(* common, and are explored in turn: sound is made while nobody who talks  *)
(* can go on, or need.                                                     *)
Idle(t) ==
  call[t] = "blocked" \/ pc[t] \in {"getchar", "finish", "exit", "sleep", "open", "join"}
SoundMoves ==
  <<sems, sound, rings, pc["play"]>>' # <<sems, sound, rings, pc["play"]>>
InTurn == SoundMoves => \A t \in Speakers : Idle(t)
=============================================================================
