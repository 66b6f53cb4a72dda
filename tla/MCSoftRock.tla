----------------------------- MODULE MCSoftRock -----------------------------
(* A FIFO of two readings, dits of one tick, and one paddle, for TLC.      *)
EXTENDS SoftRock

CONSTANTS
  MaxUnderway, \* bound: datagrams under way
  MaxSenders   \* bound: threads in send_command at once

MCPositions == {{}, {"dit"}}

(* Bounds: what follows the loss of a keying command, or a timer that is   *)
(* ahead of the ticks, is not explored, nor answers that pile up unread,   *)
(* nor commands of many threads at once.                                   *)
Explored ==
  /\ ~astray /\ ~late
  /\ Len(requests) + Len(replies) <= MaxUnderway
  /\ Cardinality({t \in Threads : pc[t] \in Sending}) <= MaxSenders

(* The paddles are looked at when the radio takes get keys: moves at other *)
(* times come to the same and are not explored.                            *)
MovesSeen ==
  paddles' # paddles => requests # <<>> /\ Head(requests).what = "get keys"
=============================================================================
