---------------------------- MODULE SampleQueue ----------------------------
(***************************************************************************)
(* What a ring buffer promises its two users: a bounded queue.  Samples    *)
(* are numbered in the order the writer supplies them.  A put adds the     *)
(* next few samples at the tail, never beyond the capacity; a take removes *)
(* a few from the head; nothing else happens to a sample.                  *)
(***************************************************************************)
EXTENDS Integers, Sequences

CONSTANT Capacity

VARIABLES
  queue,   \* the samples a reader can see, oldest first
  put,     \* number of samples made visible to the reader so far
  taken    \* number of samples removed so far

vars == <<queue, put, taken>>

Init == queue = <<>> /\ put = 0 /\ taken = 0

Put ==
  \E n \in 1 .. Capacity - Len(queue) :
    /\ queue' = queue \o [i \in 1 .. n |-> put + i]
    /\ put' = put + n
    /\ UNCHANGED taken

Take ==
  \E n \in 1 .. Len(queue) :
    /\ queue' = SubSeq(queue, n + 1, Len(queue))
    /\ taken' = taken + n
    /\ UNCHANGED put

Next == Put \/ Take

Spec == Init /\ [][Next]_vars
=============================================================================
