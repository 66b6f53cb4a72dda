------------------------------ MODULE RingOps ------------------------------
(***************************************************************************)
(* The pointer arithmetic of src/src/ringb.c.  The byte ring and the float *)
(* ring are the same code twice; each operator stands for both twins.      *)
(*                                                                         *)
(* Positions and counts are size_t in the code.  Every sum below is less   *)
(* than 2 * Size, so "& mask" (Size is a power of two) takes Size off once *)
(* or not at all; the type invariants of the users check that no           *)
(* subtraction goes below zero.                                            *)
(***************************************************************************)
EXTENDS Integers

CONSTANT Size   \* rb->size, fixed by ringb_create

ASSUME SizeAssumption == Size \in Nat /\ Size >= 2

Slots == 0 .. Size - 1

(* i & mask, for 0 <= i < 2 * Size.                                        *)
Mask(i) == IF i >= Size THEN i - Size ELSE i

(* ringb_read_space: the samples a reader may take.                        *)
ReadSpace(w, r) == IF w > r THEN w - r ELSE Mask(w - r + Size)

(* ringb_write_space: one slot always stays free, so that full and empty   *)
(* differ.                                                                 *)
WriteSpace(w, r) ==
  IF w > r THEN Mask(r - w + Size) - 1
  ELSE IF w < r THEN r - w - 1 ELSE Size - 1

(* How many samples one call moves: cnt > free_cnt ? free_cnt : cnt.       *)
Granted(cnt, free) == IF cnt > free THEN free ELSE cnt

(* n1 and n2: the part of a transfer of n samples from position p that     *)
(* lies before the end of the buffer, and the part that wraps to its start.*)
FirstSeg(p, n)  == IF p + n > Size THEN Size - p ELSE n
SecondSeg(p, n) == IF p + n > Size THEN Mask(p + n) ELSE 0
=============================================================================
