----------------------------- MODULE RingBuffer -----------------------------
(***************************************************************************)
(* The lock-free single-writer, single-reader ring of src/src/ringb.c, one *)
(* copied sample per step.  A transfer that wraps is done in two segments, *)
(* and ringb_write and ringb_read publish their pointer after EACH of      *)
(* them, so the other side sees a half-finished transfer.  The other way   *)
(* in, ringb_get_write_vector / ringb_get_read_vector followed by an       *)
(* advance, publishes once at the end; ringb_peek never publishes.         *)
(*                                                                         *)
(* Samples carry their number in the stream (1, 2, 3, ...): what a reader  *)
(* must see is then a matter of counting.                                  *)
(***************************************************************************)
EXTENDS RingOps, Sequences

CONSTANTS
  MaxRequest,  \* largest count a caller asks for
  MaxSent      \* bound: samples written in a behaviour

ASSUME RequestAssumption == MaxRequest \in Nat /\ MaxSent \in Nat

VARIABLES
  buf,       \* rb->buf
  wptr,      \* rb->wptr, written by the writer only
  rptr,      \* rb->rptr, written by the reader only
  wpc, wmode, wpos, wn1, wn2, wi,   \* the write call in progress
  wdone,     \* samples this call has copied
  sent,      \* samples copied into the ring, in all calls
  rpc, rmode, rpos, rn1, rn2, ri,   \* the read call in progress
  dest,      \* what this call has copied out
  consumed   \* samples taken out by the calls that have returned

wvars == <<wptr, wpc, wmode, wpos, wn1, wn2, wi, wdone, sent>>
rvars == <<rptr, rpc, rmode, rpos, rn1, rn2, ri, dest, consumed>>
vars  == <<buf, wvars, rvars>>

WModes == {"write", "vector"}
RModes == {"read", "peek", "vector"}

(* ringb_create: zeroed memory, both pointers at the start.                *)
Init ==
  /\ buf = [s \in Slots |-> 0]
  /\ wptr = 0 /\ wpc = "idle" /\ wmode = "write" /\ wpos = 0
  /\ wn1 = 0 /\ wn2 = 0 /\ wi = 0 /\ wdone = 0 /\ sent = 0
  /\ rptr = 0 /\ rpc = "idle" /\ rmode = "read" /\ rpos = 0
  /\ rn1 = 0 /\ rn2 = 0 /\ ri = 0 /\ dest = <<>> /\ consumed = 0

-----------------------------------------------------------------------------
(* The writer.                                                             *)

(* ringb_write or ringb_get_write_vector: look at the space once and plan  *)
(* both segments.  With no space the call returns 0 and changes nothing.   *)
WriteBegin(cnt, mode) ==
  LET n == Granted(cnt, WriteSpace(wptr, rptr)) IN
  /\ wpc = "idle"
  /\ n > 0
  /\ sent + n <= MaxSent
  /\ wpc' = "copy"
  /\ wmode' = mode
  /\ wpos' = wptr
  /\ wn1' = FirstSeg(wptr, n)
  /\ wn2' = SecondSeg(wptr, n)
  /\ wi' = 0
  /\ wdone' = 0
  /\ UNCHANGED <<buf, wptr, sent, rvars>>

(* One element of memcpy(&rb->buf[rb->wptr], src, n1).                     *)
WriteCopy ==
  /\ wpc = "copy" /\ wi < wn1
  /\ buf' = [buf EXCEPT ![wpos + wi] = sent + 1]
  /\ sent' = sent + 1
  /\ wi' = wi + 1
  /\ wdone' = wdone + 1
  /\ UNCHANGED <<wptr, wpc, wmode, wpos, wn1, wn2, rvars>>

(* Mutant: the pointer is published before the samples are in the buffer.  *)
MutWriteSegment ==
  /\ wpc = "copy" /\ wi + 1 >= wn1
  /\ wptr' = IF wmode = "write" THEN Mask(wpos + wn1) ELSE wptr
  /\ wpos' = Mask(wpos + wn1)
  /\ wn1' = wn2
  /\ wn2' = 0
  /\ wi' = 0
  /\ wpc' = IF wn2 = 0 THEN "done" ELSE "copy"
  /\ UNCHANGED <<buf, wmode, wdone, sent, rvars>>

(* The end of a segment: rb->wptr = (rb->wptr + n1) & rb->mask, then the   *)
(* wrapped segment if there is one.                                        *)
WriteSegment ==
  /\ wpc = "copy" /\ wi = wn1
  /\ wptr' = IF wmode = "write" THEN Mask(wpos + wn1) ELSE wptr
  /\ wpos' = Mask(wpos + wn1)
  /\ wn1' = wn2
  /\ wn2' = 0
  /\ wi' = 0
  /\ wpc' = IF wn2 = 0 THEN "done" ELSE "copy"
  /\ UNCHANGED <<buf, wmode, wdone, sent, rvars>>

(* Return to the caller; a caller that wrote through the vectors now calls *)
(* ringb_write_advance with what it copied.                                *)
WriteReturn ==
  /\ wpc = "done"
  /\ wptr' = IF wmode = "vector" THEN Mask(wptr + wdone) ELSE wptr
  /\ wpc' = "idle"
  /\ wdone' = 0
  /\ UNCHANGED <<buf, wmode, wpos, wn1, wn2, wi, sent, rvars>>

-----------------------------------------------------------------------------
(* The reader.                                                             *)

(* ringb_read, ringb_peek or ringb_get_read_vector.                        *)
ReadBegin(cnt, mode) ==
  LET n == Granted(cnt, ReadSpace(wptr, rptr)) IN
  /\ rpc = "idle"
  /\ n > 0
  /\ rpc' = "copy"
  /\ rmode' = mode
  /\ rpos' = rptr
  /\ rn1' = FirstSeg(rptr, n)
  /\ rn2' = SecondSeg(rptr, n)
  /\ ri' = 0
  /\ dest' = <<>>
  /\ UNCHANGED <<buf, wvars, rptr, consumed>>

(* One element of memcpy(dest, &rb->buf[rb->rptr], n1).                    *)
ReadCopy ==
  /\ rpc = "copy" /\ ri < rn1
  /\ dest' = Append(dest, buf[rpos + ri])
  /\ ri' = ri + 1
  /\ UNCHANGED <<buf, wvars, rptr, rpc, rmode, rpos, rn1, rn2, consumed>>

(* Mutant: the whole transfer is released after the first segment.         *)
MutReadSegment ==
  /\ rpc = "copy" /\ ri = rn1
  /\ rptr' = IF rmode = "read" THEN Mask(rptr + rn1 + rn2) ELSE rptr
  /\ rpos' = Mask(rpos + rn1)
  /\ rn1' = rn2
  /\ rn2' = 0
  /\ ri' = 0
  /\ rpc' = IF rn2 = 0 THEN "done" ELSE "copy"
  /\ UNCHANGED <<buf, wvars, rmode, dest, consumed>>

(* The end of a segment: ringb_read gives the slots back at once, ringb_peek *)
(* moves only its own tmp_rptr.                                            *)
ReadSegment ==
  /\ rpc = "copy" /\ ri = rn1
  /\ rptr' = IF rmode = "read" THEN Mask(rpos + rn1) ELSE rptr
  /\ rpos' = Mask(rpos + rn1)
  /\ rn1' = rn2
  /\ rn2' = 0
  /\ ri' = 0
  /\ rpc' = IF rn2 = 0 THEN "done" ELSE "copy"
  /\ UNCHANGED <<buf, wvars, rmode, dest, consumed>>

(* Mutant: a caller that read through the vectors forgets the advance.     *)
MutReadReturn ==
  /\ rpc = "done"
  /\ rptr' = rptr
  /\ consumed' = IF rmode = "peek" THEN consumed ELSE consumed + Len(dest)
  /\ rpc' = "idle"
  /\ dest' = <<>>
  /\ UNCHANGED <<buf, wvars, rmode, rpos, rn1, rn2, ri>>

(* Return to the caller; a caller that read through the vectors now calls  *)
(* ringb_read_advance.                                                     *)
ReadReturn ==
  /\ rpc = "done"
  /\ rptr' = IF rmode = "vector" THEN Mask(rptr + Len(dest)) ELSE rptr
  /\ consumed' = IF rmode = "peek" THEN consumed ELSE consumed + Len(dest)
  /\ rpc' = "idle"
  /\ dest' = <<>>
  /\ UNCHANGED <<buf, wvars, rmode, rpos, rn1, rn2, ri>>

-----------------------------------------------------------------------------
Next ==
  \/ \E cnt \in 1 .. MaxRequest, mode \in WModes : WriteBegin(cnt, mode)
  \/ WriteCopy
  \/ WriteSegment
  \/ WriteReturn
  \/ \E cnt \in 1 .. MaxRequest, mode \in RModes : ReadBegin(cnt, mode)
  \/ ReadCopy
  \/ ReadSegment
  \/ ReadReturn

(* A call that has begun runs to its end, and the consumer keeps calling   *)
(* ringb_read.                                                             *)
Fairness ==
  /\ WF_vars(WriteCopy \/ WriteSegment \/ WriteReturn)
  /\ WF_vars(ReadCopy \/ ReadSegment \/ ReadReturn)
  /\ SF_vars(\E cnt \in 1 .. MaxRequest : ReadBegin(cnt, "read"))

Spec     == Init /\ [][Next]_vars
FairSpec == Spec /\ Fairness

-----------------------------------------------------------------------------
TypeOK ==
  /\ buf \in [Slots -> Nat]
  /\ wptr \in Slots /\ rptr \in Slots
  /\ wpos \in Slots /\ rpos \in Slots
  /\ wpc \in {"idle", "copy", "done"} /\ rpc \in {"idle", "copy", "done"}
  /\ wmode \in WModes /\ rmode \in RModes
  /\ wn1 \in 0 .. Size /\ wn2 \in 0 .. Size /\ wi \in 0 .. wn1
  /\ rn1 \in 0 .. Size /\ rn2 \in 0 .. Size /\ ri \in 0 .. rn1
  /\ wdone \in Nat /\ sent \in Nat /\ consumed \in Nat
  /\ dest \in Seq(Nat)

(* First in, first out, exactly once: whatever the interleaving of the two *)
(* memcpy's and pointer updates, a read, peek or vector read copies the    *)
(* oldest samples not yet taken, in order, with none lost, repeated, torn  *)
(* or stale.                                                               *)
InOrder == \A i \in 1 .. Len(dest) : dest[i] = consumed + i

(* The slots a planned transfer of two segments has still to touch.        *)
Touches(pc, pos, n1, n2, i) ==
  IF pc = "copy" THEN {pos + j : j \in i .. n1 - 1} \cup 0 .. n2 - 1 ELSE {}

(* The writer's memcpy and the reader's memcpy never meet in a slot: the   *)
(* ring needs no lock.                                                     *)
NoSlotRace ==
  Touches(wpc, wpos, wn1, wn2, wi) \cap Touches(rpc, rpos, rn1, rn2, ri) = {}

(* Every sample that was written is eventually handed to the reader.       *)
EverythingDelivered ==
  \A k \in 1 .. MaxSent : (sent >= k) ~> (consumed >= k)

-----------------------------------------------------------------------------
(* The samples between the published pointers, and the counts that go with *)
(* them: the queue the ring implements.                                    *)
Visible == [i \in 1 .. ReadSpace(wptr, rptr) |-> buf[Mask(rptr + i - 1)]]

(* How far a call in progress is ahead of its published pointer.           *)
WriterAhead == IF wmode = "write" THEN wi ELSE wdone
ReaderAhead == IF rmode = "read" THEN Len(dest) - ri ELSE 0

Abstract == INSTANCE SampleQueue
  WITH Capacity <- Size - 1, queue <- Visible,
       put <- sent - WriterAhead, taken <- consumed + ReaderAhead

(* ringb.c implements the bounded queue: each published segment is one Put *)
(* or one Take of the samples next in line, and every other step is        *)
(* invisible.                                                              *)
ImplementsQueue == Abstract!Spec
=============================================================================
