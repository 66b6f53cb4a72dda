---------------------------- MODULE AudioEngine ----------------------------
(***************************************************************************)
(* The audio path of src/src/sdr-main.c and the updates that reach into it:*)
(*                                                                         *)
(*   audio_callback          JACK's realtime thread, once per period        *)
(*   process_samples_thread  gethold, the DSP under the update semaphore,   *)
(*                           puthold                                        *)
(*   setNewBuflen, setRingBufferReset, setRingBufferOffset                  *)
(*                           on the update thread, under the semaphore      *)
(*                                                                         *)
(* The four rings are the bounded queues that RingBuffer implements.  A     *)
(* ring call is a step, but the callback's pair of output reads is one step *)
(* and its restart is three: the input rings, the right output ring, the    *)
(* left one.  The input rings go together because no block can be had while *)
(* one of them is empty.  Only the two flags doin and susp stand between    *)
(* the three threads: gethold, puthold and the callback run without the     *)
(* semaphore.                                                               *)
(*                                                                         *)
(* A sample is the time it was captured at, modulo Period; 0 is silence.    *)
(***************************************************************************)
EXTENDS Integers, Sequences, FiniteSets

CONSTANTS
  Capacity,     \* samples a ring holds: ring size - 1, fixed at start-up
  NFrames,      \* JACK's buffer size
  Frames0,      \* the DSP block length the program starts with
  SkewOffs,     \* --skewoffs: samples by which left and right are offset
  Offsets,      \* arguments of setRingBufferOffset
  BufLens,      \* arguments of setNewBuflen
  MaxCommands,  \* bound: updates in a behaviour
  MaxPosts,     \* bound: pending posts of the buffer semaphore
  Period        \* bound: capture times are counted modulo Period

ASSUME EngineAssumption ==
  /\ Capacity \in Nat /\ NFrames \in Nat \ {0} /\ Frames0 \in Nat \ {0}
  /\ SkewOffs \in Int /\ Offsets \subseteq Int /\ BufLens \subseteq Nat
  /\ MaxCommands \in Nat /\ MaxPosts \in Nat \ {0} /\ Period \in Nat \ {0}

VARIABLES
  inl, inr,     \* top->snds.ring.i.l and .r, oldest sample first
  outl, outr,   \* how much the output rings hold
  doin,         \* top->snds.doin: restart the rings in the next callback
  susp,         \* top->susp
  offs,         \* top->offs
  bufsem,       \* top->sync.buf.sem
  upd,          \* who holds top->sync.upd.sem
  frames,       \* top->hold.size.frames
  freed,        \* the hold buffers are freed and not yet allocated again
  holdl, holdr, \* top->hold.buf
  cb,           \* where the callback is
  trx,          \* where process_samples_thread is
  cmd,          \* where the update being run is
  want,         \* the new length it was given
  ncmd,         \* updates so far
  now,          \* capture time of the next input sample
  skew,         \* the offset the input rings were last restarted with
  torn          \* what has happened to the rings since their last restart:
                \* "in", "out": restarted or resized under a running transfer,
                \* "out" also: put to between the restarts of right and left,
                \* "short": the right input was stored in part only,
                \* "gap": a period was left out of rings that are offset,
                \* "len": the block length changed, and no post since

rings  == <<inl, inr, outl, outr>>
holds  == <<frames, freed, holdl, holdr>>
command == <<cmd, want, ncmd>>
vars == <<rings, doin, susp, offs, bufsem, upd, holds, cb, trx, command,
                 now, skew, torn>>

Silence(n) == [i \in 1 .. n |-> 0]

Least(a, b) == IF a < b THEN a ELSE b

(* ringb_float_write on a queue: as much of s as there is room for.        *)
Written(q, s) == q \o SubSeq(s, 1, Least(Len(s), Capacity - Len(q)))

(* ringb_float_read: n samples, or what there is, to the front of dest.    *)
Taken(q, n) == SubSeq(q, Least(n, Len(q)) + 1, Len(q))
Filled(dest, q, n) ==
  [i \in DOMAIN dest |-> IF i <= n /\ i <= Len(q) THEN q[i] ELSE dest[i]]

(* The samples JACK hands over in this period.                             *)
Captured == [i \in 1 .. NFrames |-> ((now + i - 1) % Period) + 1]

(* popcnt(new_buflen) == 1                                                 *)
PowerOfTwo(n) == \E k \in 0 .. n : n = 2 ^ k

NewHold(n) ==
  /\ frames' = n
  /\ holdl' = Silence(n)
  /\ holdr' = Silence(n)
  /\ freed' = FALSE

-----------------------------------------------------------------------------
(* setup_local_audio, setup_system_audio and setup_threading, once execute *)
(* has posted the update semaphore and started JACK.                       *)
Init ==
  /\ inl = <<>> /\ inr = <<>> /\ outl = 0 /\ outr = 0
  /\ doin = TRUE /\ susp = FALSE /\ offs = SkewOffs
  /\ bufsem = 0 /\ upd = "free"
  /\ frames = Frames0 /\ freed = FALSE
  /\ holdl = Silence(Frames0) /\ holdr = Silence(Frames0)
  /\ cb = "idle" /\ trx = "wait" /\ cmd = "idle" /\ want = 0
  /\ ncmd = 0
  /\ now = 0 /\ skew = 0 /\ torn = {}

-----------------------------------------------------------------------------
(* audio_callback.                                                         *)

Getting == trx \in {"left", "right"}
Putting == trx \in {"putleft", "putright"}

Mark(side, clears, midway) ==
  (torn \ clears) \cup (IF midway THEN {side} ELSE {})

(* Empty both input rings, then put the offset in as zeros on one side.    *)
RestartInput ==
  /\ cb = "idle" /\ doin
  /\ inl' = Written(<<>>, Silence(IF offs < 0 THEN -offs ELSE 0))
  /\ inr' = Written(<<>>, Silence(IF offs > 0 THEN offs ELSE 0))
  /\ skew' = offs
  /\ torn' = Mark("in", {"in", "short", "gap"}, Getting)
  /\ cb' = "restartout"
  /\ UNCHANGED <<outl, outr, doin, susp, offs, bufsem, upd, holds, trx, command,
                 now>>

(* Restart the right output ring with one period of silence.               *)
RestartOutputRight ==
  /\ cb = "restartout"
  /\ outr' = Least(NFrames, Capacity)
  /\ torn' = Mark("out", {"out"}, Putting)
  /\ cb' = "restartleft"
  /\ UNCHANGED <<inl, inr, outl, doin, susp, offs, bufsem, upd, holds, trx,
                 command, now, skew>>

(* Mutant: the left output ring keeps what it holds.                       *)
MutRestartOutputLeft ==
  /\ cb = "restartleft"
  /\ doin' = FALSE
  /\ cb' = "run"
  /\ UNCHANGED <<rings, susp, offs, bufsem, upd, holds, trx, command, now, skew,
                 torn>>

(* Mutant: the request is never cleared, so every period restarts.         *)
MutKeepRequest ==
  /\ cb = "restartleft"
  /\ outl' = Least(NFrames, Capacity)
  /\ cb' = "run"
  /\ UNCHANGED <<inl, inr, outr, doin, susp, offs, bufsem, upd, holds, trx,
                 command, now, skew, torn>>

(* The left one after it; the request is cleared only now.                 *)
RestartOutputLeft ==
  /\ cb = "restartleft"
  /\ outl' = Least(NFrames, Capacity)
  /\ doin' = FALSE
  /\ cb' = "run"
  /\ UNCHANGED <<inl, inr, outr, susp, offs, bufsem, upd, holds, trx, command,
                 now, skew, torn>>

AtSuspCheck == cb = "run" \/ (cb = "idle" /\ ~doin)

Tick == now' = (now + NFrames) % Period

(* Suspended: silence to JACK, the input is dropped, the DSP is not woken. *)
CallbackSuspended ==
  /\ AtSuspCheck /\ susp
  /\ Tick
  /\ torn' = IF skew # 0 THEN torn \cup {"gap"} ELSE torn
  /\ cb' = "idle"
  /\ UNCHANGED <<rings, doin, susp, offs, bufsem, upd, holds, trx, command,
                 skew>>

(* One period from the output rings, if both have it; else silence.        *)
CopyOutput ==
  LET n == IF outl >= NFrames /\ outr >= NFrames THEN NFrames ELSE 0 IN
  /\ AtSuspCheck /\ ~susp
  /\ outl' = outl - n
  /\ outr' = outr - n
  /\ cb' = "input"
  /\ UNCHANGED <<inl, inr, doin, susp, offs, bufsem, upd, holds, trx, command,
                 now, skew, torn>>

(* Mutant: the left write goes ahead without the check for room.           *)
MutCopyInputLeft ==
  /\ cb = "input"
  /\ inl' = Written(inl, Captured)
  /\ cb' = "inright"
  /\ UNCHANGED doin
  /\ UNCHANGED <<inr, outl, outr, susp, offs, bufsem, upd, holds, trx, command,
                 now, skew, torn>>

(* Both operands of the code's && ask the LEFT ring for room.  With none   *)
(* the period is dropped and a restart asked for.                          *)
CopyInputLeft ==
  /\ cb = "input"
  /\ IF Capacity - Len(inl) >= NFrames
     THEN inl' = Written(inl, Captured) /\ cb' = "inright" /\ UNCHANGED doin
     ELSE doin' = TRUE /\ cb' = "post" /\ UNCHANGED inl
  /\ UNCHANGED <<inr, outl, outr, susp, offs, bufsem, upd, holds, trx, command,
                 now, skew, torn>>

CopyInputRight ==
  /\ cb = "inright"
  /\ inr' = Written(inr, Captured)
  /\ torn' = IF Capacity - Len(inr) < NFrames THEN torn \cup {"short"} ELSE torn
  /\ cb' = "post"
  /\ UNCHANGED <<inl, outl, outr, doin, susp, offs, bufsem, upd, holds, trx,
                 command, now, skew>>

(* Mutant: the DSP is woken only when the output has run dry.              *)
MutPost ==
  /\ cb = "post"
  /\ bufsem' = IF outl = 0 THEN Least(bufsem + 1, MaxPosts) ELSE bufsem
  /\ Tick
  /\ torn' = torn \ {"len"}
  /\ cb' = "idle"
  /\ UNCHANGED <<rings, doin, susp, offs, upd, holds, trx, command, skew>>

(* sem_post(top->sync.buf.sem).  Posts beyond MaxPosts are not counted: one *)
(* wake-up drains every full block, so further ones find nothing to do.     *)
Post ==
  /\ cb = "post"
  /\ bufsem' = Least(bufsem + 1, MaxPosts)
  /\ Tick
  /\ torn' = torn \ {"len"}
  /\ cb' = "idle"
  /\ UNCHANGED <<rings, doin, susp, offs, upd, holds, trx, command, skew>>

Callback ==
  \/ RestartInput \/ RestartOutputRight \/ RestartOutputLeft
  \/ CallbackSuspended \/ CopyOutput
  \/ CopyInputLeft \/ CopyInputRight \/ Post

-----------------------------------------------------------------------------
(* process_samples_thread.                                                 *)

WaitBuf ==
  /\ trx = "wait" /\ bufsem > 0
  /\ bufsem' = bufsem - 1
  /\ trx' = "check"
  /\ UNCHANGED <<rings, doin, susp, offs, upd, holds, cb, command, now,
                 skew, torn>>

BlockReady == Len(inl) >= frames /\ Len(inr) >= frames

(* The test in gethold; if there is no full block, back to sem_wait.       *)
CheckHold ==
  /\ trx = "check"
  /\ trx' = IF BlockReady THEN "left" ELSE "wait"
  /\ UNCHANGED <<rings, doin, susp, offs, bufsem, upd, holds, cb, command,
                 now, skew, torn>>

GetLeft ==
  /\ trx = "left"
  /\ holdl' = Filled(holdl, inl, frames)
  /\ inl' = Taken(inl, frames)
  /\ trx' = "right"
  /\ UNCHANGED <<inr, outl, outr, doin, susp, offs, bufsem, upd, frames,
                 freed, holdr, cb,
                 command, now, skew, torn>>

GetRight ==
  /\ trx = "right"
  /\ holdr' = Filled(holdr, inr, frames)
  /\ inr' = Taken(inr, frames)
  /\ trx' = "process"
  /\ UNCHANGED <<inl, outl, outr, doin, susp, offs, bufsem, upd, frames,
                 freed, holdl, cb,
                 command, now, skew, torn>>

(* sem_wait(upd); run_mute .. run_test; sem_post(upd): the DSP works in    *)
(* place on the hold buffers, and no update runs meanwhile.  What it       *)
(* leaves there is no longer a captured sample.                            *)
Process ==
  /\ trx = "process" /\ upd = "free"
  /\ holdl' = Silence(frames)
  /\ holdr' = Silence(frames)
  /\ trx' = "put"
  /\ UNCHANGED <<rings, doin, susp, offs, bufsem, upd, frames, freed, cb,
                 command, now, skew, torn>>

(* The test in puthold: with too little room the block is dropped.         *)
CheckPut ==
  /\ trx = "put"
  /\ trx' = IF Capacity - outl >= frames /\ Capacity - outr >= frames
            THEN "putleft" ELSE "check"
  /\ UNCHANGED <<rings, doin, susp, offs, bufsem, upd, holds, cb, command,
                 now, skew, torn>>

(* What is put here between the callback's two restarts is lost to the     *)
(* left ring only.                                                         *)
PutLeft ==
  /\ trx = "putleft"
  /\ outl' = Least(outl + frames, Capacity)
  /\ torn' = IF cb = "restartleft" THEN torn \cup {"out"} ELSE torn
  /\ trx' = "putright"
  /\ UNCHANGED <<inl, inr, outr, doin, susp, offs, bufsem, upd, holds, cb,
                 command, now, skew>>

PutRight ==
  /\ trx = "putright"
  /\ outr' = Least(outr + frames, Capacity)
  /\ trx' = "check"
  /\ UNCHANGED <<inl, inr, outl, doin, susp, offs, bufsem, upd, holds, cb,
                 command, now, skew, torn>>

ProcessSamples ==
  \/ WaitBuf \/ CheckHold \/ GetLeft \/ GetRight \/ Process
  \/ CheckPut \/ PutLeft \/ PutRight

-----------------------------------------------------------------------------
(* The updates that touch the audio path.                                  *)

MayCommand == cmd = "idle" /\ upd = "free" /\ ncmd < MaxCommands

SetRingBufferReset ==
  /\ MayCommand
  /\ ncmd' = ncmd + 1
  /\ doin' = TRUE
  /\ UNCHANGED <<rings, susp, offs, bufsem, upd, holds, cb, trx, cmd, want, now,
                 skew, torn>>

SetRingBufferOffset(k) ==
  /\ MayCommand
  /\ ncmd' = ncmd + 1
  /\ offs' = k
  /\ doin' = TRUE
  /\ UNCHANGED <<rings, susp, bufsem, upd, holds, cb, trx, cmd, want, now,
                 skew, torn>>

(* setNewBuflen: top->susp = TRUE, then reset_for_buflen, which refuses a   *)
(* length that is not a power of two.                                       *)
SetNewBuflen(n) ==
  /\ MayCommand
  /\ ncmd' = ncmd + 1
  /\ upd' = "update"
  /\ susp' = TRUE
  /\ cmd' = IF PowerOfTwo(n) THEN "resize" ELSE "resume"
  /\ want' = n
  /\ UNCHANGED <<rings, doin, offs, bufsem, holds, cb, trx, now, skew, torn>>

(* reset_for_buflen frees the hold buffers and tears the workspace down.   *)
FreeHold ==
  /\ cmd = "resize" /\ ~freed
  /\ freed' = TRUE
  /\ UNCHANGED <<rings, doin, susp, offs, bufsem, upd, frames, holdl, holdr,
                 cb, trx, command,
                 now, skew, torn>>

(* setup_local_audio: the offset of the command line again, the new length,*)
(* new buffers.  The rings keep their size.                                *)
AllocHold ==
  /\ cmd = "resize" /\ freed
  /\ NewHold(want)
  /\ offs' = SkewOffs
  /\ torn' = torn \cup (IF Getting THEN {"in"} ELSE {})
                  \cup (IF Putting THEN {"out"} ELSE {})
                  \cup {"len"}
  /\ cmd' = "resume"
  /\ UNCHANGED <<rings, doin, susp, bufsem, upd, cb, trx, want, ncmd, now, skew>>

Resume ==
  /\ cmd = "resume"
  /\ susp' = FALSE
  /\ upd' = "free"
  /\ cmd' = "idle"
  /\ want' = 0
  /\ UNCHANGED <<rings, doin, offs, bufsem, holds, cb, trx, ncmd, now, skew,
                 torn>>

Update ==
  \/ SetRingBufferReset
  \/ \E k \in Offsets : SetRingBufferOffset(k)
  \/ \E n \in BufLens : SetNewBuflen(n)
  \/ FreeHold \/ AllocHold \/ Resume

Next == Callback \/ ProcessSamples \/ Update

Spec == Init /\ [][Next]_vars

(* JACK keeps calling; both threads keep running; an update that has begun *)
(* ends; the DSP thread is not forever late for the semaphore, nor for the *)
(* moments at which the rings hold a block.                                *)
Fairness ==
  /\ WF_vars(Callback)
  /\ WF_vars(ProcessSamples)
  /\ SF_vars(Process)
  /\ SF_vars(WaitBuf /\ BlockReady)
  /\ SF_vars(CheckHold /\ BlockReady)
  /\ WF_vars(FreeHold \/ AllocHold \/ Resume)

FairSpec == Spec /\ Fairness

-----------------------------------------------------------------------------
Sample == 0 .. Period

TypeOK ==
  /\ inl \in Seq(Sample) /\ inr \in Seq(Sample)
  /\ Len(inl) <= Capacity /\ Len(inr) <= Capacity
  /\ outl \in 0 .. Capacity /\ outr \in 0 .. Capacity
  /\ doin \in BOOLEAN /\ susp \in BOOLEAN /\ offs \in Int
  /\ bufsem \in 0 .. MaxPosts /\ upd \in {"free", "update"}
  /\ frames \in Nat /\ freed \in BOOLEAN
  /\ holdl \in Seq(Sample) /\ holdr \in Seq(Sample)
  /\ Len(holdl) = frames /\ Len(holdr) = frames
  /\ cb \in {"idle", "restartout", "restartleft", "run", "input", "inright",
             "post"}
  /\ trx \in {"wait", "check", "left", "right", "process", "put", "putleft", "putright"}
  /\ cmd \in {"idle", "resize", "resume"} /\ want \in BufLens \cup {0}
  /\ ncmd \in 0 .. MaxCommands /\ now \in 0 .. Period - 1
  /\ skew \in Int /\ torn \subseteq {"in", "out", "short", "gap", "len"}

(* Left and right of one block were captured skew samples apart.           *)
InPhase(l, r) ==
  \A i \in DOMAIN l : l[i] # 0 /\ r[i] # 0 => (r[i] - l[i] + skew) % Period = 0

(* The step that completes a block for the DSP.                            *)
BlockTaken == trx = "right" /\ trx' = "process"

(* Whatever overruns and restarts happened before, a block that reaches    *)
(* the DSP has its two channels in phase, unless the callback restarted    *)
(* the rings or setNewBuflen changed the length in the middle of gethold,  *)
(* the right input was stored in part only, or periods were dropped under  *)
(* setNewBuflen while the rings were offset.                               *)
BlocksInPhase ==
  [][BlockTaken /\ torn \subseteq {"out", "len"} => InPhase(holdl', holdr')]_vars

(* The output rings stay level, so that left and right leave together,     *)
(* unless the restart or the new length came in the middle of puthold, or  *)
(* a left block was put after the restart of right and before that of      *)
(* left: then they stay apart until the next restart.                      *)
OutputLevel ==
  "out" \notin torn /\ trx # "putright" /\ cb # "restartleft" => outl = outr

(* No lost wake-up: the DSP does not sleep on a full block, unless the     *)
(* callback is about to post or setNewBuflen has just changed what a full  *)
(* block is; the next callback then wakes the DSP.                         *)
NoLostWakeup ==
  trx = "wait" /\ bufsem = 0 /\ BlockReady =>
    cb \in {"inright", "post"} \/ "len" \in torn

(* Overruns, restarts and changes of length end: the DSP never stops       *)
(* getting blocks.                                                         *)
DspKeepsRunning == []<>(trx = "process")

-----------------------------------------------------------------------------
(* What the source says and the code does not keep.                        *)

(* sdrexport.h: "int offs; // to compensate for L/R ADC lags".  The offset *)
(* asked for is the one in the rings once callback and update are done.    *)
OffsetInEffect == cb = "idle" /\ ~doin /\ cmd = "idle" => skew = offs

(* sdr-main.c: "Correct for audio channel skew by <num>".  Left and right  *)
(* stay <num> samples apart while nothing restarts or resizes the rings.   *)
SkewKept == [][BlockTaken /\ "in" \notin torn => InPhase(holdl', holdr')]_vars

(* sdr-main.c: "run synchronous updates here": an update does not change   *)
(* the buffers of a block the DSP thread is moving in or out.              *)
UpdatesSynchronous == Getting \/ Putting => ~freed

(* ringb.h: "Reset the read and write pointers, making an empty buffer.    *)
(* This is not thread safe."                                               *)
RestartAlone == [][RestartInput => ~Getting]_vars
=============================================================================
