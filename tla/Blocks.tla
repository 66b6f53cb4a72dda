------------------------------- MODULE Blocks -------------------------------
(***************************************************************************)
(* What the stages of the signal chain that remember earlier samples make  *)
(* of a block: noiseblanker.c, ovsv.c, dttspagc.c, lmadf.c, graphiceq.c.   *)
(*                                                                         *)
(* A sample stands for the set of the input samples it is computed from,   *)
(* each given by its age: 0 is the newest sample of the block in hand, and *)
(* {} is silence.  Gains, coefficients and adaptation, which weigh samples *)
(* but do not choose them, are left out; so are the stages that work on    *)
(* one sample at a time (correctIQ, the oscillators, the companders, the   *)
(* detectors, the mixers), which leave every sample at its place.          *)
(***************************************************************************)
EXTENDS Integers, FiniteSets, FiniteSetsExt

CONSTANTS
  N,          \* uni->buflen
  EqChunk,    \* 256, the block of graphiceq
  LmsChunk,   \* 128, the block of blms_adapt
  LmsSlots,   \* 512, lms->size
  LmsDelay,   \* lms->delay
  LmsTaps,    \* lms->adaptive_filter_size
  Horizon     \* bound: ages from here on are not told apart

ASSUME BlocksAssumption ==
  /\ {N, EqChunk, LmsChunk, LmsSlots, LmsDelay, LmsTaps, Horizon} \subseteq Nat \ {0}
  /\ N % EqChunk = 0 /\ N % LmsChunk = 0 /\ EqChunk > 1
  /\ LmsDelay + LmsTaps <= LmsSlots

Index   == 0 .. N - 1
Silence == {}
Silent  == [i \in Index |-> Silence]

(* The block that process_samples copies into buf.i.                       *)
Input == [i \in Index |-> {N - 1 - i}]

(* A block later.                                                          *)
Older(x) == {Min({a + N, Horizon}) : a \in x}
Aged(f)  == [i \in DOMAIN f |-> Older(f[i])]

-----------------------------------------------------------------------------
(* Rings that are filled downwards: nb->delay, a->circ, lms->delay_line.   *)

NewLine(size) == [at |-> 0, mem |-> [s \in 0 .. size - 1 |-> Silence]]

(* The slot d above the one that sample i of the block goes to.            *)
Slot(line, d, i) == (line.at + d - i) % Cardinality(DOMAIN line.mem)

(* What slot s holds once samples 0 .. i of block b are in.                *)
Holds(line, b, s, i) ==
  LET in == {j \in 0 .. i : Slot(line, 0, j) = s} IN
  IF in = {} THEN line.mem[s] ELSE b[Max(in)]

Peek(line, b, d, i) == Holds(line, b, Slot(line, d, i), i)

(* The ring after the first have samples of block b.                       *)
Pushed(line, b, have) ==
  [at  |-> Slot(line, 0, have),
   mem |-> [s \in DOMAIN line.mem |-> Holds(line, b, s, have - 1)]]

-----------------------------------------------------------------------------
(* noiseblanker: eight slots, a delay of two, and seven samples of silence *)
(* from a pulse on.  A pulse (cmag > threshold * average_mag) that comes   *)
(* while the blanker hangs does not start it anew.                         *)

NbSlots == 8
NbDelay == 2
NbHang  == 7
NoPulse == N

(* Sample i is blanked: hang samples are left of an earlier pulse, and one *)
(* comes at sample pulse.                                                  *)
Blanked(hang, pulse, i) ==
  i < hang \/ (hang <= pulse /\ pulse <= i /\ i < pulse + NbHang)

noiseblanker(nb, b, pulse) ==
  [i \in Index |-> IF Blanked(nb.hang, pulse, i) THEN Silence
                                                 ELSE Peek(nb.line, b, NbDelay, i)]

HangLeft(hang, pulse) ==
  IF hang <= pulse /\ pulse # NoPulse THEN Max({pulse + NbHang - N, 0})
                                      ELSE Max({hang - N, 0})

BlankerAfter(nb, b, pulse) ==
  [line |-> Pushed(nb.line, b, N), hang |-> HangLeft(nb.hang, pulse)]

NewBlanker == [line |-> NewLine(NbSlots), hang |-> 0]

-----------------------------------------------------------------------------
(* Overlap and save, c samples at a time: the block and the c samples      *)
(* before it.                                                              *)

At(half, b, c, y) == IF y < 0 THEN half[c + y] ELSE b[y]

NewHalf(c) == [x \in 0 .. c - 1 |-> Silence]

(* memcpy of the right half to the left one.                               *)
Saved(b, c) == [x \in 0 .. c - 1 |-> b[N - c + x]]

(* newFiltOvSv puts the c + 1 coefficients at the end of a transform of    *)
(* 2 * c, from place c - 1 on, a sample early.  A product of transforms    *)
(* wraps around, and output m takes these of the 2 * c samples when the    *)
(* coefficients are early samples early.                                   *)
Taps(c, early, m) == {(m - (c - early + t)) % (2 * c) : t \in 0 .. c}

filter_OvSv(half, b, c, early) ==
  [i \in Index |->
     LET start == (i \div c) * c
     IN  UNION {At(half, b, c, start - c + x) : x \in Taps(c, early, i - start)}]

(* graphiceq: the same, a chunk at a time.  new_EQ and setGrphTXEQ3 put    *)
(* their coefficients at 255; setGrphRXEQ3, setGrphRXEQ10 and              *)
(* setGrphTXEQ10 at 254, two samples early.                                *)
graphiceq(half, b, early) == filter_OvSv(half, b, EqChunk, early)

(* blms_adapt: the filter has taps in its first half only (the update of   *)
(* the other half is zeroed), so that a sample takes the one chunk of      *)
(* samples up to itself, whether it is the estimate or the error.          *)
blms_adapt(half, b) ==
  [i \in Index |->
     LET start == (i \div LmsChunk) * LmsChunk
     IN  UNION {At(half, b, LmsChunk, y) : y \in i - LmsChunk + 1 .. i}]

(* lmsr_adapt_n, the noise filter: the estimate; lmsr_adapt_i, the notch   *)
(* filter: the error.                                                      *)
Estimate(line, b, i) == UNION {Peek(line, b, LmsDelay + j, i) : j \in 0 .. LmsTaps - 1}

lmsr_adapt_n(line, b) == [i \in Index |-> Estimate(line, b, i)]
lmsr_adapt_i(line, b) == [i \in Index |-> b[i] \cup Estimate(line, b, i)]

-----------------------------------------------------------------------------
(* DttSPAgc on the first have samples: the sample lag slots behind the     *)
(* newest leaves, weighed by a gain that has seen the newest.  With mode 0 *)
(* (lag 0 here) nothing is delayed and the ring stands still.              *)

AgcSlots == 2 * N
NewAgc   == NewLine(AgcSlots)

DttSPAgc(line, b, lag, have) ==
  [i \in Index |-> IF lag = 0 \/ i >= have THEN b[i] ELSE Peek(line, b, lag, i)]

AgcAfter(line, b, lag, have) == IF lag = 0 THEN line ELSE Pushed(line, b, have)
=============================================================================
