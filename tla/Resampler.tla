----------------------------- MODULE Resampler -----------------------------
(***************************************************************************)
(* The polyphase resampler of resample.c.  The input is numbered 1, 2, ..; *)
(* a sum is the set of its products, each the number of a coefficient with *)
(* that of the input sample it is multiplied with.  0 is the silence       *)
(* before the first sample, and its products are left out.                 *)
(***************************************************************************)
EXTENDS Integers, Sequences

CONSTANTS
  Taps,       \* 31: coefficients for each unit of decim
  Ratios,     \* pairs of intrp and decim in use
  Blocks,     \* lengths of input blocks
  MaxInput    \* bound: samples fed to one resampler

ASSUME ResamplerAssumption ==
  /\ Taps \in Nat \ {0} /\ Ratios \subseteq (Nat \ {0}) \X (Nat \ {0})
  /\ Blocks \subseteq Nat \ {0} /\ MaxInput \in Nat

VARIABLES
  r,      \* the resampler
  fed,    \* samples fed so far
  made,   \* samples made before the last block
  out     \* r->out: what the last block made

resamplerVars == <<r, fed, made, out>>

(* 1, doubled as often as n - 1 can be halved.                             *)
nblock2(n) ==
  LET above[m \in 0 .. n - 1] == IF m = 0 THEN 1 ELSE 2 * above[m \div 2]
  IN  above[n - 1]

newPolyPhaseFIR(intrp, decim) ==
  LET nflt == Taps * decim IN
  [intrp |-> intrp, decim |-> decim, iold |-> 0, phase |-> 0,
   nflt |-> nflt, nold |-> nblock2(nflt), old |-> [j \in 0 .. nblock2(nflt) - 1 |-> 0]]

ResamplerInit ==
  /\ \E q \in Ratios : r = newPolyPhaseFIR(q[1], q[2])
  /\ fed = 0 /\ made = 0 /\ out = << >>

(* The loop over k, with j going back through the ring.                    *)
Sum(s, phase) ==
  {<<k, s.old[(s.iold - (k - phase) \div s.intrp) % s.nold]>> :
     k \in {p \in phase .. s.nflt - 1 : (p - phase) % s.intrp = 0}}

Sounding(sum) == {p \in sum : p[2] # 0}

(* One input sample: stored, then used for as many output samples as the   *)
(* phase has room for.                                                     *)
Sample(s, x) ==
  LET t == [s EXCEPT !.old[s.iold] = x]
      n == IF t.phase >= t.intrp THEN 0 ELSE (t.intrp - t.phase + t.decim - 1) \div t.decim
  IN  [r   |-> [t EXCEPT !.iold = (@ + 1) % t.nold, !.phase = @ + n * t.decim - t.intrp],
       out |-> [i \in 1 .. n |-> Sounding(Sum(t, t.phase + (i - 1) * t.decim))]]

(* A turn of the loop over the input, and the loop, from the phase given.  *)
Fed(a, x) ==
  LET b == Sample(a.r, x) IN [r |-> b.r, out |-> a.out \o b.out]

Loop(s, in) ==
  LET after[i \in 0 .. Len(in)] ==
        IF i = 0 THEN [r |-> s, out |-> << >>] ELSE Fed(after[i - 1], in[i])
  IN  after[Len(in)]

(* Mutant: each block starts with a phase of its own.                      *)
MutPolyPhaseFIR(s, in) == Loop([s EXCEPT !.phase = 0], in)

PolyPhaseFIR(s, in) == Loop(s, in)

Resample(n) ==
  LET after == PolyPhaseFIR(r, [i \in 1 .. n |-> fed + i]) IN
  /\ fed + n <= MaxInput
  /\ r' = after.r /\ out' = after.out
  /\ fed' = fed + n /\ made' = made + Len(out)

ResamplerNext == \E n \in Blocks : Resample(n)

ResamplerSpec == ResamplerInit /\ [][ResamplerNext]_resamplerVars

-----------------------------------------------------------------------------
(* The n-th output sample (from 0) of a filter that runs at intrp times    *)
(* the rate over the input with intrp - 1 zeros after each sample, of      *)
(* which every decim-th is kept.                                           *)
Reference(n) ==
  LET now == (n * r.decim) \div r.intrp + 1    \* the input sample it falls to
      ph  == (n * r.decim) % r.intrp
  IN  {<<k, now - (k - ph) \div r.intrp>> :
         k \in {p \in ph .. r.nflt - 1 : (p - ph) % r.intrp = 0 /\ (p - ph) \div r.intrp < now}}

(* However the input is cut into blocks, the output is that of zero        *)
(* stuffing, filtering and throwing away, sample by sample, and all of it  *)
(* that the input so far allows: the phase and the ring, which is no       *)
(* longer than a power of two needs to be, carry over from block to block. *)
Resampled ==
  /\ \A i \in 1 .. Len(out) : out[i] = Reference(made + i - 1)
  /\ fed > 0 => ((made + Len(out)) * r.decim) \div r.intrp >= fed
=============================================================================
