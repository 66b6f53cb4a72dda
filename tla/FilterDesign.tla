---------------------------- MODULE FilterDesign ----------------------------
(***************************************************************************)
(* The designs of filter.c and the windows of window.c.  A coefficient is  *)
(* written down rather than computed: one + times * (a named value).  A    *)
(* design is the vector as it was allocated and the coefficients that were *)
(* put in it, by index; Null is the 0 that a constructor refuses with.     *)
(***************************************************************************)
EXTENDS Integers, Sequences

CONSTANTS
  Sizes,   \* lengths asked for
  Edges,   \* frequencies asked for, in Hz
  Rate     \* the sampling rate

ASSUME DesignAssumption ==
  Sizes \subseteq Int /\ Edges \subseteq Int /\ Rate \in Nat \ {0}

Null == [size |-> 0, type |-> "none", tap |-> << >>]

Largest(S) == CHOOSE x \in S : \A y \in S : y <= x

-----------------------------------------------------------------------------
(* makewindow.  Most windows are computed up to the middle and mirrored,   *)
(* each value with its mirror image before the next: of an even number of  *)
(* values the two in the middle are the last one computed.                 *)
Mirrored == {"HANNING", "WELCH", "PARZEN", "BARTLETT", "HAMMING", "BLACKMAN2", "BLACKMAN3",
             "BLACKMAN4", "EXPONENTIAL", "RIEMANN"}

(* These two take cosines of (i + 1/2) / (size - 1) turns, here in units of *)
(* half of one over size - 1: the same forwards and backwards.             *)
Harris == {"BLACKMANHARRIS", "NUTTALL"}

Turned(i, size) ==
  LET whole == 2 * (size - 1)
      a == (2 * i + 1) % whole
  IN  IF 2 * a > whole THEN whole - a ELSE a

makewindow(type, size) ==
  LET midn == size \div 2
      all  == 0 .. size - 1
  IN  CASE type = "RECTANGULAR" -> [i \in all |-> <<type, 0>>]
        [] type \in Mirrored ->
             [p \in UNION {{i, size - 1 - i} : i \in 0 .. midn} |->
                <<type, Largest({i \in 0 .. midn : p \in {i, size - 1 - i}})>>]
        [] type \in Harris -> [i \in all |-> <<type, IF size = 1 THEN i ELSE Turned(i, size)>>]
        [] OTHER -> << >>

-----------------------------------------------------------------------------
(* Coefficients.                                                           *)
Value(t, of) == [one |-> 0, times |-> t, of |-> of]
None         == Value(0, << >>)
Negated(c)   == [c EXCEPT !.one = -@, !.times = -@]

(* Mutant: the middle is turned round like the others.                     *)
MutOneLess(c) == Negated(c)

OneLess(c) == [Negated(c) EXCEPT !.one = @ + 1]

(* Only odd lengths are made.                                              *)
Odd(size)      == IF size % 2 = 0 THEN size + 1 ELSE size
Midpoint(size) == LET h == size \div 2 IN IF h % 2 = 0 THEN h + 1 ELSE h   \* counted from 1

(* sin(2 pi k fc) / (pi k) in the window, and 2 fc in the middle: the i-th  *)
(* of n.                                                                   *)
Sinc(i, n) ==
  IF i # Midpoint(n) THEN <<"sinc", i - Midpoint(n), makewindow("BLACKMANHARRIS", n)[i - 1]>>
  ELSE <<"centre">>

newFIR_REAL(size)    == [size |-> size, type |-> "undef", zero |-> None]
newFIR_COMPLEX(size) == [size |-> size, type |-> "undef", zero |-> [re |-> None, im |-> None]]

(* The loop over i that all the designs share.                             *)
Filled(fir, type, taps) ==
  [size |-> fir.size, type |-> type,
   tap  |-> [j \in {i - 1 : i \in 1 .. fir.size} |-> taps[j + 1]]]

(* The second loop of the high pass and band stop designs.                 *)
Flipped(c) == IF "re" \in DOMAIN c THEN [re |-> Negated(c.re), im |-> Negated(c.im)] ELSE Negated(c)
Delta(c)   == IF "re" \in DOMAIN c THEN [re |-> OneLess(c.re), im |-> Negated(c.im)] ELSE OneLess(c)
Inverted(h) ==
  [h EXCEPT !.tap = [j \in DOMAIN h.tap |->
     IF j + 1 # Midpoint(h.size) THEN Flipped(h.tap[j]) ELSE Delta(h.tap[j])]]

BadCutoff(f, sr, size)     == f < 0 \/ 2 * f > sr \/ size < 1
BadBandREAL(lo, hi, sr, size) == lo < 0 \/ 2 * hi > sr \/ hi <= lo \/ size < 1

(* The imaginary parts stay zero.                                          *)
LowTaps(n)   == [i \in 1 .. n |-> Value(1, Sinc(i, n))]
LowTapsCx(n) == [i \in 1 .. n |-> [re |-> LowTaps(n)[i], im |-> None]]

newFIR_Lowpass_REAL(f, sr, size) ==
  IF BadCutoff(f, sr, size) THEN Null
  ELSE Filled(newFIR_REAL(Odd(size)), "Lowpass", LowTaps(Odd(size)))

newFIR_Lowpass_COMPLEX(f, sr, size) ==
  IF BadCutoff(f, sr, size) THEN Null
  ELSE Filled(newFIR_COMPLEX(Odd(size)), "Lowpass", LowTapsCx(Odd(size)))

newFIR_Highpass_REAL(f, sr, size) ==
  IF BadCutoff(f, sr, size) THEN Null
  ELSE Inverted(Filled(newFIR_REAL(Odd(size)), "Highpass", LowTaps(Odd(size))))

newFIR_Highpass_COMPLEX(f, sr, size) ==
  IF BadCutoff(f, sr, size) THEN Null
  ELSE Inverted(Filled(newFIR_COMPLEX(Odd(size)), "Highpass", LowTapsCx(Odd(size))))

(* Twice a low pass of half the width, moved up by the middle of the band. *)
(* sin(0) is zero, so is the middle of a Hilbert transformer.              *)
Moved(turn, n) ==
  [i \in 1 .. n |-> IF turn = "sin" /\ i = Midpoint(n) THEN None
                    ELSE Value(2, Append(Sinc(i, n), turn))]
MovedCx(n) == [i \in 1 .. n |-> [re |-> Moved("cos", n)[i], im |-> Moved("sin", n)[i]]]

newFIR_Bandpass_REAL(lo, hi, sr, size) ==
  IF BadBandREAL(lo, hi, sr, size) THEN Null
  ELSE Filled(newFIR_REAL(Odd(size)), "Bandpass", Moved("cos", Odd(size)))

(* A complex band may lie on both sides of zero.                           *)
newFIR_Bandpass_COMPLEX(lo, hi, sr, size) ==
  IF 2 * lo < -sr \/ 2 * hi > sr \/ hi <= lo \/ size < 1 THEN Null
  ELSE Filled(newFIR_COMPLEX(Odd(size)), "Bandpass", MovedCx(Odd(size)))

newFIR_Hilbert_REAL(lo, hi, sr, size) ==
  IF BadBandREAL(lo, hi, sr, size) THEN Null
  ELSE Filled(newFIR_REAL(Odd(size)), "Hilbert", Moved("sin", Odd(size)))

(* The coefficients are multiplied into a vector of zeros.                 *)
newFIR_Hilbert_COMPLEX(lo, hi, sr, size) ==
  IF BadBandREAL(lo, hi, sr, size) THEN Null
  ELSE LET p == newFIR_COMPLEX(Odd(size))
       IN  Filled(p, "Hilbert", [i \in 1 .. p.size |-> p.zero])

newFIR_Bandstop_REAL(lo, hi, sr, size) ==
  IF BadBandREAL(lo, hi, sr, size) THEN Null
  ELSE Inverted(Filled(newFIR_REAL(Odd(size)), "Bandstop", Moved("cos", Odd(size))))

newFIR_Bandstop_COMPLEX(lo, hi, sr, size) ==
  IF BadBandREAL(lo, hi, sr, size) THEN Null
  ELSE Inverted(Filled(newFIR_COMPLEX(Odd(size)), "Bandstop", MovedCx(Odd(size))))

-----------------------------------------------------------------------------
VARIABLES
  fir,    \* the last design
  asked   \* what was asked for

designVars == <<fir, asked>>

OneEdge == {"Lowpass", "Highpass"}
Kinds   == OneEdge \cup {"Bandpass", "Hilbert", "Bandstop"}

Designed(q) ==
  LET real == q.form = "REAL" IN
  CASE q.kind = "Lowpass"  -> IF real THEN newFIR_Lowpass_REAL(q.lo, Rate, q.size)
                              ELSE newFIR_Lowpass_COMPLEX(q.lo, Rate, q.size)
    [] q.kind = "Highpass" -> IF real THEN newFIR_Highpass_REAL(q.lo, Rate, q.size)
                              ELSE newFIR_Highpass_COMPLEX(q.lo, Rate, q.size)
    [] q.kind = "Bandpass" -> IF real THEN newFIR_Bandpass_REAL(q.lo, q.hi, Rate, q.size)
                              ELSE newFIR_Bandpass_COMPLEX(q.lo, q.hi, Rate, q.size)
    [] q.kind = "Hilbert"  -> IF real THEN newFIR_Hilbert_REAL(q.lo, q.hi, Rate, q.size)
                              ELSE newFIR_Hilbert_COMPLEX(q.lo, q.hi, Rate, q.size)
    [] q.kind = "Bandstop" -> IF real THEN newFIR_Bandstop_REAL(q.lo, q.hi, Rate, q.size)
                              ELSE newFIR_Bandstop_COMPLEX(q.lo, q.hi, Rate, q.size)

DesignInit == fir = Null /\ asked = [kind |-> "none"]

Design(kind, form, lo, hi, size) ==
  /\ asked' = [kind |-> kind, form |-> form, lo |-> lo, hi |-> hi, size |-> size]
  /\ fir' = Designed(asked')

Window(type, size) ==
  /\ asked' = [kind |-> "window", form |-> type, size |-> size]
  /\ fir' = [size |-> size, type |-> type, tap |-> makewindow(type, size)]

Windows == Mirrored \cup Harris \cup {"RECTANGULAR", "another"}

DesignNext ==
  /\ asked.kind = "none"
  /\ \/ \E kind \in Kinds, form \in {"REAL", "COMPLEX"}, lo, hi \in Edges, size \in Sizes :
          Design(kind, form, lo, hi, size)
     \/ \E type \in Windows, size \in Sizes \cap (Nat \ {0}) : Window(type, size)

-----------------------------------------------------------------------------
(* The parts of a coefficient.                                             *)
Parts(c) == IF "re" \in DOMAIN c THEN <<c.re, c.im>> ELSE <<c>>

(* a and b add up to n, whatever the named value is.                       *)
AddUpTo(a, b, n) ==
  a.one + b.one = n /\ a.times + b.times = 0 /\ (a.times # 0 => a.of = b.of)

(* A filter or window that is made fills its vector, all of it and nothing *)
(* beside it; a mirrored window reads the same from both ends.  What a     *)
(* high pass or band stop lets through is what the low or band pass with   *)
(* the same edges keeps back: together they are an impulse in the middle.  *)
(* The two forms of a low, high or band pass agree where a real one can be *)
(* made.                                                                   *)
AsDesigned ==
  /\ (asked.kind = "window" /\ fir.tap # << >>) =>
       /\ DOMAIN fir.tap = 0 .. fir.size - 1
       /\ fir.type \in Mirrored =>
            \A i \in DOMAIN fir.tap : fir.tap[i] = fir.tap[fir.size - 1 - i]
  /\ (asked.kind \in Kinds /\ fir # Null) =>
    LET Instead(f)   == Designed([asked EXCEPT !.form = f])
        Opposite(kd) == Designed([asked EXCEPT !.kind = kd]).tap
        Impulse(h)   == \A j \in DOMAIN fir.tap : \A x \in DOMAIN Parts(fir.tap[j]) :
                          AddUpTo(Parts(fir.tap[j])[x], Parts(h[j])[x],
                                  IF x = 1 /\ j + 1 = Midpoint(fir.size) THEN 1 ELSE 0)
    IN  /\ DOMAIN fir.tap = 0 .. fir.size - 1 /\ fir.size \in {asked.size, asked.size + 1}
        /\ asked.kind = "Highpass" => Impulse(Opposite("Lowpass"))
        /\ asked.kind = "Bandstop" => Impulse(Opposite("Bandpass"))
        /\ (asked.kind \in {"Lowpass", "Highpass", "Bandpass"} /\ Instead("REAL") # Null) =>
             \A j \in DOMAIN fir.tap : Parts(Instead("REAL").tap[j])[1] = Parts(fir.tap[j])[1]
=============================================================================
