------------------------------ MODULE Receiver ------------------------------
(***************************************************************************)
(* The chains of sdr.c: process_samples takes every active receiver, or    *)
(* the transmitter, through its stages, one block at a time, and taps them *)
(* for the spectrum display.  The squelches are those of module Squelch,   *)
(* the stages those of module Blocks.                                      *)
(*                                                                         *)
(* Commands come between blocks.  A receiver that is off, or that stands   *)
(* still while the radio transmits, keeps what its stages remember.        *)
(***************************************************************************)
EXTENDS Blocks, Squelch

CONSTANTS
  Receptions,     \* settings a receiver can be given
  Transmissions,  \* settings the transmitter can be given
  Displays,       \* types the spectrum display can be given
  FreshRx,        \* those of setup_rx
  FreshTx,        \* those of setup_tx
  SpecFlag,       \* uni->spec.flag
  Size,           \* uni->spec.size
  Poly,           \* 8, the blocks of the polyphase display
  Unslewed,       \* 48, what squelch.num is short of a block
  MaxEvents       \* bound: commands and pulses in a behaviour

Types == {"SEMI_RAW", "PRE_FILT", "POST_FILT", "POST_AGC", "POST_DET"}

(* agc is sndx less indx, or 0 for AGC mode 0; early is how many samples   *)
(* early the coefficients of the equaliser are.                            *)
RxSettings ==
  [mode : {"SSB", "AM", "FM", "DRM", "SPEC"}, nb : BOOLEAN, agc : 0 .. AgcSlots - 1,
   anr : BOOLEAN, banr : BOOLEAN, anf : BOOLEAN, banf : BOOLEAN,
   bin : BOOLEAN, eq : BOOLEAN, early : 1 .. 2]
TxSettings ==
  [mode : {"SSB", "DIG", "AM", "FM", "NIL"}, eq : BOOLEAN, early : 1 .. 2,
   leveler : 1 .. AgcSlots - 1]

ASSUME ReceiverAssumption ==
  /\ Receptions \subseteq RxSettings /\ FreshRx \in RxSettings
  /\ Transmissions \subseteq TxSettings /\ FreshTx \in TxSettings
  /\ FreshRx.early = 1 /\ FreshTx.early = 1
  /\ Displays \subseteq Types
  /\ SpecFlag \in BOOLEAN /\ {Size, Poly} \subseteq Nat \ {0} /\ Size % N = 0
  /\ Unslewed \in Index /\ MaxEvents \in Nat

VARIABLES
  tune,     \* settings of each receiver
  memory,   \* what the stages of each channel remember
  voice,    \* settings of the transmitter
  tick,     \* rx[k]->tick and tx->tick: 0, or 1 for more
  heard,    \* buf.o of each channel
  spec,     \* uni->spec: rxk, type, polyphase
  accum, fill,  \* uni->spec.accum and fill
  since,    \* samples each channel has worked on without a break or a change
  shown,    \* samples in accum since the display was changed or stood still
  source,   \* the channel they are from
  nev       \* events so far

chainVars == <<tune, memory, voice, tick, heard, spec, accum, fill,
               since, shown, source, nev>>

(* setup_rx and setup_tx.                                                  *)
NewRxMemory ==
  [nb |-> NewBlanker, filt |-> NewHalf(N), agc |-> NewAgc,
   anr |-> NewLine(LmsSlots), anf |-> NewLine(LmsSlots),
   banr |-> NewHalf(LmsChunk), banf |-> NewHalf(LmsChunk), eq |-> NewHalf(EqChunk)]
NewTxMemory ==
  [eq |-> NewHalf(EqChunk), leveler |-> NewAgc, filt |-> NewHalf(N)]
NewMemory == [c \in Channels |-> IF c = Tx THEN NewTxMemory ELSE NewRxMemory]

(* init_spectrum and setup_all.                                            *)
NewSpec == [rxk |-> 0, type |-> "POST_FILT", polyphase |-> FALSE]

ChainInit ==
  /\ Init
  /\ tune = [k \in Rx |-> FreshRx] /\ voice = FreshTx
  /\ memory = NewMemory
  /\ tick = [c \in Channels |-> 0]
  /\ heard = [c \in Channels |-> Silent]
  /\ spec = NewSpec
  /\ accum = [s \in 0 .. Poly * Size - 1 |-> Silence] /\ fill = 0
  /\ since = [c \in Channels |-> 0] /\ shown = 0 /\ source = 0
  /\ nev = 0

-----------------------------------------------------------------------------
(* Commands.                                                               *)

Event == nev < MaxEvents /\ nev' = nev + 1

(* Any number of settings of receiver k, between two blocks.  setRXAGC and *)
(* setRXAGCAttack start the ring of the AGC over at slot 0.  No command    *)
(* puts the coefficients of new_EQ back.                                   *)
SetReceiver(k, s) ==
  /\ Event /\ s.early >= tune[k].early
  /\ tune' = [tune EXCEPT ![k] = s]
  /\ memory' = IF s.agc # tune[k].agc THEN [memory EXCEPT ![k].agc.at = 0] ELSE memory
  /\ since' = [since EXCEPT ![k] = 0]
  /\ UNCHANGED <<vars, voice, tick, heard, spec, accum, fill, shown, source>>

(* The same of the transmitter; setTXLevelerAttack goes on from where the  *)
(* ring is.                                                                *)
SetTransmitter(t) ==
  /\ Event
  /\ voice' = t
  /\ since' = [since EXCEPT ![Tx] = 0]
  /\ UNCHANGED <<vars, tune, memory, tick, heard, spec, accum, fill, shown, source>>

(* setSpectrumType.                                                        *)
SetSpectrumType(k, y) ==
  /\ Event
  /\ spec' = [spec EXCEPT !.rxk = k, !.type = y]
  /\ shown' = 0
  /\ UNCHANGED <<vars, tune, memory, voice, tick, heard, accum, fill, since, source>>

Mask(polyphase) == IF polyphase THEN Poly * Size ELSE Size

(* Mutant: the display is changed without a new start.                     *)
MutSetSpectrumPolyphase(b) ==
  /\ Event
  /\ spec' = [spec EXCEPT !.polyphase = b]
  /\ shown' = shown
  /\ UNCHANGED <<vars, tune, memory, voice, tick, heard, accum, fill, since, source>>

(* setSpectrumPolyphase and reinit_spectrum, which clears only half of     *)
(* what it means to: sizeof(REAL) where the samples are COMPLEX.           *)
SetSpectrumPolyphase(b) ==
  /\ Event
  /\ b # spec.polyphase
  /\ spec' = [spec EXCEPT !.polyphase = b]
  /\ fill' = 0
  /\ accum' = [s \in DOMAIN accum |-> IF 2 * s < Mask(b) THEN Silence ELSE accum[s]]
  /\ shown' = 0
  /\ UNCHANGED <<vars, tune, memory, voice, tick, heard, since, source>>

(* The commands of module Squelch, which work on nothing else.             *)
Switch ==
  /\ Event
  /\ \/ \E c \in Channels, b \in BOOLEAN : SetSquelchSt(c, b)
     \/ \E k \in Rx : SetRX(k)
     \/ \E m \in {"RX", "TX"} : SetTRX(m)
  /\ UNCHANGED <<tune, memory, voice, tick, heard, spec, accum, fill,
                 since, shown, source>>

(* setNewBuflen: destroy_workspace and setup_workspace.                    *)
NewWorkspace ==
  /\ Event
  /\ SetNewBuflen
  /\ tune' = [k \in Rx |-> FreshRx] /\ voice' = FreshTx
  /\ memory' = NewMemory
  /\ tick' = [c \in Channels |-> 0]
  /\ heard' = [c \in Channels |-> Silent]
  /\ spec' = NewSpec
  /\ accum' = [s \in 0 .. Poly * Size - 1 |-> Silence] /\ fill' = 0
  /\ since' = [c \in Channels |-> 0] /\ shown' = 0
  /\ UNCHANGED source

-----------------------------------------------------------------------------
(* One block of one receiver.                                              *)

(* do_rx_SBCW and do_rx_AM: which of the adaptive filters runs.            *)
BlockNoise(s)  == s.mode = "SSB" /\ s.anr /\ s.banr
SampleNoise(s) == s.mode = "SSB" /\ s.anr /\ ~s.banr /\ ~s.bin
BlockNotch(s)  == s.mode \in {"SSB", "AM"} /\ s.anf /\ s.banf
SampleNotch(s) ==
  s.anf /\ ~s.banf /\ (s.mode = "AM" \/ (s.mode = "SSB" /\ ~s.bin))

Denoised(s, m, b) ==
  IF BlockNoise(s) THEN blms_adapt(m.banr, b)
  ELSE IF SampleNoise(s) THEN lmsr_adapt_n(m.anr, b) ELSE b

Notched(s, m, b) ==
  IF BlockNotch(s) THEN blms_adapt(m.banf, b)
  ELSE IF SampleNotch(s) THEN lmsr_adapt_i(m.anf, b) ELSE b

(* do_rx_squelch: squelch.num samples slew, once, the rest is silence.     *)
Squelched(c, shut, b) ==
  IF ~shut THEN b
  ELSE [i \in Index |-> IF ~running[c] /\ i < N - Unslewed THEN b[i] ELSE Silence]

(* The first block of a channel is lost: buf.i lies in the buffer of the   *)
(* filter, which reset_OvSv clears when the samples are already there.     *)
Lost(c) == tick[c] = 0

(* Mutant: the filter forgets whatever came before the block.              *)
MutFilter(c, half, b) == filter_OvSv(NewHalf(N), b, N, 1)

Filter(c, half, b) == IF Lost(c) THEN Silent ELSE filter_OvSv(half, b, N, 1)
FilterAfter(c, b) == IF Lost(c) THEN NewHalf(N) ELSE Saved(b, N)

AgedLine(line) == [line EXCEPT !.mem = Aged(@)]
AgedRx(m) ==
  [nb |-> [m.nb EXCEPT !.line = AgedLine(@)], filt |-> Aged(m.filt), agc |-> AgedLine(m.agc),
   anr |-> AgedLine(m.anr), anf |-> AgedLine(m.anf),
   banr |-> Aged(m.banr), banf |-> Aged(m.banf), eq |-> Aged(m.eq)]
AgedTx(m) ==
  [eq |-> Aged(m.eq), leveler |-> AgedLine(m.leveler), filt |-> Aged(m.filt)]

(* do_rx_pre: the signal before the filter, after it and after the AGC.    *)
DoRxPre(k, m, pulse) ==
  LET s     == tune[k]
      clean == IF s.nb THEN noiseblanker(m.nb, Input, pulse) ELSE Input
      filt  == IF s.mode = "SPEC" THEN clean ELSE Filter(k, m.filt, clean)
  IN  [clean |-> clean, filt |-> filt, level |-> DttSPAgc(m.agc, filt, s.agc, N)]

(* do_rx_post, but for gain and place in the stereo field.                 *)
DoRxPost(k, m, shut, b) ==
  LET post == Squelched(k, shut, b)
  IN  [post |-> post,
       det  |-> IF tune[k].eq THEN graphiceq(m.eq, post, tune[k].early) ELSE post]

(* do_rx: the signal at the taps of the display, and what is remembered.   *)
DoRx(k, pulse, shut) ==
  LET s     == tune[k]
      m     == AgedRx(memory[k])
      pre   == DoRxPre(k, m, pulse)
      still == Denoised(s, m, pre.level)
      post  == DoRxPost(k, m, shut, Notched(s, m, still))
  IN  [tap |-> [SEMI_RAW |-> Input, PRE_FILT |-> pre.clean, POST_FILT |-> pre.filt,
                POST_AGC |-> pre.level, POST_DET |-> post.det],
       mem |-> [nb   |-> IF s.nb THEN BlankerAfter(m.nb, Input, pulse) ELSE m.nb,
                filt |-> IF s.mode = "SPEC" THEN m.filt ELSE FilterAfter(k, pre.clean),
                agc  |-> AgcAfter(m.agc, pre.filt, s.agc, N),
                anr  |-> IF SampleNoise(s) THEN Pushed(m.anr, pre.level, N) ELSE m.anr,
                banr |-> IF BlockNoise(s) THEN Saved(pre.level, LmsChunk) ELSE m.banr,
                anf  |-> IF SampleNotch(s) THEN Pushed(m.anf, still, N) ELSE m.anf,
                banf |-> IF BlockNotch(s) THEN Saved(still, LmsChunk) ELSE m.banf,
                eq   |-> IF s.eq THEN Saved(post.post, EqChunk) ELSE m.eq]]

(* CXBhave of the leveler's own buffer: newCXB makes it 0, and do_tx_pre,  *)
(* unlike do_rx_pre, never sets it.                                        *)
LevelerHave == 0

(* do_tx_pre.  A squelched block, and a digital mode, pass by the          *)
(* equaliser and the leveler.                                              *)
DoTxPre(m, shut) ==
  LET plain == shut \/ voice.mode = "DIG"
      even  == IF voice.eq /\ ~plain THEN graphiceq(m.eq, Input, voice.early) ELSE Input
      lev   == IF plain THEN even ELSE DttSPAgc(m.leveler, even, voice.leveler, LevelerHave)
  IN  [b |-> Squelched(Tx, shut, lev),
       eq |-> IF voice.eq /\ ~plain THEN Saved(Input, EqChunk) ELSE m.eq,
       leveler |-> IF plain THEN m.leveler
                   ELSE AgcAfter(m.leveler, even, voice.leveler, LevelerHave)]

(* do_tx_SBCW and so on: of the modulators only do_tx_NIL drops samples.   *)
Modulated(b) == IF voice.mode = "NIL" THEN Silent ELSE b

(* do_tx and do_tx_post.  The display is tapped after the filter, also for *)
(* the signal before it.                                                   *)
DoTx(shut) ==
  LET m    == AgedTx(memory[Tx])
      pre  == DoTxPre(m, shut)
      mod  == Modulated(pre.b)
      filt == Filter(Tx, m.filt, mod)
      kept == IF Lost(Tx) THEN Silent ELSE mod
  IN  [tap |-> [y \in Types |-> IF y = "POST_DET" THEN kept ELSE filt],
       out |-> filt,
       mem |-> [eq |-> pre.eq, leveler |-> pre.leveler, filt |-> FilterAfter(Tx, mod)]]

-----------------------------------------------------------------------------
(* do_rx_spectrum and do_tx_spectrum: block b goes into the accumulator.   *)

Accumulate(c, b) ==
  /\ accum' = [s \in DOMAIN accum |-> IF s - fill \in Index THEN b[s - fill] ELSE Older(accum[s])]
  /\ fill' = (fill + N) % Mask(spec.polyphase)
  /\ shown' = Min({shown + N, Horizon}) /\ source' = c

StandStill ==
  /\ accum' = [s \in DOMAIN accum |-> Older(accum[s])]
  /\ shown' = 0
  /\ UNCHANGED <<fill, source>>

(* A pulse that no blanker looks for is a sample like any other.           *)
Pulse(pulse) ==
  IF pulse = NoPulse THEN UNCHANGED nev ELSE Event /\ \E k \in act : tune[k].nb

(* A block of a receiver of which nothing is taken out: by the squelch, by  *)
(* the blanker, or as the first one.                                       *)
Whole(k, pulse, shut) ==
  /\ ~shut
  /\ Lost(k) => tune[k].mode = "SPEC"
  /\ tune[k].nb => pulse = NoPulse /\ memory[k].nb.hang = 0

(* process_samples in the RX mode, and in the TX mode.                     *)
RxSamples(quiet, pulse) ==
  LET shut(k) == SquelchRx(k, quiet)
      rx == [k \in act |-> DoRx(k, pulse, shut(k))]
  IN
  /\ ReceiveBlock(quiet)
  /\ Pulse(pulse)
  /\ heard' = [c \in Channels |-> IF c \in act THEN rx[c].tap.POST_DET ELSE Aged(heard[c])]
  /\ memory' = [c \in Channels |-> IF c \in act THEN rx[c].mem
                                   ELSE IF c = Tx THEN AgedTx(memory[c]) ELSE AgedRx(memory[c])]
  /\ tick' = [c \in Channels |-> IF c \in act THEN 1 ELSE tick[c]]
  /\ since' = [c \in Channels |->
                 IF c \in act /\ Whole(c, pulse, shut(c))
                 THEN Min({since[c] + N, Horizon}) ELSE 0]
  /\ IF SpecFlag /\ spec.rxk \in act THEN Accumulate(spec.rxk, rx[spec.rxk].tap[spec.type])
                                     ELSE StandStill
  /\ UNCHANGED <<tune, voice, spec>>

TxSamples(shut) ==
  LET tx == DoTx(shut) IN
  /\ IF shut THEN SquelchTx ELSE PassTx
  /\ heard' = [c \in Channels |-> IF c = Tx THEN tx.out ELSE Aged(heard[c])]
  /\ memory' = [c \in Channels |-> IF c = Tx THEN tx.mem ELSE AgedRx(memory[c])]
  /\ tick' = [tick EXCEPT ![Tx] = 1]
  /\ since' = [c \in Channels |-> IF c = Tx /\ ~shut /\ ~Lost(Tx)
                                  THEN Min({since[c] + N, Horizon}) ELSE 0]
  /\ IF SpecFlag THEN Accumulate(Tx, tx.tap[spec.type]) ELSE StandStill
  /\ UNCHANGED <<tune, voice, spec, nev>>

process_samples ==
  \/ \E quiet \in SUBSET Rx, pulse \in Index \cup {NoPulse} : RxSamples(quiet, pulse)
  \/ \E shut \in BOOLEAN : TxSamples(shut)

ChainNext ==
  \/ \E k \in Rx, s \in Receptions : SetReceiver(k, s)
  \/ \E t \in Transmissions : SetTransmitter(t)
  \/ \E k \in Rx, y \in Displays : SetSpectrumType(k, y)
  \/ \E b \in BOOLEAN : SetSpectrumPolyphase(b)
  \/ Switch
  \/ NewWorkspace
  \/ process_samples

ChainSpec == ChainInit /\ [][ChainNext]_<<vars, chainVars>>

-----------------------------------------------------------------------------
(* What the chain is meant to compute: the ages that a sample of age a is  *)
(* made of at each of its points, stage by stage.                          *)

(* c + 1 coefficients, the first of which is early samples early.  Where   *)
(* there is no such sample, at the end of a chunk, it gets an old one,     *)
(* 2 * c earlier.                                                          *)
Fir(c, early, a) ==
  {IF (a % c) + t < 0 THEN a + t + 2 * c ELSE a + t : t \in 0 - early .. c - early}

Lms(a) == {a + LmsDelay + j : j \in 0 .. LmsTaps - 1}
Blms(a) == {a + j : j \in 0 .. LmsChunk - 1}

(* The samples that the adaptive filters take of the signal before them.   *)
NoiseTaps(s, a) ==
  IF BlockNoise(s) THEN Blms(a) ELSE IF SampleNoise(s) THEN Lms(a) ELSE {a}
NotchTaps(s, a) ==
  IF BlockNotch(s) THEN Blms(a) ELSE IF SampleNotch(s) THEN {a} \cup Lms(a) ELSE {a}

Clean(s, a) == {IF s.nb THEN a + NbDelay ELSE a}
Filtered(s, a) ==
  UNION {Clean(s, x) : x \in IF s.mode = "SPEC" THEN {a} ELSE Fir(N, 1, a)}
Level(s, a)   == Filtered(s, a + s.agc)
Still(s, a)   == UNION {Level(s, x) : x \in NoiseTaps(s, a)}
Notchless(s, a) == UNION {Still(s, x) : x \in NotchTaps(s, a)}
Detected(s, a)  ==
  UNION {Notchless(s, x) : x \in IF s.eq THEN Fir(EqChunk, s.early, a) ELSE {a}}

RxAges(s, y, a) ==
  CASE y = "SEMI_RAW"  -> {a}
    [] y = "PRE_FILT"  -> Clean(s, a)
    [] y = "POST_FILT" -> Filtered(s, a)
    [] y = "POST_AGC"  -> Level(s, a)
    [] y = "POST_DET"  -> Detected(s, a)

Even(t, a) == IF t.eq /\ t.mode # "DIG" THEN Fir(EqChunk, t.early, a) ELSE {a}
TxAges(t, y, a) == IF y = "POST_DET" THEN Even(t, a) ELSE UNION {Even(t, x) : x \in Fir(N, 1, a)}

Ages(c, y, a) == IF c = Tx THEN TxAges(voice, y, a) ELSE RxAges(tune[c], y, a)
Meant(c, y, a) == IF c = Tx /\ voice.mode = "NIL" THEN Silence ELSE Ages(c, y, a)

(* Everything that sample a of tap y is made of has come in since channel  *)
(* c was last changed, switched, blanked or lost a block.                  *)
Settled(c, y, a) == Ages(c, y, a) \subseteq 0 .. since[c] - 1

(* sdr.c, do_rx and do_tx: as soon as the stages of a channel have been    *)
(* filled since the last change, each sample it puts out is made of        *)
(* exactly the samples its filters ask for: none lost, repeated, late or   *)
(* left over from before, across every block boundary and whatever was     *)
(* switched on and off before.  A filter asks for samples a sample early,  *)
(* an equaliser that setGrphRXEQ3, setGrphRXEQ10 or setGrphTXEQ10 has set  *)
(* two; at the end of a chunk, where there are none yet, one or two        *)
(* samples of the output take what is 2 * c samples older in their place.  *)
InStep ==
  \A c \in Channels, i \in Index :
    Settled(c, IF c = Tx THEN "SEMI_RAW" ELSE "POST_DET", N - 1 - i) =>
      heard[c][i] = Meant(c, IF c = Tx THEN "SEMI_RAW" ELSE "POST_DET", N - 1 - i)

(* snap_spectrum and snap_scope: what is read from fill on.                *)
Snapshot == [t \in 0 .. Mask(spec.polyphase) - 1 |->
               accum[(fill + t) % Mask(spec.polyphase)]]

(* spectrum.c: "where most recent signal started".  As far as the display  *)
(* has been filled since it was last changed, a snapshot is the latest     *)
(* signal at its tap, in order.                                            *)
SnapshotInOrder ==
  \A t \in DOMAIN Snapshot :
    LET a == Mask(spec.polyphase) - 1 - t IN
    (a < shown /\ Settled(source, spec.type, a)) =>
      Snapshot[t] = Meant(source, spec.type, a)

(* ovsv.c: "This is the number of good samples in the left half of the     *)
(* true buffer.  Samples in right half are circular artifacts and are      *)
(* ignored."  A receiver with nothing but its filter on puts out samples   *)
(* that are made of N + 1 successive ones at most.                         *)
GoodSamples ==
  \A k \in Rx, i \in Index :
    (tune[k] = FreshRx /\ since[k] = Horizon) =>
      \A x, y \in heard[k][i] : x - y <= N
=============================================================================
