------------------------------ MODULE Settings ------------------------------
(***************************************************************************)
(* The command handlers of update.c that set a part of the radio, and the  *)
(* questions that tell how it is set.  A handler is an operator from the   *)
(* radio, the receiver rl it is addressed to (RL: the listening receiver,  *)
(* or the one a redirect names, module Commands) and the arguments a, to   *)
(* the new radio and the number returned.  Handlers that store their       *)
(* arguments and return are rows of tables: set maps a command to the      *)
(* fields it stores its arguments in, ask a question to the fields that    *)
(* its answer prints.                                                      *)
(*                                                                         *)
(* Numbers stay numbers; what a handler computes from one is a pair of     *)
(* the computation's name and the number.  A vector (coefficients, their   *)
(* transform, an equaliser curve, a window) is described by the record of  *)
(* what it was made from.                                                  *)
(***************************************************************************)
EXTENDS Integers, Sequences, SequencesExt

CONSTANTS
  NRx,          \* uni->multirx.nrx
  Arguments,    \* Arguments[c]: the lists of arguments that c is given
  Nyquist,      \* 0.5 * uni->rate.sample
  Measure,      \* wisdom was imported: plans are measured, not estimated
  Apart,        \* the 10 Hz that the edges of a band are kept apart
  DefaultMode,  \* SDR_DEFMODE or option -m
  Sessions,     \* sets of commands that one behaviour draws from
  MaxCommands   \* bound on the commands of a behaviour

ASSUME SettingsAssumption ==
  /\ NRx \in Nat \ {0} /\ Nyquist \in Nat \ {0} /\ Measure \in BOOLEAN
  /\ Apart \in Nat /\ MaxCommands \in Nat

Rx == 0 .. NRx - 1

RX  == 0   TX == 1            \* TRXMODE
USB == 1   AM == 6   SAM == 10 \* SDRMODE, the ones the handlers tell apart
AMdet == 0 SAMdet == 1

(* Function f over g (TLC's @@, of which the provers know nothing).        *)
f ++ g == [x \in DOMAIN f \cup DOMAIN g |-> IF x \in DOMAIN f THEN f[x] ELSE g[x]]

(* Tables that have no row in common.                                      *)
Joined(tables) ==
  [c \in UNION {DOMAIN t : t \in tables} |-> (CHOOSE t \in tables : c \in DOMAIN t)[c]]

-----------------------------------------------------------------------------
(* Rows: the handlers that store what they are given.                      *)

RxBlock == [
  set |-> [setBlkNR  |-> <<"banr_flag">>, setBlkNRval  |-> <<"banr_rate">>,
           setBlkANF |-> <<"banf_flag">>, setBlkANFval |-> <<"banf_rate">>],
  ask |-> [getBlkNR  |-> <<"banr_flag", "banr_rate">>]]

RxNoise == [
  set |-> [setNB     |-> <<"nb_flag">>,    setNBvals    |-> <<"nb_thresh">>,
           setSDROM  |-> <<"sdrom_flag">>, setSDROMvals |-> <<"sdrom_thresh">>,
           setBIN    |-> <<"bin_flag">>],
  ask |-> [getNB     |-> <<"nb_flag", "nb_thresh">>,
           getSDROM  |-> <<"sdrom_flag", "sdrom_thresh">>,
           getBIN    |-> <<"bin_flag">>]]

RxAgc == [
  set |-> [setRXAGCDecay         |-> <<"agc_decay">>,
           setRXAGCHang          |-> <<"agc_hangtime">>,
           setRXAGCSlope         |-> <<"agc_slope">>,
           setRXAGCHangThreshold |-> <<"agc_hangthresh">>,
           setRXAGCLimit         |-> <<"agc_top">>,
           setRXAGCTop           |-> <<"agc_top">>,
           setRXAGCFix           |-> <<"agc_fix">>]]

RxAgcTop == [
  set |-> [setRXAGCCompression |-> <<"agc_top">>],
  ask |-> [getRXAGC |-> <<"agc_flag", "agc_bottom", "agc_fix", "agc_limit",
                          "agc_top", "agc_attack", "agc_decay",
                          "agc_hangthresh", "agc_hangtime", "agc_slope">>]]

TxLeveler == [
  set |-> [setTXLevelerAttack |-> <<"leveler_attack">>,
           setTXLevelerSt     |-> <<"leveler_flag">>,
           setTXLevelerDecay  |-> <<"leveler_decay">>,
           setTXLevelerTop    |-> <<"leveler_top">>,
           setTXLevelerHang   |-> <<"leveler_hangtime">>],
  ask |-> [getTXLeveler |-> <<"leveler_flag", "leveler_top", "leveler_attack",
                              "leveler_decay", "leveler_hangtime">>]]

TxSpeech == [
  set |-> [setTXAGCFF                 |-> <<"spr_flag">>,
           setTXAGCFFCompression      |-> <<"spr_gain">>,
           setTXSpeechCompression     |-> <<"spr_flag">>,
           setTXSpeechCompressionGain |-> <<"spr_gain">>],
  ask |-> [getTXSpeechCompression |-> <<"spr_flag", "spr_k", "spr_gain">>]]

TxCarrier == [set |-> [setTXCarrierLevel |-> <<"carrier">>],
              ask |-> [getTXCarrierLevel |-> <<"carrier">>]]

RxAdaptive == [
  set |-> [setANF |-> <<"anf_flag">>,
           setANFvals |-> <<"anf_taps", "anf_delay", "anf_rate", "anf_leak">>,
           setNR  |-> <<"anr_flag">>,
           setNRvals |-> <<"anr_taps", "anr_delay", "anr_rate", "anr_leak">>],
  ask |-> [getANF |-> <<"anf_flag", "anf_taps", "anf_delay", "anf_rate", "anf_leak">>,
           getANR |-> <<"anr_flag", "anr_taps", "anr_delay", "anr_rate", "anr_leak">>]]

(* Gains are stored as 1.0 + 0.001 * gain and told as (1 - gain) * 1000.   *)
CorrectIQ == [
  rx  |-> [setcorrectIQ      |-> <<"iq_phase", "iq_gain">>,
           setcorrectIQphase |-> <<"iq_phase">>, setcorrectIQgain |-> <<"iq_gain">>],
  tx  |-> [setcorrectTXIQ    |-> <<"iq_phase", "iq_gain">>,
           setcorrectTXIQphase |-> <<"iq_phase">>, setcorrectTXIQgain |-> <<"iq_gain">>],
  ask |-> [getRXIQ |-> <<"iq_phase", "iq_gain">>, getTXIQ |-> <<"iq_phase", "iq_gain">>]]

RxSquelch == [set |-> [setSquelch |-> <<"squelch_thresh">>,
                       setSquelchSt |-> <<"squelch_flag">>],
              ask |-> [getRXSquelch |-> <<"squelch_flag", "squelch_thresh">>]]

TxSquelch == [set |-> [setTXSquelch |-> <<"squelch_thresh">>,
                       setTXSquelchSt |-> <<"squelch_flag">>],
              ask |-> [getTXSquelch |-> <<"squelch_flag", "squelch_thresh">>]]

TxShape == [set |-> [setTXWaveShapeSt |-> <<"wvs_flag">>],
            ask |-> [getTXWaveShape |-> <<"wvs_flag">>]]

RxSpot == [
  set |-> [setSpotToneVals |-> <<"spot_gain", "spot_freq", "spot_rise", "spot_fall">>],
  ask |-> [getSpotTone |-> <<"spot_flag", "spot_gain", "spot_freq", "spot_rise", "spot_fall">>]]

Meter == [set |-> [setTXMeterMode |-> <<"meter_tx">>],
          ask |-> [getTXMeterMode |-> <<"meter_tx">>]]

(* What a handler computes before it stores; the others store what they get. *)
Computed == [
  setOsc |-> "radians", setRXAGCAttack |-> "1-exp", setRXAGCCompression |-> "db2lin", setRXAGCDecay |-> "1-exp",
  setRXAGCSlope |-> "db2lin/10", setRXAGCHang |-> "ms", setRXAGCHangThreshold |-> "%",
  setTXLevelerAttack |-> "1-exp", setTXLevelerDecay |-> "1-exp", setTXLevelerHang |-> "ms",
  setTXAGCFFCompression |-> "cubic", setTXSpeechCompressionGain |-> "db2lin",
  setTestTone |-> "db2lin", setTestTwoTone |-> "db2lin", setTestNoise |-> "db2lin"]

AsIs(v)   == <<"as is", v>>
Fresh     == <<"fresh", 0>>
Stored(c, v) == IF c \in DOMAIN Computed THEN <<Computed[c], v>> ELSE AsIs(v)

RxSet == Joined({RxBlock.set, RxNoise.set, RxAgc.set, RxAgcTop.set, RxAdaptive.set, CorrectIQ.rx,
                 RxSquelch.set, RxSpot.set})
TxSet == Joined({TxLeveler.set, TxSpeech.set, TxCarrier.set, CorrectIQ.tx, TxSquelch.set,
                 TxShape.set})
RxAsk == Joined({RxBlock.ask, RxNoise.ask, RxAgcTop.ask, RxAdaptive.ask, RxSquelch.ask,
                 RxSpot.ask})
TxAsk == Joined({TxLeveler.ask, TxSpeech.ask, TxCarrier.ask, TxSquelch.ask, TxShape.ask})

-----------------------------------------------------------------------------
(* The handlers that decide something.  Each returns the radio and a code. *)

Done(r)       == [radio |-> r, code |-> 0]
Refuse(r, e)  == [radio |-> r, code |-> e]
WithRx(r, k, c) == [r EXCEPT !.rx[k] = c ++ @]
WithTx(r, c)    == [r EXCEPT !.tx = c ++ @]
WithUni(r, c)   == [r EXCEPT !.uni = c ++ @]

Band(lo, hi) == <<"band", lo, hi>>
Filter == INSTANCE FilterDesign
  WITH Sizes <- {}, Edges <- {}, Rate <- 2 * Nyquist, fir <- << >>, asked <- << >>

(* The handlers do not look whether they got a filter.                     *)
NewBand(lo, hi) ==
  IF Filter!newFIR_Bandpass_COMPLEX(lo, hi, 2 * Nyquist, 1) = Filter!Null THEN <<"null">>
  ELSE Band(lo, hi)

(* A transform of coefficients, and the copy kept of it.                   *)
Transform(coef, norm) == [of |-> coef, normalised |-> norm]
Install(coef, norm) ==
  [coef |-> coef, zfvec |-> Transform(coef, norm), save |-> Transform(coef, norm)]

BadBand(lo, hi) ==
  IF lo >= Nyquist \/ lo <= -Nyquist THEN -1
  ELSE IF hi >= Nyquist \/ hi <= -Nyquist THEN -2
  ELSE IF lo + Apart >= hi THEN -3 ELSE 0

(* Mutant: the edges are stored before they are checked.                   *)
MutSetRXFilter(r, rl, a) ==
  LET bad == BadBand(a[1], a[2])
      s == WithRx(r, rl, [lo |-> AsIs(a[1]), hi |-> AsIs(a[2])]) IN
  IF bad # 0 THEN Refuse(s, bad)
  ELSE Done(WithRx(s, rl, Install(NewBand(a[1], a[2]), TRUE)))

SetRXFilter(r, rl, a) ==
  LET bad == BadBand(a[1], a[2]) IN
  IF bad # 0 THEN Refuse(r, bad)
  ELSE Done(WithRx(r, rl, [lo |-> AsIs(a[1]), hi |-> AsIs(a[2])] ++ Install(NewBand(a[1], a[2]), TRUE)))

SetRXFiltCoefs(r, rl, a) == Done(WithRx(r, rl, Install(<<"taps", a>>, TRUE)))

SetTXFilter(r, a) ==
  LET bad == BadBand(a[1], a[2]) IN
  IF bad # 0 THEN Refuse(r, bad)
  ELSE Done(WithTx(r, [lo |-> AsIs(a[1]), hi |-> AsIs(a[2])] ++ Install(NewBand(a[1], a[2]), TRUE)))

(* Normalises the receiver's transform, which already is, not this one.    *)
SetTXFiltCoefs(r, rl, a) ==
  Done(WithRx(WithTx(r, Install(<<"taps", a>>, FALSE)),
              rl, [zfvec |-> Transform(r.rx[rl].zfvec.of, TRUE)]))

SetFilter(r, rl, a) ==
  IF Len(a) = 2 \/ a[3] = RX THEN SetRXFilter(r, rl, a)
  ELSE IF a[3] = TX THEN SetTXFilter(r, a) ELSE Refuse(r, -1)

(* A value for the transmitter, for the receiver, or, when the command does *)
(* not say which, for both.                                                *)
Addressed(r, rl, a, c) ==
  IF Len(a) > 1 THEN IF a[2] = TX THEN WithTx(r, c) ELSE WithRx(r, rl, c)
  ELSE WithTx(WithRx(r, rl, c), c)

SetMode(r, rl, a) ==
  LET s == Addressed(r, rl, a, [mode |-> AsIs(a[1])])
      t == IF Len(a) > 1 THEN s ELSE WithUni(s, [mode_sdr |-> AsIs(a[1])])
  IN  Done(WithRx(t, rl, CASE t.rx[rl].mode = AsIs(AM)  -> [det |-> AMdet]
                           [] t.rx[rl].mode = AsIs(SAM) -> [det |-> SAMdet]
                           [] OTHER               -> << >>))

SetOsc(r, rl, a) ==
  IF a[1] >= Nyquist \/ a[1] <= -Nyquist THEN Refuse(r, -1)
  ELSE Done(Addressed(r, rl, a, [osc |-> Stored("setOsc", a[1])]))

SetfixedAGC(r, rl, a) == Done(Addressed(r, rl, a, [now |-> a[1]]))

(* agcOFF 0, LONG 1, SLOW 2, MED 3, FAST 4; another number leaves all but   *)
(* the attack as it is.                                                    *)
SetRXAGC(r, rl, a) ==
  LET preset == <<"preset", a[1]>> IN
  Done(WithRx(r, rl,
    [agc_attack |-> <<"preset", 0>>] ++
    (IF a[1] \in 0 .. 4 THEN [agc_flag |-> AsIs(1)] ELSE << >>) ++
    (IF a[1] \in 1 .. 4 THEN [agc_decay |-> preset, agc_hangtime |-> preset] ELSE << >>)))

SetRXAGCAttack(r, rl, a) == Done(WithRx(r, rl, [agc_attack |-> Stored("setRXAGCAttack", a[1])]))

(* The planner of the transform may write over what it is to transform,    *)
(* which these two handlers have filled in before they ask for the plan:   *)
(* unless it only estimates, the curve is whatever the planner left.       *)
SetGrphEQ(a, size, at, spoilt) ==
  LET parm == <<size, SubSeq(a, 1, size + 1)>> IN   \* preamplifier, then a gain a band
  [eq_parm |-> parm, eq_curve |-> IF spoilt THEN << >> ELSE <<parm, at>>]

SetGrphRXEQ(r, rl, a, size, spoilt) ==
  IF Len(a) < size + 1 THEN Refuse(r, -1)
  ELSE Done(WithRx(r, rl, SetGrphEQ(a, size, 254, spoilt)))

SetGrphTXEQ(r, a, size, spoilt) ==
  IF Len(a) < size + 1 THEN Refuse(r, -1)
  ELSE Done(WithTx(r, SetGrphEQ(a, size, IF size = 3 THEN 255 ELSE 254, spoilt)))

(* An answer about the quadrature correction turns the sign of the gain.   *)
ToldIQ(v) == <<v[1], -v[2]>>

SetTXWaveShapeFunc(r, a) ==
  Done(WithTx(r, [wvs_tbl |-> IF Len(a) < 2 THEN << >> ELSE SubSeq(a, 2, Len(a))]))

SetSpotTone(r, rl, a) ==
  Done(WithRx(r, rl, IF a[1] # 0 THEN [spot_flag |-> AsIs(1), spot_on |-> TRUE]
                     ELSE [spot_on |-> FALSE]))

SetRXPan(r, rl, a) ==
  IF Len(a) < 1 THEN Done(WithRx(r, rl, [azim |-> <<"centre", 0>>]))
  ELSE IF a[1] < 0 \/ a[1] > 1 THEN Refuse(r, -1)
  ELSE Done(WithRx(r, rl, [azim |-> <<"angle", a[1]>>]))

SetGain(r, rl, a) ==
  LET gain == IF Len(a) < 3 THEN AsIs(1) ELSE <<"db2lin", a[3]>>
      c == IF a[2] = 0 THEN [gain_i |-> gain] ELSE [gain_o |-> gain]
  IN  IF Len(a) < 2 \/ a[2] \notin {0, 1} \/ a[1] \notin {RX, TX} THEN Refuse(r, -1)
      ELSE Done(IF a[1] = RX THEN WithRx(r, rl, c) ELSE WithTx(r, c))

(* Mutant: a receiver is the default, as in the other commands.            *)
MutSetCompandSt(r, rl, a) ==
  LET c == [cpd_flag |-> IF Len(a) < 1 THEN AsIs(0) ELSE AsIs(a[1])]
  IN  Done(IF Len(a) > 1 /\ a[2] = TX THEN WithTx(r, c) ELSE WithRx(r, rl, c))

(* Here the transmitter is the default, and no argument at all is "off".   *)
SetCompandSt(r, rl, a) ==
  LET c == [cpd_flag |-> IF Len(a) < 1 THEN AsIs(0) ELSE AsIs(a[1])]
  IN  Done(IF Len(a) > 1 /\ a[2] = RX THEN WithRx(r, rl, c) ELSE WithTx(r, c))

SetCompand(r, rl, a) ==
  IF Len(a) < 1 THEN Refuse(r, -1)
  ELSE Done(IF Len(a) > 1 /\ a[2] = RX THEN WithRx(r, rl, [cpd_fac |-> AsIs(a[1])])
            ELSE WithTx(r, [cpd_fac |-> AsIs(a[1])]))

Flag(a) == IF Len(a) < 1 THEN AsIs(0) ELSE AsIs(a[1])
SetGrphEQcmd(r, rl, a, trx) ==
  Done(IF trx = TX THEN WithTx(r, [eq_flag |-> Flag(a)]) ELSE WithRx(r, rl, [eq_flag |-> Flag(a)]))

SetTXCompandSt(r, a) == Done(WithTx(r, [cpd_flag |-> Flag(a)]))

SetTXCompand(r, a) ==
  IF Len(a) < 1 THEN Refuse(r, -1) ELSE Done(WithTx(r, [cpd_fac |-> AsIs(a[1])]))

SetDCBlockSt(r, a) == Done(WithTx(r, [dcb_flag |-> Flag(a)]))

(* Clears what the blocker remembers of the signal, which is no setting.   *)
SetDCBlock(r, a) == Done(r)

SetSpectrumPolyphase(r, a) ==
  LET on == a[1] # 0 IN
  IF r.uni.polyphase = on THEN Done(r)
  ELSE Done(WithUni(r, [polyphase |-> on,
                        mask   |-> IF on THEN "8*size-1" ELSE "size-1",
                        window |-> IF on THEN <<"WOLA", 0>> ELSE r.uni.wintype]))

(* Mutant: the polyphase window is not spared.                             *)
MutSetSpectrumWindow(r, a) ==
  Done(WithUni(r, [wintype |-> AsIs(a[1]), window |-> AsIs(a[1])]))

SetSpectrumWindow(r, a) ==
  Done(WithUni(r, [wintype |-> AsIs(a[1])] ++
                  (IF r.uni.polyphase THEN << >> ELSE [window |-> AsIs(a[1])])))

(* The defaults are stored before the arguments are counted.               *)
SetSpectrumType(r, rl, a) ==
  LET s == WithUni(r, [type  |-> IF Len(a) \in 1 .. 3 THEN a[1] ELSE 2,
                       scale |-> IF Len(a) \in 2 .. 3 THEN a[2] ELSE 1,
                       rxk   |-> IF Len(a) = 3 THEN a[3] ELSE rl])
  IN  IF Len(a) > 3 THEN Refuse(s, -1) ELSE Done(s)

(* Test signals: each handler wants its number of arguments.  A frequency  *)
(* goes to the oscillator (osc), not to the field that getTEST prints.     *)
Test(r, a, n, c) == IF Len(a) = n THEN Done(WithUni(r, c)) ELSE Refuse(r, -1)

SetTEST(r, a) ==
  IF Len(a) = 1 /\ a[1] \in 0 .. 3 THEN Done(WithUni(r, [test_mode |-> AsIs(a[1])]))
  ELSE Refuse(r, -1)

SetTestTone(r, a) ==
  Test(r, a, 2, [tone_osc |-> AsIs(a[1]), tone_amp |-> Stored("setTestTone", a[2])])

SetTestTwoTone(r, a) ==
  Test(r, a, 4, [a_osc |-> AsIs(a[1]), a_amp |-> Stored("setTestTwoTone", a[2]),
                 b_osc |-> AsIs(a[3]), b_amp |-> Stored("setTestTwoTone", a[4])])

SetTestNoise(r, a) == Test(r, a, 1, [noise_amp |-> Stored("setTestNoise", a[1])])
SetTestThru(r, a)  == Test(r, a, 1, [test_thru |-> AsIs(a[1])])

(* Notch at 160 Hz: compiled out.                                          *)
SetNotch160(r, a) == Done(r)

-----------------------------------------------------------------------------
(* The table of commands.                                                  *)

Store(fields, c, a) ==
  [f \in Range(fields) |-> Stored(c, a[CHOOSE i \in DOMAIN fields : fields[i] = f])]

RunOwn(r, rl, c, a, spoilt) ==
  CASE c = "setFilter"        -> SetFilter(r, rl, a)
    [] c = "setRXFiltCoefs"   -> SetRXFiltCoefs(r, rl, a)
    [] c = "setTXFiltCoefs"   -> SetTXFiltCoefs(r, rl, a)
    [] c = "setMode"          -> SetMode(r, rl, a)
    [] c = "setOsc"           -> SetOsc(r, rl, a)
    [] c = "setfixedAGC"      -> SetfixedAGC(r, rl, a)
    [] c = "setRXAGC"         -> SetRXAGC(r, rl, a)
    [] c = "setRXAGCAttack"   -> SetRXAGCAttack(r, rl, a)
    [] c = "setGrphRXEQ3"     -> SetGrphRXEQ(r, rl, a, 3, spoilt)
    [] c = "setGrphRXEQ10"    -> SetGrphRXEQ(r, rl, a, 10, spoilt)
    [] c = "setGrphTXEQ3"     -> SetGrphTXEQ(r, a, 3, spoilt)
    [] c = "setGrphTXEQ10"    -> SetGrphTXEQ(r, a, 10, spoilt)
    [] c = "setGrphRXEQcmd"   -> SetGrphEQcmd(r, rl, a, RX)
    [] c = "setGrphTXEQcmd"   -> SetGrphEQcmd(r, rl, a, TX)
    [] c = "setTXWaveShapeFunc" -> SetTXWaveShapeFunc(r, a)
    [] c = "setSpotTone"      -> SetSpotTone(r, rl, a)
    [] c = "setRXPan"         -> SetRXPan(r, rl, a)
    [] c = "setGain"          -> SetGain(r, rl, a)
    [] c = "setCompandSt"     -> SetCompandSt(r, rl, a)
    [] c = "setCompand"       -> SetCompand(r, rl, a)
    [] c = "setTXCompandSt"   -> SetTXCompandSt(r, a)
    [] c = "setTXCompand"     -> SetTXCompand(r, a)
    [] c = "setDCBlockSt"     -> SetDCBlockSt(r, a)
    [] c = "setDCBlock"       -> SetDCBlock(r, a)
    [] c = "setSpectrumPolyphase" -> SetSpectrumPolyphase(r, a)
    [] c = "setSpectrumWindow" -> SetSpectrumWindow(r, a)
    [] c = "setSpectrumType"  -> SetSpectrumType(r, rl, a)
    [] c = "setTEST"          -> SetTEST(r, a)
    [] c = "setTestTone"      -> SetTestTone(r, a)
    [] c = "setTestTwoTone"   -> SetTestTwoTone(r, a)
    [] c = "setTestNoise"     -> SetTestNoise(r, a)
    [] c = "setTestThru"      -> SetTestThru(r, a)
    [] c = "setNotch160"      -> SetNotch160(r, a)

Run(r, rl, c, a, spoilt) ==
  IF c \in DOMAIN RxSet THEN Done(WithRx(r, rl, Store(RxSet[c], c, a)))
  ELSE IF c \in DOMAIN TxSet THEN Done(WithTx(r, Store(TxSet[c], c, a)))
  ELSE IF c \in DOMAIN Meter.set THEN Done(WithUni(r, Store(Meter.set[c], c, a)))
  ELSE RunOwn(r, rl, c, a, spoilt)

(* The commands of the table.                                              *)
Handlers ==
  DOMAIN RxSet \cup DOMAIN TxSet \cup DOMAIN Meter.set
  \cup {"setFilter", "setRXFiltCoefs", "setTXFiltCoefs", "setMode", "setOsc", "setfixedAGC",
        "setRXAGC", "setRXAGCAttack", "setGrphRXEQ3", "setGrphRXEQ10", "setGrphTXEQ3",
        "setGrphTXEQ10", "setGrphRXEQcmd", "setGrphTXEQcmd", "setTXWaveShapeFunc",
        "setSpotTone", "setRXPan", "setGain", "setCompandSt", "setCompand",
        "setTXCompandSt", "setTXCompand", "setDCBlockSt", "setDCBlock",
        "setSpectrumPolyphase", "setSpectrumWindow", "setSpectrumType", "setTEST",
        "setTestTone", "setTestTwoTone", "setTestNoise", "setTestThru", "setNotch160"}

(* Lines are commands of the table, their arguments numbers, as many as    *)
(* the handler reads without counting them.                                *)
ASSUME LinesAssumption ==
  /\ Sessions \subseteq SUBSET Handlers
  /\ \A c \in UNION Sessions : \A a \in Arguments[c] :
       /\ a \in Seq(Int)
       /\ c \in DOMAIN RxSet => Len(RxSet[c]) <= Len(a)
       /\ c \in DOMAIN TxSet => Len(TxSet[c]) <= Len(a)
       /\ c \in DOMAIN Meter.set \cup
               {"setMode", "setOsc", "setfixedAGC", "setRXAGC", "setRXAGCAttack", "setSpotTone",
                "setSpectrumPolyphase", "setSpectrumWindow"} => 1 <= Len(a)
       /\ c = "setFilter" => 2 <= Len(a)

(* The questions that are not in the rows above: the fields they print.    *)
RxFilterAsk == [getRXFilter |-> <<"lo", "hi">>]
TxFilterAsk == [getTXFilter |-> <<"lo", "hi">>]
ModeAsk     == [rx |-> [getRXMode |-> <<"mode">>], tx |-> [getTXMode |-> <<"mode">>]]
OscAsk      == [rx |-> [getRXOsc |-> <<"osc">>], tx |-> [getTXOsc |-> <<"osc">>]]
PanAsk      == [getRXPan |-> <<"azim">>]     \* the point on the circle, two numbers
GainAsk     == [rx |-> [getRXGain |-> <<"gain_i", "gain_o">>],
                tx |-> [getTXGain |-> <<"gain_i", "gain_o">>]]
CompandAsk  == [rx |-> [getRXCompand |-> <<"cpd_flag", "cpd_fac">>],
                tx |-> [getTXCompand |-> <<"cpd_flag", "cpd_fac">>]]
DCBlockAsk  == [getDCBlock |-> <<"dcb_flag">>]
SpectrumAsk == [getSpectrumInfo |-> <<"polyphase", "wintype", "type", "scale", "rxk">>]
TestAsk     == [getTEST |-> <<"tone_amp", "tone_freq", "a_amp", "a_freq", "b_amp", "b_freq",
                              "noise_amp", "test_mode", "test_thru">>]

(* An equaliser of another size than 3 is told as one of ten bands; both   *)
(* start with the preamplifier, which the parameters hold first.           *)
TellEQ(ch) ==
  LET parm  == ch.eq_parm
      bands == IF parm = << >> \/ parm[1] # 3 THEN 10 ELSE 3
  IN  <<ch.eq_flag, IF parm = << >> THEN Fresh ELSE AsIs(parm[1])>>
      \o [i \in 1 .. bands + 1 |-> IF parm = << >> THEN Fresh ELSE AsIs(parm[2][i])]
GrphRXEQAsk == {"getGrphRXEQ"}
GrphTXEQAsk == {"getGrphTXEQ"}

(* The table of questions; the first row is a slip of it.                  *)
Questions ==
  Joined({[getBlkANF |-> RxBlock.ask.getBlkNR], CorrectIQ.ask, RxAsk, TxAsk, RxFilterAsk,
          TxFilterAsk, ModeAsk.rx, ModeAsk.tx, OscAsk.rx, OscAsk.tx, PanAsk, GainAsk.rx,
          GainAsk.tx, CompandAsk.rx, CompandAsk.tx, DCBlockAsk})
OfTx  == DOMAIN TxAsk \cup DOMAIN TxFilterAsk \cup DOMAIN ModeAsk.tx \cup DOMAIN OscAsk.tx
         \cup DOMAIN GainAsk.tx \cup DOMAIN CompandAsk.tx \cup DOMAIN DCBlockAsk
         \cup GrphTXEQAsk \cup {"getTXIQ"}
OfUni == Joined({SpectrumAsk, TestAsk, Meter.ask})

Tell(r, rl, q) ==
  LET from == IF q \in OfTx THEN r.tx ELSE r.rx[rl] IN
  CASE q \in GrphRXEQAsk \cup GrphTXEQAsk -> TellEQ(from)
    [] q \in DOMAIN OfUni -> [i \in DOMAIN OfUni[q] |-> r.uni[OfUni[q][i]]]
    [] OTHER -> [i \in DOMAIN Questions[q] |->
                  IF Questions[q][i] = "iq_gain" THEN ToldIQ(from.iq_gain)
                  ELSE from[Questions[q][i]]]

-----------------------------------------------------------------------------
VARIABLES
  radio,    \* the receivers, the transmitter and what they share
  code,     \* what the last handler returned
  history,  \* the lines run so far, with their receiver and code
  session   \* the commands that this behaviour draws from

settingsVars == <<radio, code, history, session>>

(* setup_rx: told and installed bands differ until a filter is set (lo and *)
(* hi are zero), and the detector is a rectifier whatever the mode.        *)
FreshRx ==
  Install(Band(-4800, 4800), TRUE)
  ++ [lo |-> Fresh, hi |-> Fresh, mode |-> AsIs(DefaultMode), osc |-> Stored("setOsc", -11025),
      eq_parm |-> << >>, eq_curve |-> << >>, eq_flag |-> AsIs(0), spot_on |-> FALSE,
      det |-> AMdet, now |-> 1]
  ++ [f \in UNION {Range(Questions[q]) : q \in DOMAIN Questions \ OfTx} |-> Fresh]

FreshTx ==
  Install(Band(300, 3000), TRUE)
  ++ [lo |-> Fresh, hi |-> Fresh, mode |-> AsIs(DefaultMode),
      eq_parm |-> << >>, eq_curve |-> << >>, eq_flag |-> AsIs(0), wvs_tbl |-> << >>, now |-> 1]
  ++ [f \in UNION {Range(Questions[q]) : q \in OfTx \cap DOMAIN Questions} |-> Fresh]

(* setup_all and init_spectrum: wintype is not set with the first window.  *)
FreshUni ==
  [polyphase |-> FALSE, mask |-> "size-1", window |-> <<"BLACKMANHARRIS", 0>>, wintype |-> Fresh,
   type |-> 2, scale |-> 1, rxk |-> 0, mode_sdr |-> AsIs(DefaultMode)]
  ++ [f \in Range(TestAsk.getTEST) \cup {"meter_tx"} |-> Fresh]

SettingsInit ==
  /\ radio = [rx |-> [k \in Rx |-> FreshRx], tx |-> FreshTx, uni |-> FreshUni]
  /\ code = 0 /\ history = << >> /\ session \in Sessions

(* One line of update: do_update looks it up and runs its handler.         *)
Line(rl, c, a, spoilt) ==
  LET s == Run(radio, rl, c, a, spoilt) IN
  /\ Len(history) < MaxCommands
  /\ spoilt => Measure
  /\ radio' = s.radio
  /\ code' = s.code
  /\ history' = Append(history, [rl |-> rl, cmd |-> c, args |-> a, code |-> s.code])
  /\ UNCHANGED session

SettingsNext == \E rl \in Rx, c \in session, spoilt \in BOOLEAN :
          \E a \in Arguments[c] : Line(rl, c, a, spoilt)

SettingsSpec == SettingsInit /\ [][SettingsNext]_settingsVars

-----------------------------------------------------------------------------
(* What a question is about, stated by the commands of the same names:     *)
(* for each number of the answer, the commands (and which of their         *)
(* arguments) that are documented to set it.  Left out are four answers    *)
(* that the code gets wrong: getBlkANF, the gain of getRXIQ and getTXIQ,   *)
(* the limit of getRXAGC and the frequencies of getTEST.                   *)
About == [
  getBlkNR |-> <<{<<"setBlkNR", 1>>}, {<<"setBlkNRval", 1>>}>>,
  getNB    |-> <<{<<"setNB", 1>>}, {<<"setNBvals", 1>>}>>,
  getSDROM |-> <<{<<"setSDROM", 1>>}, {<<"setSDROMvals", 1>>}>>,
  getANF   |-> <<{<<"setANF", 1>>}, {<<"setANFvals", 1>>}, {<<"setANFvals", 2>>},
                 {<<"setANFvals", 3>>}, {<<"setANFvals", 4>>}>>,
  getANR   |-> <<{<<"setNR", 1>>}, {<<"setNRvals", 1>>}, {<<"setNRvals", 2>>},
                 {<<"setNRvals", 3>>}, {<<"setNRvals", 4>>}>>,
  getRXIQ  |-> <<{<<"setcorrectIQ", 1>>, <<"setcorrectIQphase", 1>>}>>,
  getTXIQ  |-> <<{<<"setcorrectTXIQ", 1>>, <<"setcorrectTXIQphase", 1>>}>>,
  getRXAGC |-> <<{}, {}, {<<"setRXAGCFix", 1>>}, {},
                 {<<"setRXAGCTop", 1>>, <<"setRXAGCCompression", 1>>, <<"setRXAGCLimit", 1>>},
                 {}, {}, {<<"setRXAGCHangThreshold", 1>>}, {}, {<<"setRXAGCSlope", 1>>}>>,
  getTXLeveler |-> <<{<<"setTXLevelerSt", 1>>}, {<<"setTXLevelerTop", 1>>},
                     {<<"setTXLevelerAttack", 1>>}, {<<"setTXLevelerDecay", 1>>},
                     {<<"setTXLevelerHang", 1>>}>>,
  getTXSpeechCompression |->
    <<{<<"setTXSpeechCompression", 1>>, <<"setTXAGCFF", 1>>}, {},
      {<<"setTXSpeechCompressionGain", 1>>, <<"setTXAGCFFCompression", 1>>}>>,
  getRXSquelch |-> <<{<<"setSquelchSt", 1>>}, {<<"setSquelch", 1>>}>>,
  getTXSquelch |-> <<{<<"setTXSquelchSt", 1>>}, {<<"setTXSquelch", 1>>}>>,
  getRXMode |-> <<{<<"setMode", 1>>}>>, getTXMode |-> <<{<<"setMode", 1>>}>>,
  getRXOsc  |-> <<{<<"setOsc", 1>>}>>,  getTXOsc  |-> <<{<<"setOsc", 1>>}>>,
  getRXFilter |-> <<{<<"setFilter", 1>>}, {<<"setFilter", 2>>}>>,
  getTXFilter |-> <<{<<"setFilter", 1>>}, {<<"setFilter", 2>>}>>,
  getRXCompand |-> <<{<<"setCompandSt", 1>>}, {<<"setCompand", 1>>}>>,
  getTXCompand |-> <<{<<"setCompandSt", 1>>, <<"setTXCompandSt", 1>>},
                     {<<"setCompand", 1>>, <<"setTXCompand", 1>>}>>,
  getDCBlock   |-> <<{<<"setDCBlockSt", 1>>}>>,
  getGrphRXEQ  |-> <<{<<"setGrphRXEQcmd", 1>>}, {}>>
                   \o [i \in 1 .. 4 |-> {<<"setGrphRXEQ3", i>>, <<"setGrphRXEQ10", i>>}],
  getGrphTXEQ  |-> <<{<<"setGrphTXEQcmd", 1>>}, {}>>
                   \o [i \in 1 .. 4 |-> {<<"setGrphTXEQ3", i>>, <<"setGrphTXEQ10", i>>}],
  getTXCarrierLevel |-> <<{<<"setTXCarrierLevel", 1>>}>>,
  getTXMeterMode    |-> <<{<<"setTXMeterMode", 1>>}>>,
  getSpectrumInfo   |-> <<{}, {<<"setSpectrumWindow", 1>>}, {}, {}, {}>>,
  getTEST |-> <<{<<"setTestTone", 2>>}, {}, {<<"setTestTwoTone", 2>>}, {},
                {<<"setTestTwoTone", 4>>}, {}, {<<"setTestNoise", 1>>}, {<<"setTEST", 1>>},
                {<<"setTestThru", 1>>}>>]

(* Which side a line speaks to, as the comments of setFilter, setMode and  *)
(* setOsc have it: <command> <values> [TRX].  A filter or the compander is *)
(* for its default side unless the other one is named; a mode or the       *)
(* oscillator is for both when none is.                                    *)
Names(e, i, trx) == i <= Len(e.args) /\ e.args[i] = trx
SpeaksTo(e, q, rl) ==
  IF q \in DOMAIN OfUni THEN TRUE
  ELSE IF q \in OfTx
  THEN CASE e.cmd \in {"setMode", "setOsc"} -> Names(e, 2, TX) \/ Len(e.args) < 2
         [] e.cmd = "setFilter"             -> Names(e, 3, TX)
         [] e.cmd \in {"setCompandSt", "setCompand"} -> ~Names(e, 2, RX)
         [] OTHER                           -> TRUE
  ELSE /\ e.rl = rl
       /\ CASE e.cmd \in {"setMode", "setOsc"} -> ~Names(e, 2, TX)
            [] e.cmd = "setFilter"             -> ~Names(e, 3, TX)
            [] e.cmd \in {"setCompandSt", "setCompand"} -> Names(e, 2, RX)
            [] OTHER                           -> TRUE

(* Saying nothing is saying "off".                                         *)
Said(e, i) == IF i <= Len(e.args) THEN e.args[i] ELSE 0

(* The numbers (place i of the answer to q) that a session is about.       *)
Concerned == [cs \in Sessions |->
  UNION {{<<q, i>> : i \in {j \in DOMAIN About[q] : \E s \in About[q][j] : s[1] \in cs}}
         : q \in DOMAIN About}]

(* A question about a setting is answered with the number, or with what    *)
(* the handler makes of the number, of the latest line that was accepted   *)
(* and that set it for the channel asked about, whatever other receivers,  *)
(* the transmitter and refused lines were told in between.                 *)
TellsLatest ==
  \A at \in Concerned[session], rl \in Rx :
    LET q == at[1]
        i == at[2]
        Sets(e) == e.code = 0 /\ SpeaksTo(e, q, rl)
                   /\ \E s \in About[q][i] : s[1] = e.cmd
        n == SelectLastInSeq(history, Sets)
    IN  n > 0 =>
          LET e == history[n]
              s == CHOOSE t \in About[q][i] : t[1] = e.cmd
          IN  Tell(radio, rl, q)[i] = Stored(e.cmd, Said(e, s[2]))

(* A handler that refuses its line leaves the radio as it was, however     *)
(* much of the line it has looked at.  setSpectrumType does not: it resets *)
(* type, scale and receiver before it finds that it has too many arguments. *)
RefusedChangesNothing ==
  [][(code' < 0 /\ history'[Len(history')].cmd # "setSpectrumType") => radio' = radio]_settingsVars

(* What is told of filters, equalisers and the spectrum's window is what   *)
(* is installed: no handler uses a filter it was refused; the transform in *)
(* use and the copy kept of it are those of the coefficients, and the      *)
(* receivers' are normalised; the band told is the one the coefficients    *)
(* were made for (unless they were given one by one); the equaliser's      *)
(* curve is that of its parameters; the window and the mask of the         *)
(* accumulation ring agree with the polyphase flag, and the window with    *)
(* the latest type asked for.  An equaliser set while plans are measured   *)
(* is the exception (constant Measure).                                    *)
InstalledAsTold ==
  /\ \A ch \in Range(radio.rx) \cup {radio.tx} :
       /\ ch.zfvec = ch.save /\ ch.zfvec.of = ch.coef
       /\ (ch.coef[1] # "taps" /\ ch.lo # ch.hi) => ch.coef = Band(ch.lo[2], ch.hi[2])
       /\ ch.eq_parm # << >> => ch.eq_curve # << >> /\ ch.eq_curve[1] = ch.eq_parm
  /\ \A k \in Rx : radio.rx[k].zfvec.normalised
  /\ radio.uni.mask = IF radio.uni.polyphase THEN "8*size-1" ELSE "size-1"
  /\ radio.uni.window[1] = "WOLA" <=> radio.uni.polyphase
  /\ (~radio.uni.polyphase /\ radio.uni.wintype # Fresh) =>
       radio.uni.window = radio.uni.wintype

(* A receiver in AM has the rectifier and one in SAM the synchronous       *)
(* detector, through any changes of mode of itself, of other receivers and *)
(* of the transmitter.  It does not hold from a default mode of SAM, for   *)
(* which setup_rx still makes a rectifier.                                 *)
DetectorFollowsMode ==
  \A k \in Rx : /\ radio.rx[k].mode = AsIs(AM) => radio.rx[k].det = AMdet
                /\ radio.rx[k].mode = AsIs(SAM) => radio.rx[k].det = SAMdet

=============================================================================
