----------------------------- MODULE MCSettings -----------------------------
(* Instances of Settings for TLC: what commands are given, and which of    *)
(* them meet in one behaviour.                                             *)
EXTENDS Settings

(* Every argument of a line is another number, so that two that change     *)
(* places are told apart.                                                  *)
Upto(n, from) == {[i \in 1 .. n |-> v + i] : v \in from}

MCGood    == {<<1, 6>>, <<-6, -1>>}
MCBad     == {<<4, 6>>, <<6, 1>>, <<1, 20>>, <<-20, 1>>}
MCToWhich == {<< >>, <<RX>>, <<TX>>, <<2>>}

MCArguments == [c \in UNION Sessions |->
  CASE c \in DOMAIN RxSet -> Upto(Len(RxSet[c]), {0, 10})
    [] c \in DOMAIN TxSet -> Upto(Len(TxSet[c]), {0, 10})
    [] c \in DOMAIN Meter.set -> Upto(1, {0})
    [] c = "setFilter" -> {b \o t : b \in MCGood, t \in MCToWhich}
                          \cup {b \o t : b \in MCBad, t \in {<< >>, <<TX>>}}
    [] c = "setMode"   -> {<<m>> \o t : m \in {USB, AM, SAM}, t \in MCToWhich}
    [] c = "setOsc"    -> {<<m>> \o t : m \in {5, 30}, t \in MCToWhich}
    [] c = "setfixedAGC" -> {<<5>> \o t : t \in MCToWhich}
    [] c \in {"setCompandSt", "setCompand"} ->
         {<<m>> \o t : m \in {4, 5}, t \in MCToWhich} \cup {<< >>}
    [] c \in {"setGrphRXEQ3", "setGrphTXEQ3"}   -> Upto(4, {0, 10}) \cup Upto(3, {0})
    [] c \in {"setGrphRXEQ10", "setGrphTXEQ10"} -> Upto(11, {0, 10}) \cup Upto(10, {0})
    [] c = "setGain"   -> {<< >>, <<RX>>, <<2, 0, 7>>, <<RX, 2, 7>>, <<TX, 1>>}
                          \cup {<<t, io, 7>> : t \in {RX, TX}, io \in 0 .. 1}
    [] c = "setRXPan"  -> {<< >>, <<-1>>, <<0>>, <<1>>, <<2>>}
    [] c \in {"setTXWaveShapeFunc"} -> {<< >>, <<2, 5, 6>>}
    [] c \in {"setRXFiltCoefs", "setTXFiltCoefs"} -> {<< >>, <<5, 6>>}
    [] c = "setSpectrumType" -> UNION {Upto(n, {0}) : n \in 0 .. 4}
    [] c = "setTestTone"    -> Upto(2, {0}) \cup Upto(1, {0})
    [] c = "setTestTwoTone" -> Upto(4, {0}) \cup Upto(2, {0})
    [] c = "setTEST"        -> {<<0>>, <<3>>, <<4>>, << >>}
    [] c \in {"setTXCompand", "setTestNoise", "setTestThru", "setGrphRXEQcmd", "setGrphTXEQcmd",
              "setTXCompandSt", "setDCBlockSt"} -> {<< >>, <<0>>, <<1>>}
    [] c = "setRXAGC"       -> {<<0>>, <<3>>, <<5>>}
    [] OTHER                -> {<<0>>, <<1>>, <<2>>}]

(* Commands that touch the same part of the radio share a session.         *)
MCSessions == {
  {"setFilter", "setRXFiltCoefs", "setTXFiltCoefs"},
  {"setMode", "setOsc"},
  DOMAIN RxBlock.set, DOMAIN RxNoise.set, DOMAIN RxAdaptive.set,
  {"setRXAGCLimit", "setRXAGCTop", "setRXAGCCompression", "setRXAGCFix", "setfixedAGC"},
  {"setRXAGC", "setRXAGCAttack", "setRXAGCDecay", "setRXAGCHang", "setRXAGCSlope",
   "setRXAGCHangThreshold"},
  DOMAIN TxLeveler.set \cup DOMAIN TxCarrier.set, DOMAIN TxSpeech.set,
  DOMAIN CorrectIQ.rx \cup DOMAIN CorrectIQ.tx, DOMAIN RxSquelch.set \cup DOMAIN TxSquelch.set,
  {"setGrphRXEQ3", "setGrphRXEQ10", "setGrphRXEQcmd"},
  {"setGrphTXEQ3", "setGrphTXEQ10", "setGrphTXEQcmd"},
  {"setCompandSt", "setCompand", "setTXCompandSt", "setTXCompand"},
  {"setGain", "setRXPan"}, {"setSpotTone", "setSpotToneVals"},
  {"setSpectrumPolyphase", "setSpectrumWindow", "setSpectrumType"},
  {"setTXWaveShapeSt", "setTXWaveShapeFunc", "setDCBlockSt", "setDCBlock", "setNotch160", "setTXMeterMode"},
  {"setTEST", "setTestTone", "setTestTwoTone", "setTestNoise", "setTestThru"}}
=============================================================================
