---------------------------- MODULE PiecesProofs ----------------------------
(***************************************************************************)
(* Proofs about the small parts of the radio that module MCPieces puts     *)
(* side by side: the meters, the start-up, the run states, the shaping     *)
(* tables, the resampler, the spotting tone and the ring buffers.  Apart   *)
(* from those about induction, no lemma is about more than one of them.    *)
(***************************************************************************)
EXTENDS RingBuffer, RunState, Shaping, Meters, Startup, Resampler, SpotTone,
        SequenceTheorems, WellFoundedInduction, TLAPS

-----------------------------------------------------------------------------
(* The meters.  What the snapshots hold is what the latest request asked   *)
(* for, and it stays so although blocks, mode changes and setNewBuflen go  *)
(* on underneath: the snapshots are copies, and `wanted' only grows.       *)

Points8   == TxPoints \cup {"NONE"}
RxValues  == [Receivers -> [RxPoints -> Nat]]
TxValues  == [TxPoints -> Nat]
SeenBlock == [block : Nat, mode : Points8, shut : BOOLEAN]
Request   == [trx : {"RX", "TX"}, heard : [Receivers -> Nat], seen : SeenBlock]

MeterType ==
  /\ meter \in [rx : RxValues, tx : TxValues, mode : Points8, label : Nat,
                last : {"RX", "TX"}, snap : [rx : RxValues, tx : TxValues]]
  /\ posts \in Nat /\ block \in Nat
  /\ heard \in [Receivers -> Nat] /\ seen \in SeenBlock
  /\ wanted \in Seq(Request)

(* What a request that found h and s wants of the receivers' side, and of  *)
(* the transmitter's.                                                      *)
ShowsRx(vals, h) == vals = [k \in Receivers |-> [q \in RxPoints |-> h[k]]]

ShowsTx(vals, s) ==
  s.mode \notin {"LVL_G", "NONE"} =>
    \/ vals[s.mode] = s.block
    \/ s.shut /\ s.mode \in {"EQtap", "LEVELER", "COMP"}

Shows(last_, vals, then) ==
  /\ last_ = then.trx
  /\ then.trx = "RX" => ShowsRx(vals, then.heard)
  /\ then.trx = "TX" => ShowsTx(vals, then.seen)

(* The values that are measured are those of the latest blocks.            *)
MeasuredInv == ShowsRx(meter.rx, heard) /\ ShowsTx(meter.tx, seen)

(* The snapshots are those of the latest request.                          *)
SnapInv ==
  /\ meter.label = Len(wanted)
  /\ posts > 0 => meter.label > 0
  /\ meter.label > 0 =>
       Shows(meter.last,
             IF meter.last = "RX" THEN meter.snap.rx ELSE meter.snap.tx,
             wanted[meter.label])

PacketInv ==
  \A p \in packets :
    p.label \in 1 .. Len(wanted) /\ Shows(p.last, p.vals, wanted[p.label])

MeterInv == MeterType /\ MeasuredInv /\ SnapInv /\ PacketInv

LEMMA InitMeterInv == MetersInit => MeterInv
<1> SUFFICES ASSUME MetersInit PROVE MeterInv
  OBVIOUS
<1>1. /\ NoRx \in RxValues /\ NoTx \in TxValues
      /\ heard = [k \in Receivers |-> 0]
      /\ seen = [block |-> 0, mode |-> "MIC", shut |-> FALSE]
      /\ wanted = <<>> /\ packets = {} /\ posts = 0 /\ block = 0
      /\ meter.label = 0 /\ meter.rx = NoRx /\ meter.tx = NoTx
  BY DEF MetersInit, NoRx, NoTx, RxValues, TxValues
<1>2. MeterType
  <2>1. meter = [rx |-> NoRx, tx |-> NoTx, mode |-> "MIC", label |-> 0,
                 last |-> "RX", snap |-> [rx |-> NoRx, tx |-> NoTx]]
    BY DEF MetersInit
  <2>2. QED
    BY <1>1, <2>1 DEF MeterType, SeenBlock, Points8, TxPoints
<1>3. MeasuredInv
  BY <1>1 DEF MeasuredInv, ShowsRx, ShowsTx, NoRx, NoTx, TxPoints
<1>4. Len(<<>>) = 0
  OBVIOUS
<1>5. QED
  BY <1>1, <1>2, <1>3, <1>4 DEF MeterInv, SnapInv, PacketInv

(* Blocks, commands and setNewBuflen leave the snapshots and what has been *)
(* asked alone.                                                            *)
LEMMA SnapsKept ==
  ASSUME SnapInv, PacketInv,
         UNCHANGED <<posts, wanted, packets>>,
         meter'.label = meter.label, meter'.last = meter.last,
         meter'.snap = meter.snap
  PROVE  SnapInv' /\ PacketInv'
BY DEF SnapInv, PacketInv

LEMMA MeasureRxStep ==
  ASSUME MeterInv, NEW on \in SUBSET Receivers, MeasureRx(on)
  PROVE  MeterInv'
<1> DEFINE rx == [k \in Receivers |-> [q \in RxPoints |->
                   IF k \in on /\ q \in RxMeasured THEN block + 1
                   ELSE meter.rx[k][q]]]
<1>1. /\ meter \in [rx : RxValues, tx : TxValues, mode : Points8, label : Nat,
                    last : {"RX", "TX"}, snap : [rx : RxValues, tx : TxValues]]
      /\ block \in Nat /\ heard \in [Receivers -> Nat]
  BY DEF MeterInv, MeterType
<1>2. rx \in RxValues
  BY <1>1 DEF RxValues
<1>3. /\ meter' = [meter EXCEPT !.rx = rx] /\ block' = block + 1
      /\ heard' = [k \in Receivers |-> IF k \in on THEN block + 1 ELSE heard[k]]
      /\ UNCHANGED <<posts, seen, wanted, packets>>
  BY DEF MeasureRx
<1>4. RxMeasured = RxPoints
  <2>1. DOMAIN RxTaps = {"PRE_CONV", "POST_FILT", "POST_AGC"}
    BY DEF RxTaps
  <2>2. /\ RxTaps["PRE_CONV"] = {"ADC"}
        /\ RxTaps["POST_FILT"] = {"SIGNAL_STRENGTH", "AVG_SIGNAL_STRENGTH"}
        /\ RxTaps["POST_AGC"] = {"AGC_GAIN"}
    BY DEF RxTaps
  <2>3. QED
    BY <2>1, <2>2 DEF RxMeasured, RxPoints
<1>5. ShowsRx(rx, heard')
  BY <1>1, <1>3, <1>4 DEF ShowsRx, MeterInv, MeasuredInv
<1> HIDE DEF rx
<1>6. /\ meter'.rx = rx /\ meter'.tx = meter.tx /\ meter'.label = meter.label
      /\ meter'.last = meter.last /\ meter'.snap = meter.snap
  BY <1>1, <1>3
<1>7. MeterType'
  BY <1>1, <1>2, <1>3 DEF MeterInv, MeterType
<1>8. MeasuredInv'
  BY <1>3, <1>5, <1>6 DEF MeterInv, MeasuredInv
<1>9. SnapInv' /\ PacketInv'
  BY <1>3, <1>6, SnapsKept DEF MeterInv
<1>10. QED
  BY <1>7, <1>8, <1>9 DEF MeterInv

LEMMA MeasureTxStep ==
  ASSUME MeterInv, NEW shut \in BOOLEAN, MeasureTx(shut)
  PROVE  MeterInv'
<1> DEFINE tx == [q \in TxPoints |->
                   IF q \in TxMeasured(shut) THEN block + 1 ELSE meter.tx[q]]
<1>1. /\ meter \in [rx : RxValues, tx : TxValues, mode : Points8, label : Nat,
                    last : {"RX", "TX"}, snap : [rx : RxValues, tx : TxValues]]
      /\ block \in Nat
  BY DEF MeterInv, MeterType
<1>2. tx \in TxValues
  BY <1>1 DEF TxValues
<1>3. /\ meter' = [meter EXCEPT !.tx = tx] /\ block' = block + 1
      /\ seen' = [block |-> block + 1, mode |-> meter.mode, shut |-> shut]
      /\ UNCHANGED <<posts, heard, wanted, packets>>
  BY DEF MeasureTx
(* The tap that is selected is measured, unless the squelch is closed and  *)
(* the tap is one of those behind it.                                      *)
<1>4. ShowsTx(tx, seen')
  <2>1. meter.mode \in Points8
    BY <1>1
  <2>2. SUFFICES ASSUME meter.mode \notin {"LVL_G", "NONE"},
                        ~(shut /\ meter.mode \in {"EQtap", "LEVELER", "COMP"})
                 PROVE  tx[meter.mode] = block + 1
    BY <1>3 DEF ShowsTx
  <2>3. meter.mode \in TxTaps(shut) /\ meter.mode \in TxPoints
    BY <2>1, <2>2 DEF TxTaps, Points8, TxPoints
  <2>4. meter.mode \in TxMeasured(shut)
    BY <2>3 DEF TxMeasured
  <2>5. QED
    BY <2>3, <2>4
<1> HIDE DEF tx
<1>5. /\ meter'.tx = tx /\ meter'.rx = meter.rx /\ meter'.label = meter.label
      /\ meter'.last = meter.last /\ meter'.snap = meter.snap
  BY <1>1, <1>3
<1>6. MeterType'
  <2>1. seen' \in SeenBlock
    BY <1>1, <1>3 DEF SeenBlock
  <2>2. meter' \in [rx : RxValues, tx : TxValues, mode : Points8, label : Nat,
                    last : {"RX", "TX"}, snap : [rx : RxValues, tx : TxValues]]
    BY <1>1, <1>2, <1>3
  <2>3. QED
    BY <1>1, <1>3, <2>1, <2>2 DEF MeterInv, MeterType
<1>7. MeasuredInv'
  BY <1>3, <1>4, <1>5 DEF MeterInv, MeasuredInv
<1>8. SnapInv' /\ PacketInv'
  BY <1>3, <1>5, SnapsKept DEF MeterInv
<1>9. QED
  BY <1>6, <1>7, <1>8 DEF MeterInv

LEMMA MeterModeStep ==
  ASSUME MeterInv, NEW m \in TxModes, SetTXMeterMode(m)
  PROVE  MeterInv'
<1>1. meter \in [rx : RxValues, tx : TxValues, mode : Points8, label : Nat,
                 last : {"RX", "TX"}, snap : [rx : RxValues, tx : TxValues]]
  BY DEF MeterInv, MeterType
<1>2. /\ meter' = [meter EXCEPT !.mode = m] /\ m \in Points8
      /\ UNCHANGED <<posts, block, heard, seen, wanted, packets>>
  BY MetersAssumption DEF SetTXMeterMode, Points8
<1>3. /\ meter'.tx = meter.tx /\ meter'.rx = meter.rx
      /\ meter'.label = meter.label
      /\ meter'.last = meter.last /\ meter'.snap = meter.snap
  BY <1>1, <1>2
<1>4. MeterType'
  BY <1>1, <1>2 DEF MeterInv, MeterType
<1>5. MeasuredInv'
  BY <1>2, <1>3 DEF MeterInv, MeasuredInv
<1>6. SnapInv' /\ PacketInv'
  BY <1>2, <1>3, SnapsKept DEF MeterInv
<1>7. QED
  BY <1>4, <1>5, <1>6 DEF MeterInv

LEMMA ResetMetersStep == ASSUME MeterInv, ResetMeters PROVE MeterInv'
<1>1. /\ meter \in [rx : RxValues, tx : TxValues, mode : Points8, label : Nat,
                    last : {"RX", "TX"}, snap : [rx : RxValues, tx : TxValues]]
      /\ seen \in SeenBlock
  BY DEF MeterInv, MeterType
<1>2. /\ meter' = [meter EXCEPT !.rx = NoRx, !.tx = NoTx]
      /\ heard' = [k \in Receivers |-> 0]
      /\ seen' = [seen EXCEPT !.block = 0]
      /\ UNCHANGED <<posts, block, wanted, packets>>
  BY DEF ResetMeters
<1>3. NoRx \in RxValues /\ NoTx \in TxValues
  BY DEF NoRx, NoTx, RxValues, TxValues
<1>4. /\ meter'.rx = NoRx /\ meter'.tx = NoTx /\ meter'.label = meter.label
      /\ meter'.last = meter.last /\ meter'.snap = meter.snap
  BY <1>1, <1>2
<1>5. seen' \in SeenBlock /\ seen'.block = 0 /\ seen'.mode \in Points8
  BY <1>1, <1>2 DEF SeenBlock
<1>6. MeterType'
  BY <1>1, <1>2, <1>3, <1>5 DEF MeterInv, MeterType
<1>7. MeasuredInv'
  BY <1>2, <1>4, <1>5
  DEF MeasuredInv, ShowsRx, ShowsTx, NoRx, NoTx, Points8, TxPoints
<1>8. SnapInv' /\ PacketInv'
  BY <1>2, <1>4, SnapsKept DEF MeterInv
<1>9. QED
  BY <1>6, <1>7, <1>8 DEF MeterInv

(* A request: the snapshot and the label change together.                  *)
LEMMA ReqMeterStep ==
  ASSUME MeterInv, NEW t \in {"RX", "TX"}, ReqMeter(t)
  PROVE  MeterInv'
<1> DEFINE n == Len(wanted) + 1
           q == [trx |-> t, heard |-> heard, seen |-> seen]
<1>1. /\ meter \in [rx : RxValues, tx : TxValues, mode : Points8, label : Nat,
                    last : {"RX", "TX"}, snap : [rx : RxValues, tx : TxValues]]
      /\ posts \in Nat /\ wanted \in Seq(Request)
      /\ heard \in [Receivers -> Nat] /\ seen \in SeenBlock
  BY DEF MeterInv, MeterType
<1>2. /\ meter' = IF t = "RX" THEN SnapMeterRx(meter, n) ELSE SnapMeterTx(meter, n)
      /\ posts' = posts + 1 /\ wanted' = Append(wanted, q)
      /\ UNCHANGED <<block, heard, seen, packets>>
  BY DEF ReqMeter
<1>3. q \in Request /\ n \in Nat /\ n > 0
  BY <1>1 DEF Request
<1>4. /\ wanted' \in Seq(Request) /\ Len(wanted') = n /\ wanted'[n] = q
      /\ \A k \in 1 .. Len(wanted) : wanted'[k] = wanted[k]
  BY <1>1, <1>2, <1>3, AppendProperties
<1>5. /\ meter'.rx = meter.rx /\ meter'.tx = meter.tx /\ meter'.label = n
      /\ meter'.last = t
      /\ t = "RX" => meter'.snap.rx = meter.rx
      /\ t = "TX" => meter'.snap.tx = meter.tx
  BY <1>1, <1>2 DEF SnapMeterRx, SnapMeterTx
<1>6. MeterType'
  <2>1. meter' \in [rx : RxValues, tx : TxValues, mode : Points8, label : Nat,
                    last : {"RX", "TX"}, snap : [rx : RxValues, tx : TxValues]]
    BY <1>1, <1>2, <1>3 DEF SnapMeterRx, SnapMeterTx
  <2>2. QED
    BY <1>1, <1>2, <1>4, <2>1 DEF MeterInv, MeterType
<1>7. MeasuredInv'
  BY <1>2, <1>5 DEF MeterInv, MeasuredInv
<1>8. SnapInv'
  <2>1. q.trx = t /\ q.heard = heard /\ q.seen = seen
    OBVIOUS
  <2> HIDE DEF q, n
  <2>2. CASE t = "RX"
    BY <1>3, <1>4, <1>5, <2>1, <2>2 DEF SnapInv, Shows, MeterInv, MeasuredInv
  <2>3. CASE t = "TX"
    BY <1>3, <1>4, <1>5, <2>1, <2>3 DEF SnapInv, Shows, MeterInv, MeasuredInv
  <2>4. QED
    BY <2>2, <2>3
<1>9. PacketInv'
  BY <1>1, <1>2, <1>4 DEF MeterInv, PacketInv
<1>10. QED
  BY <1>6, <1>7, <1>8, <1>9 DEF MeterInv

LEMMA MeterThreadStep == ASSUME MeterInv, MeterThread PROVE MeterInv'
<1> DEFINE p == [label |-> meter.label, last |-> meter.last,
                 vals |-> IF meter.last = "RX" THEN meter.snap.rx
                          ELSE meter.snap.tx]
<1>1. /\ posts > 0 /\ posts' = posts - 1 /\ packets' = packets \cup {p}
      /\ UNCHANGED <<meter, block, heard, seen, wanted>>
  BY DEF MeterThread
<1>2. MeterType' /\ MeasuredInv' /\ SnapInv'
  BY <1>1 DEF MeterInv, MeterType, MeasuredInv, SnapInv
<1>3. p.label \in 1 .. Len(wanted) /\ Shows(p.last, p.vals, wanted[p.label])
  BY <1>1 DEF MeterInv, MeterType, SnapInv
<1>4. PacketInv'
  BY <1>1, <1>3 DEF MeterInv, PacketInv
<1>5. QED
  BY <1>2, <1>4 DEF MeterInv

(* A packet of the meter thread shows what its label asked for, for any    *)
(* number of receivers, blocks and requests, in whatever order blocks,     *)
(* requests, mode changes, new buffer lengths and the thread fall          *)
(* (reqMeter of update.c, snap_meter_rx and snap_meter_tx of meter.c,      *)
(* meter_thread of sdr-main.c).                                            *)
THEOREM MetersHonest == MetersSpec => []PacketsHonest
<1>1. MeterInv /\ [MetersNext]_meterVars => MeterInv'
  <2> SUFFICES ASSUME MeterInv, [MetersNext]_meterVars PROVE MeterInv'
    OBVIOUS
  <2>1. CASE MetersNext
    BY <2>1, MeasureRxStep, MeasureTxStep, MeterModeStep, ResetMetersStep,
       ReqMeterStep, MeterThreadStep DEF MetersNext
  <2>2. CASE UNCHANGED meterVars
    BY <2>2
    DEF meterVars, MeterInv, MeterType, MeasuredInv, SnapInv, PacketInv
  <2>3. QED
    BY <2>1, <2>2
<1>2. MeterInv => PacketsHonest
  BY DEF MeterInv, PacketInv, Shows, ShowsRx, ShowsTx, PacketsHonest
<1>3. QED
  BY InitMeterInv, <1>1, <1>2, PTL DEF MetersSpec

-----------------------------------------------------------------------------
(* The start-up.  The values collected so far are what the operator meant  *)
(* so far, and those in use are the ones collected.                        *)

(* Where an argument stands on a line.                                     *)
Places(l, o) == {k \in 1 .. Len(l) : l[k] = o}

LEMMA LargestIs ==
  ASSUME NEW P \in SUBSET Int, NEW m \in P, \A y \in P : m >= y
  PROVE  Max(P) = m
<1>1. \A x \in P : (\A y \in P : x >= y) => x = m
  OBVIOUS
<1>2. QED
  BY <1>1 DEF Max

LEMMA LastIs ==
  ASSUME NEW l, NEW o
  PROVE  /\ Contains(l, o) <=> Places(l, o) # {}
         /\ SelectLastInSeq(l, LAMBDA x : x = o)
              = IF Places(l, o) # {} THEN Max(Places(l, o)) ELSE 0
<1>1. Contains(l, o) <=> Places(l, o) # {}
  BY DEF Contains, Places
<1>2. SelectLastInSeq(l, LAMBDA x : x = o)
        = IF Places(l, o) # {} THEN Max(Places(l, o)) ELSE 0
  BY DEF SelectLastInSeq, Places
<1>3. QED
  BY <1>1, <1>2

(* The value of the latest argument o, or what was there before.           *)
FromLine(l, o, before) ==
  IF Places(l, o) # {} THEN <<"line", Max(Places(l, o))>> ELSE before

Explained ==
  \A o \in Options :
    Meant(o) = IF o = "size" /\ resets > 0 THEN <<"setNewBuflen", resets>>
               ELSE FromLine(line, o,
                             IF o \in environ THEN Environment ELSE Default)

LEMMA MeantIs == Explained
BY LastIs DEF Meant, FromLine, Explained

LEMMA MeantNext == Explained'
BY MeantIs, PTL

LEMMA MeantKept ==
  ASSUME NEW o \in Options, UNCHANGED <<line, resets, environ>>
  PROVE  Meant(o)' = Meant(o)
BY MeantIs, MeantNext DEF Explained

(* One argument more.                                                      *)
LEMMA FromLineNext ==
  ASSUME NEW S, NEW l \in Seq(S), NEW a \in S, NEW o, NEW before
  PROVE  FromLine(Append(l, a), o, before)
           = IF a = o THEN <<"line", Len(Append(l, a))>> ELSE FromLine(l, o, before)
<1> DEFINE n == Len(l)
           k == Append(l, a)
<1>1. /\ n \in Nat /\ Len(k) = n + 1 /\ k[n + 1] = a
      /\ \A j \in 1 .. n : k[j] = l[j]
  BY AppendProperties
<1> HIDE DEF k, n
<1>2. Places(l, o) = {j \in 1 .. n : l[j] = o}
  BY DEF Places, n
<1>3. CASE a = o
  <2>1. n + 1 \in Places(k, o) /\ Places(k, o) \subseteq 1 .. n + 1
    BY <1>1, <1>3 DEF Places
  <2>2. Places(k, o) \in SUBSET Int /\ \A y \in Places(k, o) : n + 1 >= y
    BY <1>1, <2>1
  <2>3. Max(Places(k, o)) = n + 1
    BY <2>1, <2>2, LargestIs
  <2>4. FromLine(k, o, before) = <<"line", Len(k)>>
    BY <1>1, <2>1, <2>3 DEF FromLine
  <2>5. QED
    BY <1>3, <2>4 DEF k
<1>4. CASE a # o
  <2>1. Places(k, o) = Places(l, o)
    <3>1. ASSUME NEW j \in 1 .. n + 1
          PROVE  k[j] = o <=> (j \in 1 .. n /\ l[j] = o)
      <4>1. CASE j = n + 1
        BY <1>1, <1>4, <4>1
      <4>2. CASE j # n + 1
        BY <1>1, <4>2
      <4>3. QED
        BY <4>1, <4>2
    <3>2. Places(k, o) = {j \in 1 .. n + 1 : k[j] = o}
      BY <1>1 DEF Places
    <3>3. 1 .. n \subseteq 1 .. n + 1
      BY <1>1
    <3>4. QED
      BY <1>2, <3>1, <3>2, <3>3
  <2>2. QED
    BY <1>4, <2>1 DEF FromLine, k
<1>5. QED
  BY <1>3, <1>4

(* The options of a field have no flag's name.                             *)
Arguments == (Options \cap OnLine) \cup Flags \cup {"help"}

LEMMA FlagsApart ==
  ASSUME NEW a \in Arguments
  PROVE  a \in Options => a \in OnLine
BY StartupAssumption
DEF Arguments, Flags, OnLine, InEnvironment, NoSource

StartupType ==
  /\ stage \in {"defaults", "line", "running", "exited"}
  /\ loc = [o \in Options |-> loc[o]]
  /\ line \in Seq(Arguments) /\ resets \in Nat

(* What has been collected.                                                *)
CollectedInv ==
  /\ stage = "defaults" => line = <<>>
  /\ stage \in {"defaults", "line"} => resets = 0
  /\ stage \in {"line", "running"} => \A o \in Options : loc[o] = Meant(o)

(* What is in use.                                                         *)
UsedInv ==
  stage = "running" =>
    /\ loc["rate"] = jackRate
    /\ \A o \in Options :
         Wanted(o) /\ (o = "comp" => resets = 0) => used[o] = loc[o]

StartupInv == StartupType /\ CollectedInv /\ UsedInv

LEMMA InitStartupInv == StartupInit => StartupInv
BY DEF StartupInit, StartupInv, StartupType, CollectedInv, UsedInv, Unset

LEMMA DefaultsStep == ASSUME StartupInv, SetupDefaults PROVE StartupInv'
<1>1. /\ stage = "defaults" /\ stage' = "line" /\ resets = 0 /\ line = <<>>
      /\ loc' = [o \in Options |-> IF o \in environ THEN Environment ELSE Default]
      /\ UNCHANGED <<environ, jackRate, flags, line, resets, used>>
  BY DEF SetupDefaults, StartupInv, CollectedInv
<1>2. StartupType'
  BY <1>1 DEF StartupInv, StartupType, Environment, Default
<1>3. ASSUME NEW o \in Options PROVE loc'[o] = Meant(o)'
  <2>1. Places(line', o) = {}
    BY <1>1 DEF Places
  <2>2. QED
    BY <1>1, <2>1, MeantNext DEF FromLine, Explained
<1>4. CollectedInv' /\ UsedInv'
  BY <1>1, <1>3 DEF CollectedInv, UsedInv
<1>5. QED
  BY <1>2, <1>4 DEF StartupInv

LEMMA ArgumentStep ==
  ASSUME StartupInv, NEW a \in Arguments, Argument(a)
  PROVE  StartupInv'
<1>1. /\ stage = "line" /\ line' = Append(line, a)
      /\ loc' = IF a \in OnLine THEN [loc EXCEPT ![a] = <<"line", Len(line')>>]
                ELSE loc
      /\ stage' = IF a = "help" THEN "exited" ELSE stage
      /\ UNCHANGED <<environ, jackRate, resets, used>>
      /\ resets = 0 /\ line \in Seq(Arguments)
      /\ loc = [o \in Options |-> loc[o]]
  BY DEF Argument, StartupInv, StartupType, CollectedInv
<1>2. line' \in Seq(Arguments) /\ Len(line') \in Nat
  BY <1>1, AppendProperties, LenProperties
<1>3. StartupType'
  BY <1>1, <1>2 DEF StartupInv, StartupType
<1>4. ASSUME NEW o \in Options PROVE loc'[o] = Meant(o)'
  <2> DEFINE before == IF o \in environ THEN Environment ELSE Default
  <2>1. loc[o] = FromLine(line, o, before)
    BY <1>1, MeantIs DEF StartupInv, CollectedInv, Explained
  <2>2. Meant(o)' = FromLine(line', o, before)
    BY <1>1, MeantNext DEF Explained
  <2> HIDE DEF before
  <2>3. FromLine(line', o, before)
          = IF a = o THEN <<"line", Len(line')>> ELSE FromLine(line, o, before)
    BY <1>1, FromLineNext
  <2>4. CASE a = o
    <3>1. a \in OnLine
      BY <2>4, FlagsApart
    <3>2. QED
      BY <1>1, <2>2, <2>3, <2>4, <3>1
  <2>5. CASE a # o
    BY <1>1, <2>1, <2>2, <2>3, <2>5
  <2>6. QED
    BY <2>4, <2>5
<1>5. CollectedInv' /\ UsedInv'
  BY <1>1, <1>4 DEF CollectedInv, UsedInv
<1>6. QED
  BY <1>3, <1>5 DEF StartupInv

LEMMA SetupStep == ASSUME StartupInv, Setup PROVE StartupInv'
<1>1. /\ stage = "line"
      /\ stage' = IF loc["rate"] = jackRate THEN "running" ELSE "exited"
      /\ used' = [o \in Options |-> IF Wanted(o) THEN loc[o] ELSE Unset]
      /\ UNCHANGED <<environ, jackRate, loc, flags, line, resets>>
  BY DEF Setup
<1>2. StartupType'
  BY <1>1 DEF StartupInv, StartupType
<1>3. ASSUME NEW o \in Options PROVE loc'[o] = Meant(o)' /\ Wanted(o)' = Wanted(o)
  <2>1. Meant(o)' = Meant(o) /\ loc'[o] = loc[o]
    BY <1>1, MeantKept
  <2>2. QED
    BY <1>1, <2>1 DEF StartupInv, CollectedInv, Wanted
<1>4. CollectedInv' /\ UsedInv'
  BY <1>1, <1>3 DEF CollectedInv, UsedInv
<1>5. QED
  BY <1>2, <1>4 DEF StartupInv

LEMMA BuflenStep == ASSUME StartupInv, ResetForBuflen PROVE StartupInv'
<1>1. /\ stage = "running" /\ resets' = resets + 1 /\ resets \in Nat
      /\ loc' = [loc EXCEPT !["size"] = <<"setNewBuflen", resets'>>]
      /\ used' = [o \in Options |-> IF o = "comp" THEN loc'["size"]
                                    ELSE IF o \in OfWorkspace THEN loc'[o]
                                    ELSE used[o]]
      /\ UNCHANGED <<stage, environ, jackRate, flags, line>>
      /\ loc = [o \in Options |-> loc[o]]
  BY DEF ResetForBuflen, StartupInv, StartupType
<1>2. StartupType'
  <2>1. DOMAIN loc = Options
    BY ONLY <1>1
  <2>2. loc' = [o \in Options |-> IF o = "size" THEN <<"setNewBuflen", resets'>>
                                  ELSE loc[o]]
    BY ONLY <1>1, <2>1
  <2>3. loc' = [o \in Options |-> loc'[o]]
    BY ONLY <2>2
  <2>4. QED
    BY <1>1, <2>3 DEF StartupInv, StartupType
<1>3. ASSUME NEW o \in Options PROVE loc'[o] = Meant(o)'
  <2>1. CASE o = "size"
    BY <1>1, <2>1, MeantNext DEF Explained
  <2>2. CASE o # "size"
    <3>1. Meant(o)' = Meant(o)
      BY <1>1, <2>2, MeantIs, MeantNext DEF Explained
    <3>2. QED
      BY <1>1, <2>2, <3>1 DEF StartupInv, CollectedInv
  <2>3. QED
    BY <2>1, <2>2
<1>4. CollectedInv'
  BY <1>1, <1>3 DEF CollectedInv
(* The only field that changes is one of those that are read again.        *)
<1>5. ASSUME NEW o \in Options, Wanted(o), o # "comp" PROVE used'[o] = loc'[o]
  <2>1. CASE o \in OfWorkspace
    BY <1>1, <1>5, <2>1
  <2>2. CASE o \notin OfWorkspace
    <3>1. o # "size"
      BY <2>2 DEF OfWorkspace
    <3>2. QED
      BY <1>1, <1>5, <2>2, <3>1 DEF StartupInv, UsedInv
  <2>3. QED
    BY <2>1, <2>2
<1>6. UsedInv'
  <2>1. loc'["rate"] = jackRate'
    BY <1>1, StartupAssumption DEF StartupInv, UsedInv
  <2>2. \A o \in Options : Wanted(o)' = Wanted(o)
    BY <1>1 DEF Wanted
  <2>3. resets' # 0
    BY <1>1
  <2>4. QED
    BY <1>5, <2>1, <2>2, <2>3 DEF UsedInv
<1>7. QED
  BY <1>2, <1>4, <1>6 DEF StartupInv

(* A radio that runs works with what its operator meant, for any command   *)
(* line, any environment and any number of setNewBuflen (setup_defaults,   *)
(* setup_from_commandline, setup and reset_for_buflen of sdr-main.c): the  *)
(* last option counts, and no field that setup reads is missing from what  *)
(* a new buffer length reads again.                                        *)
THEOREM MeantIsUsed == StartupSpec => []InForce
<1>1. StartupInv /\ [StartupNext]_startupVars => StartupInv'
  <2> SUFFICES ASSUME StartupInv, [StartupNext]_startupVars PROVE StartupInv'
    OBVIOUS
  <2>1. CASE StartupNext
    BY <2>1, DefaultsStep, ArgumentStep, SetupStep, BuflenStep
    DEF StartupNext, Arguments
  <2>2. CASE UNCHANGED startupVars
    <3>1. \A o \in Options : Meant(o)' = Meant(o) /\ (Wanted(o)' <=> Wanted(o))
      BY <2>2, MeantKept DEF startupVars, Wanted
    <3>2. QED
      BY <2>2, <3>1
      DEF startupVars, StartupInv, StartupType, CollectedInv, UsedInv
  <2>3. QED
    BY <2>1, <2>2
<1>2. StartupInv => InForce
  <2>1. Wanted("rate") /\ "rate" # "comp" /\ "rate" \in Options
    BY StartupAssumption DEF Wanted
  <2>2. QED
    BY <2>1 DEF StartupInv, CollectedInv, UsedInv, InForce
<1>3. QED
  BY InitStartupInv, <1>1, <1>2, PTL DEF StartupSpec

-----------------------------------------------------------------------------
(* The receive/transmit switch.  While a switch is going on, the stage it  *)
(* has reached and the samples counted in it say how long ago the latest   *)
(* setSWCH was and where the envelope stands.                              *)

SwitchInv ==
  state = "SWCH" =>
    /\ type = "FALL" => /\ cnt < Most(fall, 1) /\ since = cnt
                        /\ val = FullScale(fall) - cnt
    /\ type = "STDY" => /\ cnt < Most(stdy, 1) /\ val = 0
                        /\ since = Most(fall, 1) + cnt
    /\ type = "RISE" => /\ cnt < Most(rise, 1) /\ val = cnt
                        /\ since = Most(fall, 1) + Most(stdy, 1) + cnt

(* The test signal and what is heard have no say in it.                    *)
BenchType ==
  /\ test \in [mode : TestModes \cup {"TONE"}, thru : BOOLEAN]
  /\ output \in {"as it is", "processed"} \X {"input", "test", "silence"}

SwitchType ==
  /\ state \in States /\ last \in States /\ trx \in Modes /\ next \in Modes
  /\ fall \in Nat /\ stdy \in Nat /\ rise \in Nat
  /\ type \in {"FALL", "STDY", "RISE"} /\ cnt \in Nat /\ val \in Int
  /\ i \in 0 .. Frames - 1 /\ ncmd \in 0 .. MaxCommands /\ since \in Nat

RunInv == BenchType /\ SwitchType /\ ReturnsToWork /\ SwitchInv

LEMMA InitRunInv == RunInit => RunInv
<1> SUFFICES ASSUME RunInit PROVE RunInv
  OBVIOUS
<1>1. BenchType
  BY DEF RunInit, BenchType, FirstTest
<1>2. 0 \in 0 .. Frames - 1 /\ 0 \in 0 .. MaxCommands
  BY RunStateAssumption
<1>3. SwitchType
  <2>1. /\ state = "PLAY" /\ last = "MUTE" /\ trx = "RX" /\ next = "RX"
        /\ fall = 0 /\ stdy = 0 /\ rise = 0 /\ type = "FALL" /\ cnt = 0
        /\ val = 0 /\ i = 0 /\ ncmd = 0 /\ since = 0
    BY DEF RunInit
  <2>2. state \in States /\ last \in States /\ trx \in Modes /\ next \in Modes
    BY <2>1 DEF States, Modes
  <2>3. QED
    BY <1>2, <2>1, <2>2 DEF SwitchType
<1>4. ReturnsToWork /\ SwitchInv
  BY DEF RunInit, ReturnsToWork, SwitchInv
<1>5. QED
  BY <1>1, <1>3, <1>4 DEF RunInv

LEMMA BenchKept == ASSUME BenchType, UNCHANGED bench PROVE BenchType'
BY DEF BenchType, bench

LEMMA MostIs ==
  ASSUME NEW n \in Nat
  PROVE  /\ Most(n, 1) \in Nat /\ Most(n, 1) >= 1 /\ Most(n, 1) >= n
         /\ n >= 1 => Most(n, 1) = n
         /\ FullScale(n) \in Nat /\ FullScale(n) >= Most(n, 1) - 1
BY DEF Most, FullScale

(* Any command.                                                            *)
LEMMA CommandStep ==
  ASSUME RunInv,
         \/ \E s \in RunStates : SetRunState(s)
         \/ \E m \in Modes : SetTRX(m)
         \/ SetNewBuflen
         \/ \E m \in TestModes, thru \in BOOLEAN : SetTest(m, thru)
         \/ \E m \in Modes, z \in Envelopes : SetSWCH(m, z[1], z[2], z[3])
  PROVE  RunInv'
<1>1. ncmd' \in 0 .. MaxCommands /\ i = 0
  <2>1. MayCommand
    BY DEF SetRunState, SetTRX, SetNewBuflen, SetTest, SetSWCH
  <2>2. ncmd \in 0 .. MaxCommands /\ MaxCommands \in Nat
    BY RunStateAssumption DEF RunInv, SwitchType
  <2>3. QED
    BY <2>1, <2>2 DEF MayCommand
<1>2. ASSUME NEW s \in RunStates, SetRunState(s) PROVE RunInv'
  <2>1. s \in States /\ s # "SWCH"
    BY RunStateAssumption
  <2>2. BenchType'
    BY <1>2, BenchKept DEF SetRunState, RunInv
  <2>3. QED
    BY <1>1, <1>2, <2>1, <2>2
    DEF SetRunState, RunInv, SwitchType, ReturnsToWork, SwitchInv, env, curr
<1>3. ASSUME NEW m \in Modes, SetTRX(m) PROVE RunInv'
  <2>1. BenchType'
    BY <1>3, BenchKept DEF SetTRX, RunInv
  <2>2. QED
    BY <1>1, <1>3, <2>1
    DEF SetTRX, RunInv, SwitchType, ReturnsToWork, SwitchInv, env, curr
<1>4. CASE SetNewBuflen
  <2>1. BenchType'
    BY <1>4 DEF SetNewBuflen, RunInv, BenchType, FirstTest
  <2>2. QED
    BY <1>1, <1>4, <2>1
    DEF SetNewBuflen, RunInv, SwitchType, ReturnsToWork, SwitchInv, env, curr, Modes
<1>5. ASSUME NEW m \in TestModes, NEW thru \in BOOLEAN, SetTest(m, thru)
      PROVE  RunInv'
  <2>1. BenchType'
    BY <1>5 DEF SetTest, RunInv, BenchType
  <2>2. QED
    BY <1>1, <1>5, <2>1
    DEF SetTest, RunInv, SwitchType, ReturnsToWork, SwitchInv, env, curr
<1>6. ASSUME NEW m \in Modes, NEW z \in Envelopes, SetSWCH(m, z[1], z[2], z[3])
      PROVE  RunInv'
  <2>1. z[1] \in Nat /\ z[2] \in Nat /\ z[3] \in Nat
    BY RunStateAssumption
  <2>2. FullScale(z[1]) \in Nat /\ 0 < Most(z[1], 1)
    BY <2>1, MostIs
  <2>3. FullScale(z[1]) = FullScale(z[1]) - 0
    BY <2>2
  <2>4. /\ next' = m /\ fall' = z[1] /\ stdy' = z[2] /\ rise' = z[3]
        /\ type' = "FALL" /\ cnt' = 0 /\ val' = FullScale(z[1])
        /\ last' = IF state # "SWCH" THEN state ELSE last
        /\ state' = "SWCH" /\ since' = 0 /\ UNCHANGED <<trx, i, bench>>
    BY <1>6 DEF SetSWCH
  <2>5. SwitchType' /\ ReturnsToWork'
    BY <1>1, <2>1, <2>2, <2>4 DEF RunInv, SwitchType, ReturnsToWork, States
  <2>6. SwitchInv'
    BY <2>2, <2>3, <2>4 DEF SwitchInv
  <2>7. BenchType'
    BY <2>4, BenchKept DEF RunInv
  <2>8. QED
    BY <2>5, <2>6, <2>7 DEF RunInv
<1>7. QED
  BY <1>2, <1>3, <1>4, <1>5, <1>6

LEMMA BlockStep == ASSUME RunInv, WholeBlock PROVE RunInv'
<1>1. output' \in {"as it is", "processed"} \X {"input", "test", "silence"}
  BY DEF WholeBlock, Processed, Signal, RunInv, SwitchType, States
<1>2. BenchType'
  BY <1>1 DEF WholeBlock, RunInv, BenchType
<1>3. QED
  BY <1>2
  DEF WholeBlock, RunInv, SwitchType, ReturnsToWork, SwitchInv, env, curr

LEMMA SampleStep == ASSUME RunInv, SwitchSample PROVE RunInv'
<1>1. /\ fall \in Nat /\ stdy \in Nat /\ rise \in Nat /\ cnt \in Nat
      /\ val \in Int /\ since \in Nat /\ i \in 0 .. Frames - 1
  BY DEF RunInv, SwitchType
<1>2. /\ 0 < Most(fall, 1) /\ 0 < Most(stdy, 1) /\ 0 < Most(rise, 1)
      /\ Most(fall, 1) \in Nat /\ Most(stdy, 1) \in Nat /\ Most(rise, 1) \in Nat
      /\ Most(fall, 1) >= fall /\ Most(stdy, 1) >= stdy /\ Most(rise, 1) >= rise
      /\ fall >= 1 => Most(fall, 1) = fall
      /\ stdy >= 1 => Most(stdy, 1) = stdy
      /\ rise >= 1 => Most(rise, 1) = rise
      /\ ~(fall >= 1) => Most(fall, 1) = 1
      /\ ~(stdy >= 1) => Most(stdy, 1) = 1
      /\ FullScale(fall) \in Nat
  BY <1>1, MostIs DEF Most
<1>3. (i + 1) % Frames \in 0 .. Frames - 1 /\ 0 \in 0 .. Frames - 1
  BY <1>1, RunStateAssumption
<1>4. state = "SWCH"
  BY DEF SwitchSample, Fall, Steady, Rise, EndOfSwitch
<1>5. BenchType'
  BY BenchKept DEF SwitchSample, Fall, Steady, Rise, EndOfSwitch, RunInv
<1>6. CASE Fall
  <2>1. /\ type = "FALL" /\ since' = since + 1 /\ i' \in 0 .. Frames - 1
        /\ UNCHANGED <<state, trx, next, last, fall, stdy, rise, ncmd>>
        /\ IF cnt + 1 >= fall THEN type' = "STDY" /\ cnt' = 0 /\ val' = 0
           ELSE cnt' = cnt + 1 /\ val' = val - 1 /\ UNCHANGED type
    BY <1>3, <1>6 DEF Fall, NextSample, env
  <2>2. SwitchType' /\ ReturnsToWork'
    BY <1>1, <2>1 DEF RunInv, SwitchType, ReturnsToWork, States
  <2>3. cnt < Most(fall, 1) /\ since = cnt /\ val = FullScale(fall) - cnt
    BY <1>4, <2>1 DEF RunInv, SwitchInv
  <2>4. CASE cnt + 1 >= fall
    <3>1. cnt + 1 = Most(fall, 1)
      BY <1>1, <1>2, <2>3, <2>4
    <3>2. QED
      BY <1>1, <1>2, <2>1, <2>2, <2>3, <2>4, <3>1, <1>5 DEF RunInv, SwitchInv
  <2>5. CASE ~(cnt + 1 >= fall)
    BY <1>1, <1>2, <2>1, <2>2, <2>3, <2>5, <1>5 DEF RunInv, SwitchInv
  <2>6. QED
    BY <2>4, <2>5
<1>7. CASE Steady
  <2>1. /\ type = "STDY" /\ since' = since + 1 /\ i' \in 0 .. Frames - 1
        /\ UNCHANGED <<state, trx, next, last, fall, stdy, rise, ncmd>>
        /\ IF cnt + 1 >= stdy THEN type' = "RISE" /\ cnt' = 0 /\ val' = 0
           ELSE cnt' = cnt + 1 /\ UNCHANGED <<type, val>>
    BY <1>3, <1>7 DEF Steady, NextSample, env
  <2>2. SwitchType' /\ ReturnsToWork'
    BY <1>1, <2>1 DEF RunInv, SwitchType, ReturnsToWork, States
  <2>3. cnt < Most(stdy, 1) /\ since = Most(fall, 1) + cnt /\ val = 0
    BY <1>4, <2>1 DEF RunInv, SwitchInv
  <2>4. CASE cnt + 1 >= stdy
    <3>1. cnt + 1 = Most(stdy, 1)
      BY <1>1, <1>2, <2>3, <2>4
    <3>2. QED
      BY <1>1, <1>2, <2>1, <2>2, <2>3, <2>4, <3>1, <1>5 DEF RunInv, SwitchInv
  <2>5. CASE ~(cnt + 1 >= stdy)
    BY <1>1, <1>2, <2>1, <2>2, <2>3, <2>5, <1>5 DEF RunInv, SwitchInv
  <2>6. QED
    BY <2>4, <2>5
<1>8. CASE Rise
  <2>1. /\ type = "RISE" /\ since' = since + 1 /\ i' \in 0 .. Frames - 1
        /\ cnt + 1 < rise /\ cnt' = cnt + 1 /\ val' = val + 1
        /\ UNCHANGED <<state, trx, next, last, fall, stdy, rise, type, ncmd>>
    BY <1>3, <1>8 DEF Rise, NextSample, env
  <2>2. SwitchType' /\ ReturnsToWork'
    BY <1>1, <2>1 DEF RunInv, SwitchType, ReturnsToWork, States
  <2>3. since = Most(fall, 1) + Most(stdy, 1) + cnt /\ val = cnt
    BY <1>4, <2>1 DEF RunInv, SwitchInv
  <2>4. SwitchInv'
    BY <1>1, <1>2, <2>1, <2>3 DEF SwitchInv
  <2>5. QED
    BY <1>5, <2>2, <2>4 DEF RunInv
<1>9. CASE EndOfSwitch
  <2>1. state' = last /\ last \in States /\ last # "SWCH"
    BY <1>9 DEF EndOfSwitch, RunInv, SwitchType, ReturnsToWork
  <2>2. SwitchType' /\ ReturnsToWork'
    BY <1>1, <1>3, <1>9, <2>1
    DEF EndOfSwitch, RunInv, SwitchType, ReturnsToWork, env
  <2>3. QED
    BY <2>1, <2>2, <1>5 DEF RunInv, SwitchInv
<1>10. QED
  BY <1>6, <1>7, <1>8, <1>9 DEF SwitchSample

LEMMA RunInductive == RunInv /\ [RunNext]_runVars => RunInv'
<1> SUFFICES ASSUME RunInv, [RunNext]_runVars PROVE RunInv'
  OBVIOUS
<1>1. CASE RunNext
  BY <1>1, CommandStep, BlockStep, SampleStep DEF RunNext
<1>2. CASE UNCHANGED runVars
  <2>1. BenchType'
    BY <1>2, BenchKept DEF runVars, RunInv
  <2>2. QED
    BY <1>2, <2>1
    DEF runVars, env, curr, RunInv, SwitchType, ReturnsToWork, SwitchInv
<1>3. QED
  BY <1>1, <1>2

(* Whatever setSWCH and setRunState are sent during a switch (update.c),   *)
(* it ends in a state that is not a switch, and its envelope goes at most  *)
(* one increment beyond silence and full scale (run_swch of sdr-main.c),   *)
(* for every length of its parts, 0 included.                              *)
THEOREM SwitchBounded == RunSpec => [](ReturnsToWork /\ EnvelopeBounded)
<1>1. RunInv => ReturnsToWork /\ EnvelopeBounded
  <2> SUFFICES ASSUME RunInv, state = "SWCH" PROVE EnvelopeBounded
    BY DEF RunInv, EnvelopeBounded
  <2>1. /\ fall \in Nat /\ rise \in Nat /\ cnt \in Nat
    BY DEF RunInv, SwitchType
  <2>2. /\ FullScale(fall) \in Nat /\ FullScale(fall) >= Most(fall, 1) - 1
        /\ FullScale(rise) \in Nat /\ FullScale(rise) >= Most(rise, 1) - 1
        /\ Most(fall, 1) \in Nat /\ Most(rise, 1) \in Nat
    BY <2>1, MostIs
  <2>3. QED
    BY <2>1, <2>2 DEF RunInv, SwitchInv, EnvelopeBounded
<1>2. QED
  BY InitRunInv, RunInductive, <1>1, PTL DEF RunSpec

(* A switch lasts as long as the latest setSWCH said, fall, steady part    *)
(* and rise with at least one sample each.                                 *)
THEOREM SwitchOnTime == RunSpec => OnTime
<1>1. RunInv /\ [RunNext]_runVars => [EndOfSwitch => since' = Length]_runVars
  <2> SUFFICES ASSUME RunInv, EndOfSwitch PROVE since' = Length
    BY Zenon
  <2>1. /\ fall \in Nat /\ stdy \in Nat /\ rise \in Nat /\ cnt \in Nat
    BY DEF RunInv, SwitchType
  <2>2. /\ state = "SWCH" /\ type = "RISE" /\ cnt + 1 >= rise
        /\ since' = since + 1
    BY DEF EndOfSwitch
  <2>3. /\ cnt < Most(rise, 1)
        /\ since = Most(fall, 1) + Most(stdy, 1) + cnt
    BY <2>2 DEF RunInv, SwitchInv
  <2>4. cnt + 1 = Most(rise, 1)
    BY <2>1, <2>2, <2>3 DEF Most
  <2>5. Most(fall, 1) \in Nat /\ Most(stdy, 1) \in Nat
    BY <2>1, MostIs
  <2>6. QED
    BY <2>1, <2>2, <2>3, <2>4, <2>5 DEF Length
<1>2. QED
  BY InitRunInv, RunInductive, <1>1, PTL DEF RunSpec, OnTime

-----------------------------------------------------------------------------
(* The shaping tables.                                                     *)

LEMMA DivideInside ==
  ASSUME NEW a \in Nat, NEW b \in Nat, NEW u \in Nat \ {0}, a <= b * u
  PROVE  a \div u \in 0 .. b
<1>1. a = u * (a \div u) + (a % u) /\ a % u \in 0 .. u - 1 /\ a \div u \in Int
  OBVIOUS
<1>2. a \div u <= b
  <2> SUFFICES ASSUME a \div u >= b + 1 PROVE FALSE
    BY <1>1
  <2>1. u * (a \div u) >= u * (b + 1)
    BY <1>1
  <2>2. u * (b + 1) = b * u + u
    OBVIOUS
  <2>3. QED
    BY <1>1, <2>1, <2>2
<1>3. a \div u >= 0
  <2> SUFFICES ASSUME a \div u <= -1 PROVE FALSE
    BY <1>1
  <2>1. u * (a \div u) <= u * (-1)
    BY <1>1
  <2>2. QED
    BY <1>1, <2>1
<1>4. QED
  BY <1>1, <1>2, <1>3

(* Behind the pointer there is one place more than there are points, or    *)
(* nothing any more.                                                       *)
TableInv ==
  /\ wvs \in [flag : BOOLEAN, npts : Nat, tbl : BOOLEAN, places : Nat]
  /\ wvs.tbl => wvs.places = IF wvs.npts = 0 THEN 0 ELSE wvs.npts + 1

ShapingInv == TableInv /\ LookupsInside

LEMMA WaveShapeReads ==
  ASSUME TableInv, NEW x \in Int
  PROVE  WaveShape(x) \subseteq IF wvs.tbl THEN 0 .. 2 * (wvs.npts \div 2) + 1 ELSE {}
<1> DEFINE half == wvs.npts \div 2
           j == (half * (Clip(x) + Unit)) \div Unit
<1>1. SUFFICES ASSUME wvs.tbl PROVE {j, j + 1} \subseteq 0 .. 2 * half + 1
  BY DEF WaveShape
<1>2. wvs.npts \in Nat
  BY DEF TableInv
<1>3. half \in Nat
  BY <1>2
<1>4. Unit \in Nat \ {0} /\ Clip(x) + Unit \in 0 .. 2 * Unit
  BY ShapingAssumption DEF Clip
<1> HIDE DEF half
<1>5. j \in 0 .. 2 * half
  <2> DEFINE c == Clip(x) + Unit
  <2>1. c \in 0 .. 2 * Unit
    BY <1>4
  <2> HIDE DEF c
  <2>2. half * c \in Nat
    BY <1>3, <2>1
  <2>3. half * c <= half * (2 * Unit)
    BY <1>3, <1>4, <2>1
  <2>4. half * (2 * Unit) = (2 * half) * Unit
    BY <1>3, <1>4
  <2>5. (half * c) \div Unit \in 0 .. 2 * half
    <3>1. 2 * half \in Nat /\ half * c <= (2 * half) * Unit
      BY <1>3, <2>3, <2>4
    <3>2. QED
      BY <1>4, <2>2, <3>1, DivideInside
  <2>6. QED
    BY <2>5 DEF c
<1> HIDE DEF j
<1>6. QED
  BY <1>3, <1>5

(* What this means for tables of an odd or an even number of points, and   *)
(* for one of none.                                                        *)
LEMMA BesideAfter ==
  ASSUME NEW shaper, NEW places,
         shaper \in [flag : BOOLEAN, npts : Nat, tbl : BOOLEAN, places : Nat],
         shaper.tbl => shaper.places = IF shaper.npts = 0 THEN 0 ELSE shaper.npts + 1,
         places \subseteq IF shaper.tbl THEN 0 .. 2 * (shaper.npts \div 2) + 1 ELSE {}
  PROVE  LET beside == places \ (0 .. shaper.places - 1) IN
         /\ shaper.npts % 2 = 1 => beside = {}
         /\ (shaper.npts # 0 /\ shaper.npts % 2 = 0) => beside \subseteq {shaper.places}
         /\ shaper.npts = 0 => beside \subseteq {0, 1}
<1>1. CASE ~shaper.tbl
  BY <1>1
<1>2. CASE shaper.tbl
  <2>1. shaper.npts \in Nat /\ shaper.places = IF shaper.npts = 0 THEN 0 ELSE shaper.npts + 1
    BY <1>2
  <2>2. /\ shaper.npts % 2 = 1 => 2 * (shaper.npts \div 2) + 1 = shaper.npts
        /\ shaper.npts % 2 = 0 => 2 * (shaper.npts \div 2) + 1 = shaper.npts + 1
    BY <2>1
  <2>3. CASE shaper.npts % 2 = 1
    <3>1. shaper.npts # 0 /\ places \subseteq 0 .. shaper.npts
      BY <1>2, <2>1, <2>2, <2>3
    <3>2. shaper.npts % 2 # 0 /\ 0 .. shaper.places - 1 = 0 .. shaper.npts
      BY <2>1, <2>3, <3>1
    <3>3. QED
      BY <3>1, <3>2
  <2>4. CASE shaper.npts % 2 = 0
    <3>1. places \subseteq 0 .. shaper.npts + 1
      BY <1>2, <2>2, <2>4
    <3>2. shaper.npts % 2 # 1
      BY <2>4
    <3>3. CASE shaper.npts = 0
      BY <2>1, <3>1, <3>2, <3>3
    <3>4. CASE shaper.npts # 0
      <4>1. shaper.places = shaper.npts + 1
        BY <2>1, <3>4
      <4>2. \A x \in places : x \notin 0 .. shaper.places - 1 => x = shaper.places
        BY <2>1, <3>1, <4>1
      <4>3. QED
        BY <3>2, <3>4, <4>2
    <3>5. QED
      BY <3>3, <3>4
  <2>5. QED
    BY <2>1, <2>3, <2>4
<1>3. QED
  BY <1>1, <1>2

LEMMA WSCompandInside ==
  ASSUME NEW x \in Int
  PROVE  WSCompand(x) \subseteq 0 .. CpdLen - 1
<1> DEFINE mag == IF x < 0 THEN -x ELSE x
           j == (mag * CpdLen) \div Unit
           end == CpdLen - 1
<1>1. /\ mag \in Nat /\ CpdLen \in Nat /\ CpdLen >= 2 /\ Unit \in Nat \ {0}
  BY ShapingAssumption
<1> HIDE DEF mag
<1>2. mag * CpdLen \in Nat
  BY <1>1
<1>3. j \in Nat
  <2>1. mag * CpdLen <= (mag * CpdLen) * Unit
    BY <1>1, <1>2
  <2>2. QED
    BY <1>1, <1>2, <2>1, DivideInside
<1>4. WSCompand(x) =
        IF mag > 0 THEN (IF j < end THEN {j, j + 1} ELSE {end}) ELSE {}
  BY DEF WSCompand, WSCLookup, mag
<1> HIDE DEF j
<1>5. QED
  BY <1>1, <1>3, <1>4

(* For blocks of any levels and tables of any lengths, given, taken away   *)
(* or freed between any of them, the compander never reads beside its      *)
(* table, nor does the wave shaper when its table has an odd number of     *)
(* points; with an even number it reads one place further at most, with    *)
(* none two places that were freed (WaveShape of waveshape.c, WSCLookup of *)
(* wscompand.c).                                                           *)
THEOREM TablesInside == ShapingSpec => []LookupsInside
<1>1. ShapingInit => ShapingInv
  BY DEF ShapingInit, ShapingInv, TableInv, LookupsInside, newWaveShaper, Nothing, Beside
<1>2. ShapingInv /\ [ShapingNext]_shapingVars => ShapingInv'
  <2> SUFFICES ASSUME ShapingInv, [ShapingNext]_shapingVars PROVE ShapingInv'
    OBVIOUS
  <2>1. wvs \in [flag : BOOLEAN, npts : Nat, tbl : BOOLEAN, places : Nat]
    BY DEF ShapingInv, TableInv
  <2>2. ASSUME Order PROVE LookupsInside'
    BY <2>2 DEF Order, Nothing, LookupsInside, Beside
  <2>3. CASE SetTXWaveShapeFunc
    <3>1. CASE wvs' = [wvs EXCEPT !.tbl = FALSE, !.places = 0]
      <4>1. TableInv'
        BY <2>1, <3>1 DEF TableInv
      <4>2. QED
        BY <2>2, <2>3, <4>1 DEF SetTXWaveShapeFunc, ShapingInv
    <3>2. ASSUME NEW npts \in Points, wvs' = SetWaveShaper(npts)
          PROVE  ShapingInv'
      <4>1. npts \in Nat
        BY ShapingAssumption
      <4>2. TableInv'
        <5>1. CASE npts < 1
          <6>1. wvs' = [flag |-> wvs.flag, npts |-> 0, tbl |-> wvs.tbl, places |-> 0]
            BY <2>1, <3>2, <5>1 DEF SetWaveShaper
          <6>2. QED
            BY <2>1, <6>1 DEF TableInv
        <5>2. CASE ~(npts < 1)
          <6>1. wvs' = [flag |-> wvs.flag, npts |-> npts, tbl |-> TRUE, places |-> npts + 1]
            BY <2>1, <3>2, <5>2 DEF SetWaveShaper
          <6>2. /\ wvs' \in [flag : BOOLEAN, npts : Nat, tbl : BOOLEAN, places : Nat]
                /\ wvs'.places = npts + 1 /\ wvs'.npts = npts /\ npts # 0
            BY <2>1, <4>1, <5>2, <6>1
          <6>3. QED
            BY <6>2 DEF TableInv
        <5>3. QED
          BY <5>1, <5>2
      <4>3. QED
        BY <2>2, <2>3, <4>2 DEF SetTXWaveShapeFunc, ShapingInv
    <3>3. QED
      BY <2>3, <3>1, <3>2 DEF SetTXWaveShapeFunc
  <2>4. CASE SetTXWaveShapeSt
    <3>1. PICK on \in BOOLEAN : wvs' = [wvs EXCEPT !.flag = on]
      BY <2>4 DEF SetTXWaveShapeSt
    <3>2. TableInv'
      BY <2>1, <3>1 DEF ShapingInv, TableInv
    <3>3. QED
      BY <2>2, <2>4, <3>2 DEF SetTXWaveShapeSt, ShapingInv
  <2>5. CASE SetTXCompandSt \/ SetTXCompand
    BY <2>2, <2>5 DEF SetTXCompandSt, SetTXCompand, ShapingInv, TableInv
  <2>6. CASE TxBlock
    <3>1. PICK samples \in [1 .. Block -> Levels] :
            read' = [wvs |-> IF wvs.flag
                             THEN UNION {WaveShape(samples[n]) : n \in 1 .. Have}
                             ELSE {},
                     cpd |-> IF cpd.flag
                             THEN UNION {WSCompand(samples[n]) : n \in 1 .. Have}
                             ELSE {}]
      BY <2>6 DEF TxBlock
    <3>2. TableInv /\ UNCHANGED wvs
      BY <2>6 DEF TxBlock, ShapingInv
    <3>3. ASSUME NEW n \in 1 .. Have PROVE samples[n] \in Int
      <4>1. n \in 1 .. Block
        BY ShapingAssumption
      <4>2. Levels \subseteq Int
        BY ShapingAssumption DEF Levels
      <4>3. QED
        BY <4>1, <4>2
    <3> DEFINE reach == IF wvs.tbl THEN 0 .. 2 * (wvs.npts \div 2) + 1 ELSE {}
    <3>4. \A n \in 1 .. Have : /\ WaveShape(samples[n]) \subseteq reach
                               /\ WSCompand(samples[n]) \subseteq 0 .. CpdLen - 1
      BY <3>2, <3>3, WaveShapeReads, WSCompandInside
    <3> HIDE DEF reach
    <3>5. /\ read'.wvs \subseteq reach
          /\ read'.cpd \subseteq 0 .. CpdLen - 1
      <4>1. /\ UNION {WaveShape(samples[n]) : n \in 1 .. Have} \subseteq reach
            /\ UNION {WSCompand(samples[n]) : n \in 1 .. Have} \subseteq 0 .. CpdLen - 1
        BY <3>4
      <4>2. QED
        BY <3>1, <4>1
    <3>6. TableInv' /\ read'.wvs \subseteq IF wvs'.tbl THEN 0 .. 2 * (wvs'.npts \div 2) + 1 ELSE {}
      BY <3>2, <3>5 DEF TableInv, reach
    <3>7. /\ wvs'.npts % 2 = 1 => Beside' = {}
          /\ (wvs'.npts # 0 /\ wvs'.npts % 2 = 0) => Beside' \subseteq {wvs'.places}
          /\ wvs'.npts = 0 => Beside' \subseteq {0, 1}
      BY <3>6, BesideAfter DEF TableInv, Beside
    <3>8. QED
      BY <3>5, <3>6, <3>7 DEF ShapingInv, LookupsInside
  <2>7. CASE UNCHANGED shapingVars
    BY <2>7 DEF shapingVars, ShapingInv, TableInv, LookupsInside, Beside
  <2>8. QED
    BY <2>3, <2>4, <2>5, <2>6, <2>7 DEF ShapingNext
<1>3. QED
  BY <1>1, <1>2, PTL DEF ShapingSpec, ShapingInv

-----------------------------------------------------------------------------
(* Induction.  No theorem of the library with an operator for a parameter  *)
(* can be used, so it is done with a set S of numbers: if not all are in   *)
(* S, a least one is not.                                                  *)

(* Every set of numbers has a least one.                                   *)
LEMMA LeastNumber ==
  ASSUME NEW T, T \subseteq Nat, T # {}
  PROVE  \E m \in T : \A k \in T : m <= k
<1> DEFINE R == {ss \in Nat \X Nat : ss[1] < ss[2]}
<1>1. IsWellFoundedOn(R, Nat)
  BY NatLessThanWellFounded DEF OpToRel
<1>2. PICK m \in T : \A y \in T : ~(<<y, m>> \in R)
  <2> HIDE DEF R
  <2>1. QED
    BY <1>1, WFMin, Zenon
<1>3. \A k \in T : k \in Nat /\ m \in Nat /\ ~(k < m)
  BY <1>2
<1>4. QED
  BY <1>2, <1>3

(* A set with 0 and with the successor of each of its numbers has all of   *)
(* them.                                                                   *)
LEMMA Induction ==
  ASSUME NEW S, 0 \in S, \A n \in Nat : n \in S => n + 1 \in S
  PROVE  \A n \in Nat : n \in S
<1> SUFFICES ASSUME Nat \ S # {} PROVE FALSE
  OBVIOUS
<1>1. PICK m \in Nat \ S : \A k \in Nat \ S : m <= k
  BY LeastNumber
<1>2. m - 1 \in Nat /\ m # 0
  BY <1>1
<1>3. m - 1 \in S
  BY <1>1, <1>2
<1>4. QED
  BY <1>1, <1>2, <1>3

(* What is reached by a loop that turns base N times.                      *)
Turns(S, N, base, turn) ==
  \E g \in [0 .. N -> S] : g[0] = base /\ \A n \in 1 .. N : g[n] = turn[g[n - 1]]

(* There is such a loop, for every turn that stays in S.                   *)
LEMMA Recursion ==
  ASSUME NEW S, NEW base \in S, NEW N \in Nat, NEW turn \in [S -> S]
  PROVE  Turns(S, N, base, turn)
<1> DEFINE P == {n \in Nat : Turns(S, n, base, turn)}
<1>1. 0 \in P
  <2> DEFINE g == [k \in 0 .. 0 |-> base]
  <2>1. g \in [0 .. 0 -> S] /\ g[0] = base /\ \A k \in 1 .. 0 : g[k] = turn[g[k - 1]]
    OBVIOUS
  <2>2. QED
    BY <2>1 DEF Turns
<1>2. ASSUME NEW n \in Nat, n \in P PROVE n + 1 \in P
  <2>1. PICK g \in [0 .. n -> S] : g[0] = base /\ \A k \in 1 .. n : g[k] = turn[g[k - 1]]
    BY <1>2 DEF Turns
  <2> DEFINE w == turn[g[n]]
             h == [k \in 0 .. n + 1 |-> IF k <= n THEN g[k] ELSE w]
  <2>2. w \in S
    BY <2>1
  <2>3. h \in [0 .. n + 1 -> S] /\ h[0] = base
    <3> HIDE DEF w
    <3>1. QED
      BY <2>1, <2>2
  <2>4. ASSUME NEW k \in 1 .. n + 1 PROVE h[k] = turn[h[k - 1]]
    <3>1. CASE k <= n
      <4>1. h[k] = g[k] /\ h[k - 1] = g[k - 1]
        BY <3>1
      <4>2. QED
        BY <2>1, <3>1, <4>1
    <3>2. CASE k = n + 1
      <4>1. h[k] = w /\ h[k - 1] = g[n]
        BY <3>2
      <4>2. QED
        BY <3>2, <4>1
    <3>3. QED
      BY <3>1, <3>2
  <2> HIDE DEF h
  <2>5. QED
    BY <2>3, <2>4 DEF Turns
<1> HIDE DEF P
<1>3. N \in P
  BY <1>1, <1>2, Induction
<1>4. QED
  BY <1>3 DEF P

-----------------------------------------------------------------------------
(* The resampler.  What has been fed and made fixes all of its state: the  *)
(* place in the ring, what the ring holds, and the phase.  A sum is then   *)
(* that of the reference, by arithmetic with quotients and remainders.     *)

(* Arithmetic.                                                             *)

(* A quotient and a remainder are told by how the number is made.          *)
LEMMA Quotient ==
  ASSUME NEW p \in Nat \ {0}, NEW q \in Int, NEW b \in 0 .. p - 1
  PROVE  (q * p + b) \div p = q /\ (q * p + b) % p = b
<1> DEFINE a == q * p + b
<1>1. a \in Int
  OBVIOUS
<1>2. a = p * (a \div p) + (a % p) /\ a % p \in 0 .. p - 1 /\ a \div p \in Int
  <2> HIDE DEF a
  <2>1. QED
    BY <1>1
<1> DEFINE e == (a \div p) - q
<1>3. e \in Int /\ a \div p = q + e
  BY <1>2
<1>4. p * (q + e) = p * q + p * e /\ p * q = q * p /\ p * e \in Int
  BY <1>3
<1>5. p * e = b - (a % p)
  BY <1>2, <1>3, <1>4
<1>6. e = 0
  <2> DEFINE m == p * e
  <2>1. m < p /\ m > 0 - p
    BY <1>2, <1>5
  <2>2. CASE e >= 1
    <3>1. p * e >= p
      BY <1>3, <2>2
    <3>2. QED
      BY <2>1, <3>1
  <2>3. CASE e <= 0 - 1
    <3>1. p * e <= 0 - p
      BY <1>3, <2>3
    <3>2. QED
      BY <2>1, <3>1
  <2>4. QED
    BY <1>3, <2>2, <2>3
<1>7. QED
  BY <1>1, <1>2, <1>3, <1>5, <1>6

(* A number is its quotient and its remainder.                             *)
LEMMA Division ==
  ASSUME NEW a \in Int, NEW p \in Nat \ {0}
  PROVE  a \div p \in Int /\ a % p \in 0 .. p - 1 /\ a = (a \div p) * p + (a % p)
<1>1. a \div p \in Int /\ a % p \in 0 .. p - 1 /\ a = p * (a \div p) + (a % p)
  OBVIOUS
<1>2. p * (a \div p) = (a \div p) * p
  BY <1>1
<1>3. QED
  BY <1>1, <1>2

(* A division of what is not negative.                                     *)
LEMMA NatDivision ==
  ASSUME NEW a \in Nat, NEW p \in Nat \ {0}
  PROVE  a \div p \in Nat /\ a \div p <= a
<1> DEFINE q == a \div p
<1>1. q \in Int /\ a % p \in 0 .. p - 1 /\ a = q * p + (a % p)
  BY Division
<1> HIDE DEF q
<1>2. q >= 0
  <2> SUFFICES ASSUME q <= 0 - 1 PROVE FALSE
    BY <1>1
  <2>1. q * p <= 0 - p
    BY <1>1
  <2>2. QED
    BY <1>1, <2>1
<1>3. q * p >= q
  BY <1>1, <1>2
<1>4. QED
  BY <1>1, <1>2, <1>3 DEF q

(* Remainders around a ring.                                               *)
LEMMA Around ==
  ASSUME NEW x \in Int, NEW j \in Int, NEW m \in Nat \ {0}
  PROVE  ((x % m) - j) % m = (x - j) % m
<1> DEFINE q == x \div m
           b == x % m
           c == (b - j) % m
           h == (b - j) \div m
<1>1. q \in Int /\ b \in Int /\ x = q * m + b
  BY Division
<1> HIDE DEF q, b
<1>2. h \in Int /\ c \in 0 .. m - 1 /\ b - j = h * m + c
  BY <1>1, Division
<1> HIDE DEF c, h
<1>3. (q + h) * m = q * m + h * m /\ q * m \in Int /\ h * m \in Int
  BY <1>1, <1>2
<1>4. x - j = (q + h) * m + c
  BY <1>1, <1>2, <1>3
<1>5. (x - j) % m = c
  <2>1. q + h \in Int
    BY <1>1, <1>2
  <2>2. QED
    BY <1>2, <1>4, <2>1, Quotient
<1>6. QED
  BY <1>5 DEF c, b

(* Two samples no further apart than the ring is long are in different     *)
(* places.                                                                 *)
LEMMA DifferentPlaces ==
  ASSUME NEW x \in Int, NEW y \in Int, NEW m \in Nat \ {0}, x < y, y < x + m
  PROVE  x % m # y % m
<1> SUFFICES ASSUME x % m = y % m PROVE FALSE
  OBVIOUS
<1> DEFINE q == x \div m
           h == y \div m
           b == x % m
<1>1. q \in Int /\ b \in Int /\ x = q * m + b
  BY Division
<1>2. h \in Int /\ y = h * m + b
  BY Division
<1> HIDE DEF q, h, b
<1> DEFINE e == h - q
<1>3. e \in Int /\ h = q + e
  BY <1>1, <1>2
<1> HIDE DEF e
<1>4. (q + e) * m = q * m + e * m /\ q * m \in Int /\ e * m \in Int
  BY <1>1, <1>3
<1>5. e * m > 0 /\ e * m < m
  BY <1>1, <1>2, <1>3, <1>4
<1>6. CASE e >= 1
  <2>1. e * m >= m
    BY <1>3, <1>6
  <2>2. QED
    BY <1>4, <1>5, <2>1
<1>7. CASE e <= 0
  <2>1. e * m <= 0
    BY <1>3, <1>7
  <2>2. QED
    BY <1>4, <1>5, <2>1
<1>8. QED
  BY <1>3, <1>6, <1>7

(* So often d fits into a, and once more to pass it.                       *)
LEMMA Ceiling ==
  ASSUME NEW a \in Nat \ {0}, NEW d \in Nat \ {0}
  PROVE  LET n == (a + d - 1) \div d
         IN  n \in Nat /\ n * d >= a /\ (n - 1) * d < a
<1> DEFINE c == a + d - 1
           n == c \div d
<1>1. c \in Nat /\ c = a + d - 1
  OBVIOUS
<1> HIDE DEF c
<1>2. n \in Nat /\ c % d \in 0 .. d - 1 /\ c = n * d + (c % d)
  <2>1. n \in Nat
    BY <1>1, NatDivision
  <2>2. c \in Int
    BY <1>1
  <2>3. c % d \in 0 .. d - 1 /\ c = n * d + (c % d)
    BY <2>2, Division
  <2>4. QED
    BY <2>1, <2>3
<1> HIDE DEF n
<1>3. (n - 1) * d = n * d - d /\ n * d \in Int
  BY <1>2
<1>4. n \in Nat /\ n * d >= a /\ (n - 1) * d < a
  BY <1>1, <1>2, <1>3
<1>5. QED
  BY <1>4 DEF n, c

(* A quotient is no smaller than a number it holds so often.               *)
LEMMA AtLeast ==
  ASSUME NEW a \in Int, NEW p \in Nat \ {0}, NEW q \in Int, a >= q * p
  PROVE  a \div p >= q
<1> DEFINE h == a \div p
<1>1. h \in Int /\ a % p \in 0 .. p - 1 /\ a = h * p + (a % p)
  BY Division
<1> HIDE DEF h
<1>2. SUFFICES ASSUME h < q PROVE FALSE
  BY <1>1 DEF h
<1> DEFINE e == q - h - 1
<1>3. e \in Nat /\ q = h + 1 + e
  BY <1>1, <1>2
<1> HIDE DEF e
<1>4. (h + 1 + e) * p = h * p + p + e * p /\ e * p \in Nat /\ h * p \in Int
  BY <1>1, <1>3
<1>5. QED
  BY <1>1, <1>3, <1>4

LEMMA Half ==
  ASSUME NEW m \in Nat \ {0}
  PROVE  m \div 2 \in 0 .. m - 1 /\ m < 2 * (m \div 2) + 2
OBVIOUS

(* The powers of two of nblock2, for every number up to k.                 *)
Doubles(f, k) == f = [m \in 0 .. k |-> IF m = 0 THEN 1 ELSE 2 * f[m \div 2]]

(* There is such a function, by induction, for n halves to less than n.    *)
Doubled(n) ==
  \E g \in [0 .. n -> Nat] : \A m \in 0 .. n : g[m] = IF m = 0 THEN 1 ELSE 2 * g[m \div 2]

LEMMA DoublesExist ==
  ASSUME NEW k \in Nat
  PROVE  \E g \in [0 .. k -> Nat] : Doubles(g, k)
<1> DEFINE P == {n \in Nat : Doubled(n)}
<1>1. 0 \in P
  <2> DEFINE g == [m \in 0 .. 0 |-> 1]
  <2>1. g \in [0 .. 0 -> Nat] /\ \A m \in 0 .. 0 : g[m] = IF m = 0 THEN 1 ELSE 2 * g[m \div 2]
    OBVIOUS
  <2>2. QED
    BY <2>1 DEF Doubled
<1>2. ASSUME NEW n \in Nat, n \in P PROVE n + 1 \in P
  <2>1. PICK g \in [0 .. n -> Nat] :
          \A m \in 0 .. n : g[m] = IF m = 0 THEN 1 ELSE 2 * g[m \div 2]
    BY <1>2 DEF Doubled
  <2> DEFINE b == (n + 1) \div 2
             w == 2 * g[b]
             h == [m \in 0 .. n + 1 |-> IF m <= n THEN g[m] ELSE w]
  <2>2. b \in 0 .. n
    BY Half
  <2>3. w \in Nat
    <3> HIDE DEF b
    <3>1. QED
      BY <2>1, <2>2
  <2>4. h \in [0 .. n + 1 -> Nat]
    <3> HIDE DEF w
    <3>1. QED
      BY <2>1, <2>3
  <2>5. ASSUME NEW m \in 0 .. n + 1 PROVE h[m] = IF m = 0 THEN 1 ELSE 2 * h[m \div 2]
    <3>1. CASE m = 0
      BY <2>1, <3>1
    <3>2. CASE m \in 1 .. n
      <4>1. m \div 2 \in 0 .. n
        BY <3>2, Half
      <4>2. h[m] = g[m] /\ h[m \div 2] = g[m \div 2]
        BY <3>2, <4>1
      <4>3. QED
        BY <2>1, <3>2, <4>2
    <3>3. CASE m = n + 1
      <4>1. h[b] = g[b] /\ h[m] = w
        <5> HIDE DEF b
        <5>1. QED
          BY <2>2, <3>3
      <4>2. QED
        BY <3>3, <4>1
    <3>4. QED
      BY <3>1, <3>2, <3>3
  <2> HIDE DEF h
  <2>6. Doubled(n + 1)
    BY <2>4, <2>5, Zenon DEF Doubled
  <2>7. QED
    BY <2>6
<1> HIDE DEF P
<1>3. k \in P
  BY <1>1, <1>2, Induction
<1>4. PICK g \in [0 .. k -> Nat] :
        \A m \in 0 .. k : g[m] = IF m = 0 THEN 1 ELSE 2 * g[m \div 2]
  BY <1>3 DEF P, Doubled
<1>5. Doubles(g, k)
  BY <1>4 DEF Doubles
<1>6. QED
  BY <1>5

(* The ring has room for the coefficients.                                 *)
LEMMA RingIsLargeEnough ==
  ASSUME NEW n \in Nat \ {0}
  PROVE  nblock2(n) \in Nat /\ nblock2(n) >= n
<1> DEFINE k == n - 1
           f == CHOOSE h : Doubles(h, k)
<1>1. k \in Nat /\ n = k + 1
  OBVIOUS
<1>2. nblock2(n) = f[k]
  BY DEF nblock2, Doubles
<1> HIDE DEF k
<1>3. Doubles(f, k)
  BY <1>1, DoublesExist
<1> HIDE DEF f
<1>4. \A m \in 0 .. k : f[m] = IF m = 0 THEN 1 ELSE 2 * f[m \div 2]
  <2>1. f = [m \in 0 .. k |-> IF m = 0 THEN 1 ELSE 2 * f[m \div 2]]
    BY <1>3 DEF Doubles
  <2>2. QED
    BY <2>1
<1> DEFINE Q == {b \in Nat : \A m \in 0 .. b : m <= k => f[m] \in Nat /\ f[m] > m}
<1>5. 0 \in Q
  BY <1>1, <1>4
<1>6. ASSUME NEW b \in Nat, b \in Q PROVE b + 1 \in Q
  <2> SUFFICES ASSUME NEW m \in 0 .. b + 1, m <= k PROVE f[m] \in Nat /\ f[m] > m
    OBVIOUS
  <2>1. CASE m <= b
    BY <1>6, <2>1
  <2>2. CASE m = b + 1
    <3> DEFINE c == m \div 2
    <3>1. c \in 0 .. b /\ m < 2 * c + 2 /\ c <= k
      BY <1>1, <2>2, Half
    <3>2. f[m] = 2 * f[c]
      BY <1>1, <1>4, <2>2
    <3> HIDE DEF c
    <3>3. f[c] \in Nat /\ f[c] > c
      BY <1>6, <3>1
    <3>4. QED
      BY <3>1, <3>2, <3>3
  <2>3. QED
    BY <2>1, <2>2
<1> HIDE DEF Q
<1>7. k \in Q
  BY <1>1, <1>5, <1>6, Induction
<1>8. f[k] \in Nat /\ f[k] > k
  BY <1>1, <1>7 DEF Q
<1>9. QED
  BY <1>1, <1>2, <1>8 DEF f

(* The fields of a resampler, and a sum as module Resampler has it.        *)
Rings   == UNION {[0 .. m - 1 -> Int] : m \in Nat \ {0}}
Filters == [intrp : Nat \ {0}, decim : Nat \ {0}, iold : Nat, phase : Nat,
            nflt : Nat \ {0}, nold : Nat \ {0}, old : Rings]
Sums    == SUBSET (Int \X Int)

(* The last samples up to x are where they are looked for.                 *)
Remembers(o, n, x) == \A m \in x - n + 1 .. x : o[(m - 1) % n] = IF m >= 1 THEN m ELSE 0

(* Reference, for any resampler.                                           *)
RefAt(s, now, ph) ==
  {<<k, now - (k - ph) \div s.intrp>> :
     k \in {p \in ph .. s.nflt - 1 : (p - ph) % s.intrp = 0 /\ (p - ph) \div s.intrp < now}}
RefOf(s, n) == RefAt(s, (n * s.decim) \div s.intrp + 1, (n * s.decim) % s.intrp)

LEMMA FilterFields ==
  ASSUME NEW s \in Filters
  PROVE  /\ s.intrp \in Nat \ {0} /\ s.decim \in Nat \ {0} /\ s.iold \in Nat /\ s.phase \in Nat
         /\ s.nflt \in Nat \ {0} /\ s.nold \in Nat \ {0} /\ s.old \in Rings
BY DEF Filters

(* What one sum finds when the sample x + 1 has been stored.               *)
LEMMA OneSum ==
  ASSUME NEW t \in Filters, NEW x \in Nat, NEW ph \in Nat, NEW n \in Int,
         t.nflt <= t.nold, t.iold = x % t.nold, Remembers(t.old, t.nold, x + 1),
         ph < t.intrp, n * t.decim = x * t.intrp + ph
  PROVE  Sounding(Sum(t, ph)) = RefOf(t, n) /\ Sounding(Sum(t, ph)) \in Sums
<1> DEFINE I == t.intrp
           N == t.nold
           F == t.nflt
           o == t.old
           K == {p \in ph .. F - 1 : (p - ph) % I = 0}
           j(k) == (k - ph) \div I
           v(k) == o[(t.iold - j(k)) % N]
<1>1. I \in Nat \ {0} /\ N \in Nat \ {0} /\ F \in Nat \ {0} /\ t.decim \in Nat \ {0} /\ F <= N
  BY FilterFields
<1>2. (n * t.decim) \div I = x /\ (n * t.decim) % I = ph
  <2>1. ph \in 0 .. I - 1 /\ x \in Int
    BY <1>1
  <2> HIDE DEF I
  <2>2. (x * I + ph) \div I = x /\ (x * I + ph) % I = ph
    BY <1>1, <2>1, Quotient
  <2>3. n * t.decim = x * I + ph
    BY DEF I
  <2>4. QED
    BY <2>2, <2>3
<1> DEFINE sounded == {p \in ph .. F - 1 : (p - ph) % I = 0 /\ j(p) < x + 1}
<1>3. RefOf(t, n) = {<<k, (x + 1) - j(k)>> : k \in sounded}
  <2>1. RefOf(t, n) = RefAt(t, x + 1, ph)
    BY <1>2, Zenon DEF RefOf
  <2>2. RefAt(t, x + 1, ph) = {<<k, (x + 1) - j(k)>> : k \in sounded}
    BY Zenon DEF RefAt
  <2>3. QED
    BY <2>1, <2>2
<1>11. \A k : k \in sounded <=> k \in K /\ j(k) < x + 1
  <2> HIDE DEF j
  <2>1. QED
    OBVIOUS
<1>12. \A m \in x + 1 - N + 1 .. x + 1 : o[(m - 1) % N] = IF m >= 1 THEN m ELSE 0
  <2>1. Remembers(o, N, x + 1)
    OBVIOUS
  <2>2. x \in Nat /\ N \in Nat \ {0}
    BY <1>1
  <2> HIDE DEF o, N
  <2>3. QED
    BY <2>1, <2>2 DEF Remembers
<1>4. Sum(t, ph) = {<<k, v(k)>> : k \in K}
  BY Zenon DEF Sum
<1>5. ASSUME NEW k \in K
      PROVE  j(k) \in Nat /\ v(k) = IF j(k) < x + 1 THEN x + 1 - j(k) ELSE 0
  <2> DEFINE d == j(k)
  <2>1. k - ph \in Nat /\ k - ph <= F - 1 /\ k \in Int
    BY <1>1
  <2>2. d \in Nat /\ d <= k - ph
    <3> HIDE DEF I, K
    <3>1. QED
      BY <1>1, <2>1, NatDivision
  <2>3. v(k) = o[(t.iold - d) % N]
    OBVIOUS
  <2> HIDE DEF d, v, F
  <2>4. (t.iold - d) % N = (x - d) % N
    <3>1. ((x % N) - d) % N = (x - d) % N
      <4>1. x \in Int /\ d \in Int /\ N \in Nat \ {0}
        BY <1>1, <2>2
      <4> HIDE DEF N
      <4>2. QED
        BY <4>1, Around
    <3>2. QED
      BY <3>1
  <2> DEFINE m == x + 1 - d
  <2>5. m \in x + 1 - N + 1 .. x + 1 /\ m - 1 = x - d
    BY <1>1, <2>1, <2>2
  <2>6. o[(m - 1) % N] = IF m >= 1 THEN m ELSE 0
    <3> HIDE DEF o, N, m
    <3>1. QED
      BY <1>12, <2>5
  <2> HIDE DEF o, N
  <2>7. v(k) = IF m >= 1 THEN m ELSE 0
    BY <2>3, <2>4, <2>5, <2>6
  <2>8. v(k) = IF d < x + 1 THEN x + 1 - d ELSE 0
    BY <2>2, <2>7
  <2>9. QED
    BY <2>2, <2>8 DEF d
<1>6. \A k \in K : k \in Int
  BY <1>1
<1> HIDE DEF I, N, F, o, j, v, K, sounded
<1>7. Sounding(Sum(t, ph)) = {p \in {<<k, v(k)>> : k \in K} : p[2] # 0}
  BY <1>4 DEF Sounding
<1>8. ASSUME NEW p \in Sounding(Sum(t, ph)) PROVE p \in RefOf(t, n) /\ p \in Int \X Int
  <2>1. PICK k \in K : p = <<k, v(k)>>
    BY <1>7
  <2>2. v(k) # 0
    BY <1>7, <2>1
  <2>3. j(k) \in Nat /\ j(k) < x + 1 /\ v(k) = x + 1 - j(k)
    BY <1>5, <2>2
  <2>4. QED
    BY <1>3, <1>6, <1>11, <2>1, <2>3
<1>9. ASSUME NEW p \in RefOf(t, n) PROVE p \in Sounding(Sum(t, ph))
  <2>1. PICK k \in K : j(k) < x + 1 /\ p = <<k, (x + 1) - j(k)>>
    BY <1>3, <1>11
  <2>2. v(k) = x + 1 - j(k) /\ v(k) # 0
    BY <1>5, <2>1
  <2>3. p = <<k, v(k)>> /\ p[2] = v(k)
    <3>1. p = <<k, v(k)>>
      BY <1>5, <2>1, <2>2
    <3>2. <<k, v(k)>>[2] = v(k)
      OBVIOUS
    <3>3. QED
      BY <3>1, <3>2
  <2>4. p \in {<<b, v(b)>> : b \in K}
    BY <2>3
  <2>5. QED
    BY <1>7, <2>2, <2>3, <2>4
<1>10. QED
  BY <1>8, <1>9 DEF Sums

(* A resampler that was fed x samples and has made T.                      *)
Fits(s, x, T) ==
  /\ s \in Filters /\ s.nflt <= s.nold /\ s.iold = x % s.nold
  /\ s.old \in [0 .. s.nold - 1 -> Int] /\ Remembers(s.old, s.nold, x)
  /\ s.phase = T * s.decim - x * s.intrp
(* The ratio and the coefficients never change.                            *)
Alike(s, t) == t.intrp = s.intrp /\ t.decim = s.decim /\ t.nflt = s.nflt

(* The sample x + 1 in the place of the oldest one.                        *)
LEMMA Stored ==
  ASSUME NEW n \in Nat \ {0}, NEW x \in Nat, NEW o \in [0 .. n - 1 -> Int], Remembers(o, n, x)
  PROVE  LET w == [o EXCEPT ![x % n] = x + 1]
         IN  w \in [0 .. n - 1 -> Int] /\ Remembers(w, n, x + 1)
<1> DEFINE w == [o EXCEPT ![x % n] = x + 1]
<1>1. x % n \in 0 .. n - 1
  BY Division
<1>2. w \in [0 .. n - 1 -> Int]
  BY <1>1
<1>3. w[x % n] = x + 1 /\ \A b \in 0 .. n - 1 : b # x % n => w[b] = o[b]
  BY <1>1
<1> HIDE DEF w
<1>4. ASSUME NEW m \in x + 1 - n + 1 .. x + 1
      PROVE  w[(m - 1) % n] = IF m >= 1 THEN m ELSE 0
  <2>1. CASE m = x + 1
    <3>1. (m - 1) % n = x % n
      <4>1. m - 1 = x
        BY <2>1
      <4>2. QED
        BY <4>1
    <3>2. QED
      BY <1>3, <2>1, <3>1
  <2>2. CASE m # x + 1
    <3>1. m - 1 \in Int /\ x \in Int /\ m - 1 < x /\ x < (m - 1) + n /\ m \in x - n + 1 .. x
      BY <2>2
    <3>2. (m - 1) % n \in 0 .. n - 1
      BY <3>1, Division
    <3>3. (m - 1) % n # x % n
      BY <3>1, DifferentPlaces
    <3>4. w[(m - 1) % n] = o[(m - 1) % n]
      BY <1>3, <3>2, <3>3
    <3>5. o[(m - 1) % n] = IF m >= 1 THEN m ELSE 0
      BY <3>1 DEF Remembers
    <3>6. QED
      BY <3>4, <3>5
  <2>3. QED
    BY <2>1, <2>2
<1>5. Remembers(w, n, x + 1)
  BY <1>4 DEF Remembers
<1>6. QED
  BY <1>2, <1>5 DEF w

(* Sample, once the input is stored.                                       *)
Emptied(t) ==
  LET n == IF t.phase >= t.intrp THEN 0 ELSE (t.intrp - t.phase + t.decim - 1) \div t.decim
  IN  [r   |-> [t EXCEPT !.iold = (t.iold + 1) % t.nold, !.phase = t.phase + n * t.decim - t.intrp],
       out |-> [k \in 1 .. n |-> Sounding(Sum(t, t.phase + (k - 1) * t.decim))]]

(* One input sample.                                                       *)
LEMMA OneSample ==
  ASSUME NEW s, NEW x \in Nat, NEW T \in Nat, Fits(s, x, T)
  PROVE  LET b == Sample(s, x + 1)
         IN  /\ b.out \in Seq(Sums) /\ Fits(b.r, x + 1, T + Len(b.out)) /\ Alike(s, b.r)
             /\ \A k \in 1 .. Len(b.out) : b.out[k] = RefOf(s, T + k - 1)
<1> DEFINE N == s.nold
           w == [s.old EXCEPT ![x % N] = x + 1]
           t == [s EXCEPT !.old = w]
           I == t.intrp
           D == t.decim
           n == IF t.phase >= I THEN 0 ELSE (I - t.phase + D - 1) \div D
           slot == (t.iold + 1) % t.nold
           ph == t.phase + n * D - I
           u == [t EXCEPT !.iold = slot, !.phase = ph]
           made1 == [k \in 1 .. n |-> Sounding(Sum(t, t.phase + (k - 1) * D))]
<1>1. /\ s \in Filters /\ s.intrp \in Nat \ {0} /\ s.decim \in Nat \ {0} /\ N \in Nat \ {0}
      /\ s.phase \in Nat /\ s.nflt \in Nat \ {0} /\ s.nflt <= N /\ s.iold = x % N
      /\ s.old \in [0 .. N - 1 -> Int] /\ Remembers(s.old, N, x)
      /\ s.phase = T * s.decim - x * s.intrp
  BY FilterFields DEF Fits
<1>2. w \in [0 .. N - 1 -> Int] /\ Remembers(w, N, x + 1)
  <2> HIDE DEF N
  <2>1. QED
    BY <1>1, Stored
<1>3. w \in Rings
  <2> HIDE DEF w, N
  <2>1. QED
    BY <1>1, <1>2 DEF Rings
<1>4. /\ t \in Filters /\ I = s.intrp /\ D = s.decim /\ t.nold = N /\ t.nflt = s.nflt
      /\ t.phase = s.phase /\ t.iold = x % N /\ t.old = w
  <2> HIDE DEF w
  <2>1. QED
    BY <1>1, <1>3 DEF Filters
<1>6. Sample(s, x + 1) = [r |-> u, out |-> made1]
  <2>1. t = [s EXCEPT !.old[s.iold] = x + 1]
    BY <1>1
  <2>2. Sample(s, x + 1) = Emptied([s EXCEPT !.old[s.iold] = x + 1])
    BY DEF Sample, Emptied
  <2> HIDE DEF t
  <2>3. Emptied(t) = [r |-> u, out |-> made1]
    BY DEF Emptied
  <2>4. QED
    BY <2>1, <2>2, <2>3, Zenon
<1> HIDE DEF w, t, I, D
<1>16. I \in Nat \ {0} /\ D \in Nat \ {0} /\ t.phase \in Nat /\ t.phase = T * D - x * I
  BY <1>1, <1>4
<1>5. n \in Nat /\ ph \in Nat /\ (n > 0 => t.phase + (n - 1) * D < I)
  <2>1. CASE t.phase >= I
    <3>1. n = 0
      BY <2>1
    <3> HIDE DEF n
    <3>2. n * D = 0
      BY <1>16, <3>1
    <3>3. QED
      BY <1>16, <2>1, <3>1, <3>2
  <2>2. CASE ~(t.phase >= I)
    <3> DEFINE a == I - t.phase
               nd == n * D
               md == (n - 1) * D
    <3>1. a \in Nat \ {0}
      BY <1>16, <2>2
    <3>2. n = (a + D - 1) \div D
      BY <2>2
    <3> HIDE DEF n, a
    <3>3. n \in Nat /\ nd >= a /\ md < a
      BY <1>16, <3>1, <3>2, Ceiling
    <3>4. nd \in Int /\ md \in Int
      BY <1>16, <3>3
    <3> HIDE DEF nd, md
    <3>5. t.phase + nd - I \in Nat /\ t.phase + md < I
      BY <1>16, <3>1, <3>3, <3>4 DEF a
    <3>6. QED
      BY <3>3, <3>5 DEF nd, md
  <2>3. QED
    BY <2>1, <2>2
<1>7. slot \in Nat /\ slot = (x + 1) % N
  <2> DEFINE b == x % N
  <2> HIDE DEF N
  <2>1. x \in Int /\ x + 1 \in Int
    OBVIOUS
  <2>6. b \in Int
    <3>1. b \in 0 .. N - 1
      BY <1>1, <2>1, Division
    <3>2. QED
      BY <1>1, <3>1
  <2>7. (x + 1) % N \in 0 .. N - 1
    BY <1>1, <2>1, Division
  <2>2. b \in Int /\ (x + 1) % N \in 0 .. N - 1
    BY <2>6, <2>7
  <2>3. (b + 1) % N = (x + 1) % N
    <3>1. ((x % N) - (0 - 1)) % N = (x - (0 - 1)) % N
      <4>1. x \in Int /\ 0 - 1 \in Int
        OBVIOUS
      <4>2. QED
        BY <1>1, <4>1, Around
    <3> HIDE DEF b
    <3>2. b - (0 - 1) = b + 1 /\ x - (0 - 1) = x + 1
      BY <2>2
    <3>3. QED
      BY <3>1, <3>2 DEF b
  <2>4. slot = (b + 1) % N
    BY <1>4
  <2> HIDE DEF b, slot
  <2>5. QED
    BY <1>1, <2>2, <2>3, <2>4
<1> HIDE DEF slot, n
<1>9. ph = (T + n) * D - (x + 1) * I
  <2> DEFINE td == T * D
             nd == n * D
             xi == x * I
             ts == (T + n) * D
             xs == (x + 1) * I
  <2>1. ts = td + nd /\ xs = xi + I /\ nd \in Int /\ td \in Int /\ xi \in Int
    BY <1>16, <1>5
  <2>2. ph = t.phase + nd - I /\ t.phase = td - xi
    BY <1>16
  <2> HIDE DEF td, nd, xi, ts, xs, ph
  <2>3. ph = ts - xs
    BY <1>16, <2>1, <2>2
  <2>4. QED
    BY <2>3 DEF ts, xs
<1> HIDE DEF ph
<1>8. /\ u \in Filters /\ u.intrp = I /\ u.decim = D /\ u.nold = N /\ u.nflt = s.nflt
      /\ u.phase = ph /\ u.iold = slot /\ u.old = w
  BY <1>4, <1>5, <1>7 DEF Filters, I, D
<1>10. ASSUME NEW k \in 1 .. n
       PROVE  /\ Sounding(Sum(t, t.phase + (k - 1) * D)) = RefOf(s, T + k - 1)
              /\ Sounding(Sum(t, t.phase + (k - 1) * D)) \in Sums
  <2> DEFINE p == t.phase + (k - 1) * D
             b == T + k - 1
  <2>1. k - 1 \in Nat /\ b = T + (k - 1) /\ k \in Int /\ b \in Int
    BY <1>5
  <2>2. p \in Nat /\ p < I
    <3> DEFINE e == n - k
               id == (k - 1) * D
               ed == e * D
               md == (n - 1) * D
    <3>1. e \in Nat /\ n - 1 = (k - 1) + e /\ n > 0
      BY <1>5
    <3> HIDE DEF e
    <3>2. md = id + ed /\ id \in Nat /\ ed \in Nat
      <4>1. ((k - 1) + e) * D = (k - 1) * D + e * D /\ (k - 1) * D \in Nat /\ e * D \in Nat
        BY <1>16, <2>1, <3>1
      <4>2. QED
        BY <3>1, <4>1
    <3>3. t.phase + md < I
      BY <1>5, <3>1
    <3> HIDE DEF md, id, ed
    <3>4. t.phase + id \in Nat /\ t.phase + id < I
      BY <1>16, <3>2, <3>3
    <3>5. QED
      BY <3>4 DEF id
  <2>3. b * D = x * I + p
    <3> DEFINE id == (k - 1) * D
               td == T * D
               xi == x * I
    <3>1. b * D = td + id /\ id \in Int /\ td \in Int /\ xi \in Int
      <4>1. (T + (k - 1)) * D = T * D + (k - 1) * D
        BY <1>16, <2>1
      <4>2. QED
        BY <1>16, <2>1, <4>1
    <3>2. t.phase = td - xi /\ p = t.phase + id
      BY <1>16
    <3> HIDE DEF id, td, xi, b, p
    <3>3. td + id = xi + (td - xi + id)
      BY <3>1
    <3>4. QED
      BY <3>1, <3>2, <3>3 DEF xi
  <2>4. RefOf(s, b) = RefOf(t, b)
    <3>1. t.decim = s.decim /\ t.intrp = s.intrp /\ t.nflt = s.nflt
      BY <1>4 DEF I, D
    <3> HIDE DEF b
    <3>2. QED
      BY <3>1, Zenon DEF RefOf, RefAt
  <2>5. /\ t \in Filters /\ t.nflt <= t.nold /\ t.iold = x % t.nold
        /\ Remembers(t.old, t.nold, x + 1) /\ p < t.intrp /\ b * t.decim = x * t.intrp + p
    <3> HIDE DEF p, b
    <3>1. QED
      BY <1>1, <1>2, <1>4, <2>2, <2>3 DEF I, D
  <2> HIDE DEF p, b
  <2>6. Sounding(Sum(t, p)) = RefOf(t, b) /\ Sounding(Sum(t, p)) \in Sums
    BY <2>1, <2>2, <2>5, OneSum
  <2>7. QED
    BY <2>4, <2>6 DEF p, b
<1>11. made1 \in Seq(Sums) /\ Len(made1) = n /\ \A k \in 1 .. n : made1[k] = RefOf(s, T + k - 1)
  <2>1. \A k \in 1 .. n : made1[k] = Sounding(Sum(t, t.phase + (k - 1) * D))
    OBVIOUS
  <2>2. QED
    BY <1>5, <1>10
<1> HIDE DEF u, made1
<1>12. Remembers(u.old, u.nold, x + 1) /\ u.old \in [0 .. u.nold - 1 -> Int]
  BY <1>2, <1>8
<1>13. Fits(u, x + 1, T + Len(made1)) /\ Alike(s, u)
  BY <1>1, <1>4, <1>7, <1>8, <1>9, <1>11, <1>12 DEF Fits, Alike
<1> DEFINE b == Sample(s, x + 1)
<1>14. b.r = u /\ b.out = made1
  BY <1>6
<1> HIDE DEF b
<1>15. /\ b.out \in Seq(Sums) /\ Fits(b.r, x + 1, T + Len(b.out)) /\ Alike(s, b.r)
       /\ \A k \in 1 .. Len(b.out) : b.out[k] = RefOf(s, T + k - 1)
  BY <1>11, <1>13, <1>14
<1>17. QED
  BY <1>15 DEF b

(* A block so far, begun with s after T output samples; x have been fed.   *)
Outcomes == [r : Filters, out : Seq(Sums)]
Along(s, x, T, a) ==
  /\ a \in Outcomes /\ Fits(a.r, x, T + Len(a.out)) /\ Alike(s, a.r)
  /\ \A k \in 1 .. Len(a.out) : a.out[k] = RefOf(s, T + k - 1)

LEMMA SameReference ==
  ASSUME NEW s, NEW t, Alike(s, t), NEW n
  PROVE  RefOf(s, n) = RefOf(t, n)
BY Zenon DEF Alike, RefOf, RefAt

(* A turn of the loop.                                                     *)
LEMMA OneMore ==
  ASSUME NEW s, NEW x \in Nat, NEW T \in Nat, NEW a, Along(s, x, T, a)
  PROVE  Along(s, x + 1, T, Fed(a, x + 1))
<1> DEFINE b == Sample(a.r, x + 1)
           o == a.out
           m == T + Len(o)
           c == b.out
           q == b.r
           all == o \o c
<1>1. /\ a \in Outcomes /\ o \in Seq(Sums) /\ Len(o) \in Nat /\ m \in Nat /\ Fits(a.r, x, m)
      /\ Alike(s, a.r) /\ \A k \in 1 .. Len(o) : o[k] = RefOf(s, T + k - 1)
  BY DEF Along, Outcomes
<1>2. /\ b.out \in Seq(Sums) /\ Fits(b.r, x + 1, m + Len(b.out)) /\ Alike(a.r, b.r)
      /\ \A k \in 1 .. Len(b.out) : b.out[k] = RefOf(a.r, m + k - 1)
  <2> HIDE DEF m
  <2>1. QED
    BY <1>1, OneSample
<1>3. Fed(a, x + 1) = [r |-> b.r, out |-> all]
  BY DEF Fed
<1>4. b.r \in Filters
  BY <1>2 DEF Fits
<1>5. Alike(s, b.r)
  BY <1>1, <1>2 DEF Alike
<1> HIDE DEF b, o
<1>6. c \in Seq(Sums) /\ Len(c) \in Nat
  BY <1>2
<1>7. /\ all \in Seq(Sums) /\ Len(all) = Len(o) + Len(c)
      /\ \A k \in 1 .. Len(o) : all[k] = o[k]
      /\ \A k \in 1 .. Len(c) : all[Len(o) + k] = c[k]
  <2> HIDE DEF c
  <2>1. QED
    BY <1>1, <1>6
<1>8. \A k \in 1 .. Len(c) : c[k] = RefOf(s, m + k - 1)
  <2> HIDE DEF m
  <2>1. QED
    BY <1>1, <1>2, SameReference
<1>9. q \in Filters /\ Fits(q, x + 1, m + Len(c)) /\ Alike(s, q)
  BY <1>2, <1>4, <1>5
<1> DEFINE z == Fed(a, x + 1)
<1>10. z = [r |-> q, out |-> all]
  BY <1>3
<1> HIDE DEF c, q, all, z
<1>11. ASSUME NEW k \in 1 .. Len(all) PROVE all[k] = RefOf(s, T + k - 1)
  <2>1. CASE k <= Len(o)
    <3>1. k \in 1 .. Len(o)
      BY <1>1, <2>1
    <3>2. QED
      BY <1>1, <1>7, <3>1
  <2>2. CASE k > Len(o)
    <3> DEFINE d == k - Len(o)
    <3>1. d \in 1 .. Len(c) /\ k = Len(o) + d /\ T + k - 1 = m + d - 1
      BY <1>1, <1>6, <1>7, <2>2
    <3> HIDE DEF d, m
    <3>2. all[k] = c[d] /\ c[d] = RefOf(s, m + d - 1)
      BY <1>7, <1>8, <3>1
    <3>3. QED
      BY <3>1, <3>2
  <2>3. QED
    BY <1>1, <1>7, <2>1, <2>2
<1>12. z \in Outcomes /\ z.r = q /\ z.out = all
  BY <1>7, <1>9, <1>10 DEF Outcomes
<1>13. m + Len(c) = T + Len(all)
  BY <1>1, <1>6, <1>7
<1>14. Along(s, x + 1, T, z)
  <2> HIDE DEF m
  <2>1. QED
    BY <1>9, <1>11, <1>12, <1>13 DEF Along
<1>15. QED
  BY <1>14 DEF z

(* The loop over a block of N samples, numbered on from x.                 *)
LEMMA BlockResampled ==
  ASSUME NEW s, NEW x \in Nat, NEW T \in Nat, NEW N \in Nat, Fits(s, x, T)
  PROVE  Along(s, x + N, T, PolyPhaseFIR(s, [k \in 1 .. N |-> x + k]))
<1> DEFINE in == [k \in 1 .. N |-> x + k]
           base == [r |-> s, out |-> << >>]
           S == {p \in Outcomes \X Nat : Along(s, x + p[2], T, p[1])}
           turn == [p \in S |-> <<Fed(p[1], x + p[2] + 1), p[2] + 1>>]
           Loops(f) == f = [n \in 0 .. N |-> IF n = 0 THEN base ELSE Fed(f[n - 1], in[n])]
<1>1. Len(in) = N /\ \A n \in 1 .. N : in[n] = x + n
  OBVIOUS
<1>2. Along(s, x, T, base)
  <2>1. s \in Filters
    BY DEF Fits
  <2>2. base \in Outcomes /\ base.r = s /\ base.out = << >>
    BY <2>1 DEF Outcomes
  <2>3. Len(base.out) = 0
    BY <2>2
  <2> HIDE DEF base
  <2>4. T + Len(base.out) = T
    BY <2>3
  <2>5. Fits(base.r, x, T + Len(base.out))
    BY <2>2, <2>4
  <2>6. \A k \in 1 .. Len(base.out) : base.out[k] = RefOf(s, T + k - 1)
    BY <2>3
  <2>7. Alike(s, base.r)
    BY <2>2 DEF Alike
  <2>8. QED
    BY <2>2, <2>5, <2>6, <2>7 DEF Along
<1>3. ASSUME NEW a, NEW n \in Nat, Along(s, x + n, T, a)
      PROVE  Along(s, x + (n + 1), T, Fed(a, x + (n + 1)))
  <2> DEFINE y == x + n
  <2>1. y \in Nat /\ y + 1 = x + (n + 1)
    OBVIOUS
  <2> HIDE DEF y
  <2>2. Along(s, y + 1, T, Fed(a, y + 1))
    BY <1>3, <2>1, OneMore DEF y
  <2>3. QED
    BY <2>1, <2>2
<1>4. \A a : \A y : Along(s, y, T, a) => a \in Outcomes
  BY DEF Along
<1>5. <<base, 0>> \in S
  <2> HIDE DEF base
  <2>1. base \in Outcomes
    BY <1>2, <1>4
  <2>2. x + 0 = x
    OBVIOUS
  <2>3. Along(s, x + 0, T, base)
    BY <1>2, <2>2
  <2>4. <<base, 0>>[1] = base /\ <<base, 0>>[2] = 0 /\ <<base, 0>> \in Outcomes \X Nat
    BY <2>1
  <2>5. QED
    BY <2>3, <2>4
<1>6. ASSUME NEW p \in S
      PROVE  <<Fed(p[1], x + p[2] + 1), p[2] + 1>> \in S
  <2> DEFINE a == p[1]
             n == p[2]
             e == Fed(a, x + (n + 1))
  <2>1. n \in Nat /\ Along(s, x + n, T, a)
    OBVIOUS
  <2>2. x + n + 1 = x + (n + 1) /\ n + 1 \in Nat
    BY <2>1
  <2> HIDE DEF a, n
  <2>3. Along(s, x + (n + 1), T, e)
    BY <1>3, <2>1
  <2>4. Fed(a, x + n + 1) = e
    BY <2>2
  <2> HIDE DEF e
  <2>5. e \in Outcomes
    BY <1>4, <2>3
  <2>6. <<e, n + 1>> \in S
    BY <2>2, <2>3, <2>5
  <2> HIDE DEF S
  <2>7. QED
    BY <2>4, <2>6 DEF a, n
<1>7. /\ turn \in [S -> S]
      /\ \A p \in S : turn[p] = <<Fed(p[1], x + p[2] + 1), p[2] + 1>>
  <2> HIDE DEF S
  <2>1. QED
    BY <1>6
<1>8. \A p \in S : p[2] \in Nat
  OBVIOUS
<1>9. PolyPhaseFIR(s, in) = (CHOOSE f : Loops(f))[N]
  <2>1. PolyPhaseFIR(s, in) =
          (CHOOSE f : f = [n \in 0 .. Len(in) |-> IF n = 0 THEN base ELSE Fed(f[n - 1], in[n])])[Len(in)]
    <3> HIDE DEF in
    <3>1. QED
      BY DEF PolyPhaseFIR, Loop
  <2> HIDE DEF in, base
  <2>2. QED
    BY <1>1, <2>1, Zenon
<1> HIDE DEF in, base, S, turn
<1>10. PICK g \in [0 .. N -> S] : g[0] = <<base, 0>> /\ \A n \in 1 .. N : g[n] = turn[g[n - 1]]
  <2>1. Turns(S, N, <<base, 0>>, turn)
    BY <1>5, <1>7, Recursion
  <2>2. QED
    BY <2>1 DEF Turns
<1>11. \A n \in 1 .. N : g[n] = <<Fed(g[n - 1][1], x + g[n - 1][2] + 1), g[n - 1][2] + 1>>
  <2> SUFFICES ASSUME NEW n \in 1 .. N
               PROVE  g[n] = <<Fed(g[n - 1][1], x + g[n - 1][2] + 1), g[n - 1][2] + 1>>
    OBVIOUS
  <2>1. g[n - 1] \in S
    BY <1>10
  <2>2. QED
    BY <1>7, <1>10, <2>1
<1> DEFINE C == {n \in Nat : n <= N => g[n][2] = n}
<1>12. 0 \in C
  BY <1>10
<1>13. ASSUME NEW n \in Nat, n \in C PROVE n + 1 \in C
  <2> SUFFICES ASSUME n + 1 <= N PROVE g[n + 1][2] = n + 1
    OBVIOUS
  <2>1. g[n][2] = n /\ n + 1 \in 1 .. N /\ (n + 1) - 1 = n
    BY <1>13
  <2>2. QED
    BY <1>11, <2>1
<1> HIDE DEF C
<1>14. \A n \in Nat : n \in C
  BY <1>12, <1>13, Induction
<1>15. \A n \in 0 .. N : g[n][2] = n
  BY <1>14 DEF C
<1> DEFINE h == [n \in 0 .. N |-> g[n][1]]
<1>16. Loops(h)
  <2>1. h[0] = base
    BY <1>10
  <2>2. ASSUME NEW n \in 1 .. N PROVE h[n] = Fed(h[n - 1], in[n])
    <3>1. n - 1 \in 0 .. N /\ n \in 0 .. N /\ x + (n - 1) + 1 = x + n /\ in[n] = x + n
      BY <1>1
    <3>2. g[n][1] = Fed(g[n - 1][1], x + g[n - 1][2] + 1) /\ g[n - 1][2] = n - 1
      <4>1. g[n] = <<Fed(g[n - 1][1], x + g[n - 1][2] + 1), g[n - 1][2] + 1>>
        BY <1>11
      <4>2. QED
        BY <1>15, <3>1, <4>1
    <3>3. g[n][1] = Fed(g[n - 1][1], in[n])
      BY <3>1, <3>2
    <3>4. h[n] = g[n][1] /\ h[n - 1] = g[n - 1][1]
      BY <3>1
    <3>5. QED
      BY <3>3, <3>4
  <2>3. h = [n \in 0 .. N |-> h[n]]
    OBVIOUS
  <2> HIDE DEF h
  <2>4. \A n \in 0 .. N : h[n] = IF n = 0 THEN base ELSE Fed(h[n - 1], in[n])
    BY <2>1, <2>2
  <2>5. QED
    BY <2>3, <2>4
<1> DEFINE f == CHOOSE d : Loops(d)
<1>17. Loops(f)
  <2> HIDE DEF Loops, h
  <2>1. QED
    BY <1>16
<1> HIDE DEF f
<1>18. f[0] = base /\ \A n \in 1 .. N : f[n] = Fed(f[n - 1], x + n)
  <2>1. f[0] = base /\ \A n \in 1 .. N : f[n] = Fed(f[n - 1], in[n])
    <3>1. f = [n \in 0 .. N |-> IF n = 0 THEN base ELSE Fed(f[n - 1], in[n])]
      BY <1>17
    <3>2. QED
      BY <3>1
  <2>2. QED
    BY <1>1, <2>1
<1> DEFINE Q == {n \in Nat : n <= N => Along(s, x + n, T, f[n])}
<1>19. 0 \in Q
  <2>1. x + 0 = x
    OBVIOUS
  <2>2. QED
    BY <1>2, <1>18, <2>1
<1>20. ASSUME NEW n \in Nat, n \in Q PROVE n + 1 \in Q
  <2> SUFFICES ASSUME n + 1 <= N PROVE Along(s, x + (n + 1), T, f[n + 1])
    OBVIOUS
  <2>1. Along(s, x + n, T, f[n]) /\ n + 1 \in 1 .. N /\ (n + 1) - 1 = n
    BY <1>20
  <2>2. f[n + 1] = Fed(f[n], x + (n + 1))
    BY <1>18, <2>1
  <2>3. QED
    BY <1>3, <2>1, <2>2
<1> HIDE DEF Q
<1>21. N \in Q
  <2>1. \A n \in Nat : n \in Q
    BY <1>19, <1>20, Induction
  <2>2. QED
    BY <2>1
<1>22. Along(s, x + N, T, f[N])
  BY <1>21 DEF Q
<1>23. QED
  BY <1>9, <1>22 DEF f, in

-----------------------------------------------------------------------------
(* The resampler fits what it was fed, and the last block is right.        *)
ResamplerInv ==
  /\ fed \in Nat /\ made \in Nat /\ out \in Seq(Sums)
  /\ Fits(r, fed, made + Len(out))
  /\ \A k \in 1 .. Len(out) : out[k] = RefOf(r, made + k - 1)

LEMMA ResamplerBegins ==
  ASSUME ResamplerInit
  PROVE  ResamplerInv
<1>1. PICK q \in Ratios : r = newPolyPhaseFIR(q[1], q[2])
  BY DEF ResamplerInit
<1> DEFINE I == q[1]
           D == q[2]
           F == Taps * D
           N == nblock2(F)
           o == [j \in 0 .. N - 1 |-> 0]
<1>2. I \in Nat \ {0} /\ D \in Nat \ {0} /\ Taps \in Nat \ {0}
  BY ResamplerAssumption
<1>3. r = [intrp |-> I, decim |-> D, iold |-> 0, phase |-> 0, nflt |-> F, nold |-> N, old |-> o]
  BY <1>1 DEF newPolyPhaseFIR
<1> HIDE DEF I, D
<1>4. F \in Nat \ {0}
  BY <1>2
<1> HIDE DEF F
<1>5. N \in Nat \ {0} /\ F <= N
  BY <1>4, RingIsLargeEnough
<1> HIDE DEF N
<1>6. o \in [0 .. N - 1 -> Int] /\ Remembers(o, N, 0) /\ o \in Rings
  <2>1. o \in [0 .. N - 1 -> Int]
    OBVIOUS
  <2>2. ASSUME NEW m \in 0 - N + 1 .. 0 PROVE o[(m - 1) % N] = IF m >= 1 THEN m ELSE 0
    <3>1. (m - 1) \in Int /\ ~(m >= 1)
      BY <1>5
    <3>2. (m - 1) % N \in 0 .. N - 1
      BY <1>5, <3>1, Division
    <3>3. QED
      BY <3>1, <3>2
  <2>3. Remembers(o, N, 0)
    <3> HIDE DEF o
    <3>1. QED
      BY <2>2 DEF Remembers
  <2> HIDE DEF o
  <2>4. QED
    BY <1>5, <2>1, <2>3 DEF Rings
<1> HIDE DEF o
<1>7. /\ r \in Filters /\ r.intrp = I /\ r.decim = D /\ r.iold = 0 /\ r.phase = 0
      /\ r.nflt = F /\ r.nold = N /\ r.old = o
  BY <1>2, <1>3, <1>4, <1>5, <1>6 DEF Filters
<1>8. fed = 0 /\ made = 0 /\ out = << >> /\ Len(out) = 0 /\ out \in Seq(Sums)
  BY DEF ResamplerInit
<1>9. 0 % N = 0
  <2>1. (0 * N + 0) \div N = 0 /\ (0 * N + 0) % N = 0
    <3>1. 0 \in 0 .. N - 1 /\ 0 \in Int
      BY <1>5
    <3>2. QED
      BY <1>5, <3>1, Quotient
  <2>2. 0 * N + 0 = 0
    BY <1>5
  <2>3. QED
    BY <2>1, <2>2
<1>10. 0 = 0 * D - 0 * I
  BY <1>2
<1>11. Fits(r, 0, 0)
  BY <1>5, <1>6, <1>7, <1>9, <1>10 DEF Fits
<1>12. made + Len(out) = 0
  BY <1>8
<1>13. QED
  BY <1>8, <1>11, <1>12 DEF ResamplerInv

LEMMA ResamplerStep ==
  ASSUME ResamplerInv, [ResamplerNext]_resamplerVars
  PROVE  ResamplerInv'
<1>1. CASE UNCHANGED resamplerVars
  <2>1. r' = r /\ fed' = fed /\ made' = made /\ out' = out
    BY <1>1 DEF resamplerVars
  <2>2. QED
    BY <2>1 DEF ResamplerInv
<1>2. ASSUME NEW n \in Blocks, Resample(n) PROVE ResamplerInv'
  <2> DEFINE T == made + Len(out)
             a == PolyPhaseFIR(r, [k \in 1 .. n |-> fed + k])
  <2>1. n \in Nat /\ fed \in Nat /\ T \in Nat /\ Fits(r, fed, T) /\ fed + n \in Nat
    BY ResamplerAssumption DEF ResamplerInv
  <2>2. r' = a.r /\ out' = a.out /\ fed' = fed + n /\ made' = T
    BY <1>2 DEF Resample
  <2> HIDE DEF T
  <2>3. Along(r, fed + n, T, a)
    BY <2>1, BlockResampled
  <2> HIDE DEF a
  <2>4. /\ Fits(a.r, fed + n, T + Len(a.out)) /\ Alike(r, a.r) /\ a.out \in Seq(Sums)
        /\ \A k \in 1 .. Len(a.out) : a.out[k] = RefOf(r, T + k - 1)
    BY <2>3 DEF Along, Outcomes
  <2>5. \A k \in 1 .. Len(a.out) : a.out[k] = RefOf(a.r, T + k - 1)
    BY <2>4, SameReference
  <2>6. QED
    BY <2>1, <2>2, <2>4, <2>5 DEF ResamplerInv
<1>3. QED
  BY <1>1, <1>2 DEF ResamplerNext

LEMMA ResamplerInvSuffices ==
  ASSUME ResamplerInv
  PROVE  Resampled
<1>1. \A n : Reference(n) = RefOf(r, n)
  BY Zenon DEF Reference, RefOf, RefAt
<1>2. \A k \in 1 .. Len(out) : out[k] = Reference(made + k - 1)
  BY <1>1 DEF ResamplerInv
<1> DEFINE T == made + Len(out)
           I == r.intrp
           D == r.decim
           a == T * D
           b == fed * I
<1>3. /\ T \in Nat /\ fed \in Nat /\ I \in Nat \ {0} /\ D \in Nat \ {0} /\ r.phase \in Nat
      /\ r.phase = a - b
  BY FilterFields DEF ResamplerInv, Fits
<1>4. a \in Int /\ b \in Int
  BY <1>3
<1>5. a >= fed * I
  <2> HIDE DEF a, b
  <2>1. a >= b
    BY <1>3, <1>4
  <2>2. QED
    BY <2>1 DEF b
<1> HIDE DEF a, I
<1>6. a \div I >= fed
  BY <1>3, <1>4, <1>5, AtLeast
<1>7. ((made + Len(out)) * r.decim) \div r.intrp >= fed
  BY <1>6 DEF a, I
<1>8. QED
  BY <1>2, <1>7 DEF Resampled

(* However the input is cut into blocks, for every ratio and number of     *)
(* coefficients, PolyPhaseFIR of resample.c makes sample by sample what    *)
(* zero stuffing, filtering and throwing away make, and all of it that the *)
(* input so far allows.                                                    *)
THEOREM BlocksAreSeamless == ResamplerSpec => []Resampled
<1>1. ResamplerInit => ResamplerInv
  BY ResamplerBegins
<1>2. ResamplerInv /\ [ResamplerNext]_resamplerVars => ResamplerInv'
  BY ResamplerStep
<1>3. ResamplerInv => Resampled
  BY ResamplerInvSuffices
<1>4. QED
  BY <1>1, <1>2, <1>3, PTL DEF ResamplerSpec

-----------------------------------------------------------------------------
(* The spotting tone.  The level is a function of the stage and of how     *)
(* many samples it has lasted, so the step from one sample to the next can *)
(* be read off it, and the last step of a rise or a fall with it.          *)

(* The tone's envelope.                                                    *)
Spans  == Lengths \cup {0}
Stages == {"IDLE", "RISE", "STDY", "FALL", "HOLD"}
Tone   == [stage : Stages, curr : Int, rise : Spans, fall : Spans, riseWant : Spans,
           riseHave : Nat, fallWant : Spans, fallHave : Nat]
Height(h, w) == h * Incr(w)

(* A length and its step are numbers.                                      *)
LEMMA SpanFacts ==
  ASSUME NEW w \in Spans
  PROVE  w \in Nat /\ Full \in Nat /\ Incr(w) \in Nat
<1>1. w \in Nat /\ Full \in Nat
  BY SpotAssumption DEF Spans
<1>2. CASE w <= 1
  BY <1>1, <1>2 DEF Incr
<1>3. CASE w > 1
  <2> DEFINE n == w - 1
  <2>1. n \in Nat /\ n > 0
    BY <1>1, <1>3
  <2> HIDE DEF n
  <2>2. Full \div n \in Nat
    BY <1>1, <2>1
  <2>3. QED
    BY <1>1, <1>3, <2>2 DEF Incr, n
<1>4. QED
  BY <1>1, <1>2, <1>3

(* A sample more is a step more.                                           *)
LEMMA OneStep ==
  ASSUME NEW w \in Spans, NEW h \in Nat
  PROVE  Height(h, w) \in Nat /\ Height(h + 1, w) = Height(h, w) + Incr(w) /\ Height(0, w) = 0
<1> DEFINE k == Incr(w)
<1>1. k \in Nat
  BY SpanFacts
<1> HIDE DEF k
<1>2. h * k \in Nat /\ (h + 1) * k = h * k + k /\ 0 * k = 0
  BY <1>1
<1>3. QED
  BY <1>2 DEF Height, k

(* On the way up the next step stays below the full level, or starts from  *)
(* it; at the end the level is full, or a step beyond.                     *)
LEMMA Heights ==
  ASSUME NEW w \in Spans, NEW h \in 0 .. w
  PROVE  /\ h < w => Height(h, w) + Incr(w) <= Full \/ Height(h, w) = Full
         /\ h = w /\ w > 0 => Height(h, w) = Full \/ Height(h, w) = Full + Incr(w)
         /\ w = 0 => Height(h, w) = 0 /\ Incr(w) = Full
<1>1. w \in Nat /\ h \in Nat /\ Full \in Nat /\ Incr(w) \in Nat
  BY SpanFacts
<1>2. CASE w <= 1
  <2>1. Incr(w) = Full
    BY <1>2 DEF Incr
  <2>2. 0 * Full = 0 /\ 1 * Full = Full
    BY <1>1
  <2>3. h = 0 \/ (h = 1 /\ w = 1)
    BY <1>1, <1>2
  <2>4. QED
    BY <1>1, <1>2, <2>1, <2>2, <2>3 DEF Height
<1>3. CASE w > 1
  <2> DEFINE n == w - 1
             q == Full \div n
  <2>1. n \in Nat /\ n > 0 /\ Full % n = 0 /\ w = n + 1
    BY <1>1, <1>3, SpotAssumption DEF Spans
  <2>2. Full = n * q + (Full % n) /\ q \in Nat
    <3> HIDE DEF n
    <3>1. QED
      BY <1>1, <2>1
  <2>3. Incr(w) = q
    BY <1>1, <1>3 DEF Incr
  <2> HIDE DEF n, q
  <2>4. Full = n * q
    BY <1>1, <2>1, <2>2
  <2>5. (n + 1) * q = n * q + q
    BY <2>1, <2>2
  <2>6. ASSUME h < n PROVE h * q + q <= n * q
    <3> DEFINE d == n - h - 1
    <3>1. d \in Nat /\ n = h + 1 + d
      BY <1>1, <2>1, <2>6
    <3> HIDE DEF d
    <3>2. (h + 1 + d) * q = h * q + q + d * q /\ d * q \in Nat /\ h * q \in Nat
      BY <1>1, <2>2, <3>1
    <3>3. QED
      BY <2>2, <3>1, <3>2
  <2>7. h < n \/ h = n \/ h = n + 1
    BY <1>1, <2>1
  <2>8. QED
    BY <1>1, <1>3, <2>1, <2>2, <2>3, <2>4, <2>5, <2>6, <2>7 DEF Height
<1>4. QED
  BY <1>1, <1>2, <1>3

LEMMA ToneFields ==
  ASSUME NEW s \in Tone
  PROVE  /\ s.stage \in Stages /\ s.curr \in Int /\ s.riseWant \in Spans /\ s.fallWant \in Spans
         /\ s.riseHave \in Nat /\ s.fallHave \in Nat
BY DEF Tone

(* What a sample of a rise, and of a fall, does to the tone.               *)
LEMMA RiseTurn ==
  ASSUME NEW s \in Tone
  PROVE  /\ Risen(s) \in Tone /\ Risen(s).fallHave = s.fallHave
         /\ Risen(s).riseWant = s.riseWant /\ Risen(s).fallWant = s.fallWant
         /\ s.riseHave < s.riseWant =>
              /\ Risen(s).stage = s.stage /\ Risen(s).riseHave = s.riseHave + 1
              /\ Risen(s).curr = s.curr + Incr(s.riseWant)
         /\ ~(s.riseHave < s.riseWant) => Risen(s).stage = "STDY" /\ Risen(s).curr = Full
<1> DEFINE h == s.riseHave + 1
           c == s.curr + Incr(s.riseWant)
           x == [s EXCEPT !.riseHave = h, !.curr = c]
           y == [s EXCEPT !.riseHave = h, !.curr = Full, !.stage = "STDY"]
<1>1. h \in Nat /\ c \in Int /\ Full \in Int
  BY ToneFields, SpanFacts
<1>2. Risen(s) = IF s.riseHave < s.riseWant THEN x ELSE y
  BY Zenon DEF Risen
<1> HIDE DEF h, c
<1>3. /\ x \in Tone /\ x.fallHave = s.fallHave /\ x.riseWant = s.riseWant
      /\ x.fallWant = s.fallWant /\ x.stage = s.stage /\ x.riseHave = h /\ x.curr = c
  BY <1>1 DEF Tone
<1>4. /\ y \in Tone /\ y.fallHave = s.fallHave /\ y.riseWant = s.riseWant
      /\ y.fallWant = s.fallWant /\ y.stage = "STDY" /\ y.curr = Full
  BY <1>1 DEF Tone, Stages
<1> HIDE DEF x, y
<1>5. QED
  BY <1>2, <1>3, <1>4 DEF h, c

LEMMA FallTurn ==
  ASSUME NEW s \in Tone
  PROVE  /\ Fallen(s) \in Tone
         /\ Fallen(s).riseWant = s.riseWant /\ Fallen(s).fallWant = s.fallWant
         /\ s.fallHave < s.fallWant =>
              /\ Fallen(s).stage = s.stage /\ Fallen(s).fallHave = s.fallHave + 1
              /\ Fallen(s).curr = s.curr - Incr(s.fallWant)
         /\ ~(s.fallHave < s.fallWant) => Fallen(s).stage = "HOLD" /\ Fallen(s).curr = 0
<1> DEFINE h == s.fallHave + 1
           c == s.curr - Incr(s.fallWant)
           x == [s EXCEPT !.fallHave = h, !.curr = c]
           y == [s EXCEPT !.fallHave = h, !.curr = 0, !.stage = "HOLD"]
<1>1. h \in Nat /\ c \in Int
  BY ToneFields, SpanFacts
<1>2. Fallen(s) = IF s.fallHave < s.fallWant THEN x ELSE y
  BY Zenon DEF Fallen
<1> HIDE DEF h, c
<1>3. /\ x \in Tone /\ x.riseWant = s.riseWant
      /\ x.fallWant = s.fallWant /\ x.stage = s.stage /\ x.fallHave = h /\ x.curr = c
  BY <1>1 DEF Tone
<1>4. /\ y \in Tone /\ y.riseWant = s.riseWant
      /\ y.fallWant = s.fallWant /\ y.stage = "HOLD" /\ y.curr = 0
  <2>1. "HOLD" \in Stages /\ 0 \in Int
    BY DEF Stages
  <2>2. QED
    BY <1>1, <2>1 DEF Tone
<1> HIDE DEF x, y
<1>5. QED
  BY <1>2, <1>3, <1>4 DEF h, c

(* A rise and a steady tone are where their counts say, and a tone that is *)
(* over is silent; so is a fall from the full level.                       *)
Shaped(s) ==
  /\ s.stage = "RISE" => s.curr = Height(s.riseHave, s.riseWant) /\ s.riseHave <= s.riseWant
  /\ s.stage = "STDY" => s.curr = Full
  /\ s.stage \in {"RISE", "STDY"} => s.fallHave = 0
  /\ s.stage = "HOLD" => s.curr = 0
Whole(s) ==
  s.stage = "FALL" => s.curr = Full - Height(s.fallHave, s.fallWant) /\ s.fallHave <= s.fallWant

(* The larger of the two steps.                                            *)
StepSize(s) == IF Incr(s.riseWant) > Incr(s.fallWant) THEN Incr(s.riseWant) ELSE Incr(s.fallWant)

LEMMA StepBounds ==
  ASSUME NEW s \in Tone
  PROVE  StepSize(s) \in Nat /\ Incr(s.riseWant) <= StepSize(s) /\ Incr(s.fallWant) <= StepSize(s)
BY ToneFields, SpanFacts DEF StepSize

(* One turn keeps this, and takes a step that is no larger than one of the *)
(* two.                                                                    *)
LEMMA Turn ==
  ASSUME NEW s \in Tone, Shaped(s)
  PROVE  /\ Enveloped(s) \in Tone /\ Shaped(Enveloped(s))
         /\ Enveloped(s).riseWant = s.riseWant /\ Enveloped(s).fallWant = s.fallWant
         /\ Enveloped(s).stage = "IDLE" => s.stage = "IDLE"
         /\ Whole(s) => /\ Whole(Enveloped(s))
                        /\ Diff(Level(Enveloped(s).curr), Level(s.curr)) <= StepSize(s)
<1> DEFINE e == Enveloped(s)
           up == Incr(s.riseWant)
           down == Incr(s.fallWant)
<1>1. /\ s.stage \in Stages /\ s.curr \in Int /\ s.riseWant \in Spans /\ s.fallWant \in Spans
      /\ s.riseHave \in Nat /\ s.fallHave \in Nat
      /\ s.riseWant \in Nat /\ s.fallWant \in Nat /\ up \in Nat /\ down \in Nat /\ Full \in Nat
  BY ToneFields, SpanFacts
<1>2. StepSize(s) \in Nat /\ up <= StepSize(s) /\ down <= StepSize(s)
  BY StepBounds
<1> HIDE DEF up, down
<1>3. CASE s.stage = "RISE"
  <2> DEFINE h == Height(s.riseHave, s.riseWant)
  <2>1. e = Risen(s)
    BY <1>3 DEF Enveloped
  <2>2. /\ s.curr = h /\ s.riseHave <= s.riseWant /\ s.fallHave = 0 /\ h \in Nat
        /\ Height(s.riseHave + 1, s.riseWant) = h + up
        /\ s.riseHave < s.riseWant => h + up <= Full \/ h = Full
        /\ s.riseHave = s.riseWant /\ s.riseWant > 0 => h = Full \/ h = Full + up
        /\ s.riseWant = 0 => h = 0 /\ up = Full
    <3>1. s.curr = h /\ s.riseHave <= s.riseWant /\ s.fallHave = 0
      BY <1>3 DEF Shaped
    <3>2. s.riseHave \in 0 .. s.riseWant
      BY <1>1, <3>1
    <3>3. QED
      BY <1>1, <3>1, <3>2, OneStep, Heights DEF up
  <2>3. e \in Tone /\ e.riseWant = s.riseWant /\ e.fallWant = s.fallWant /\ e.fallHave = 0
    BY <2>1, <2>2, RiseTurn
  <2>4. CASE s.riseHave < s.riseWant
    <3>1. e.stage = "RISE" /\ e.riseHave = s.riseHave + 1 /\ e.curr = h + up
      BY <1>3, <2>1, <2>2, <2>4, RiseTurn DEF up
    <3>2. Shaped(e) /\ Whole(e)
      BY <1>1, <2>2, <2>3, <2>4, <3>1 DEF Shaped, Whole
    <3> HIDE DEF h, e
    <3>3. Diff(Level(e.curr), Level(s.curr)) <= StepSize(s)
      BY <1>1, <1>2, <2>2, <2>4, <3>1 DEF Diff, Level
    <3>4. QED
      BY <2>3, <3>1, <3>2, <3>3 DEF e
  <2>5. CASE ~(s.riseHave < s.riseWant)
    <3>1. e.stage = "STDY" /\ e.curr = Full
      BY <2>1, <2>5, RiseTurn
    <3>2. Shaped(e) /\ Whole(e)
      BY <2>3, <3>1 DEF Shaped, Whole
    <3> HIDE DEF h, e
    <3>3. Diff(Level(e.curr), Level(s.curr)) <= StepSize(s)
      BY <1>1, <1>2, <2>2, <2>5, <3>1 DEF Diff, Level
    <3>4. QED
      BY <2>3, <3>1, <3>2, <3>3 DEF e
  <2>6. QED
    BY <2>4, <2>5
<1>4. CASE s.stage = "FALL"
  <2>1. e = Fallen(s)
    BY <1>4 DEF Enveloped
  <2>2. e \in Tone /\ e.riseWant = s.riseWant /\ e.fallWant = s.fallWant
    BY <2>1, FallTurn
  <2>3. Shaped(e) /\ e.stage # "IDLE"
    BY <1>4, <2>1, FallTurn DEF Shaped
  <2>4. ASSUME Whole(s)
        PROVE  Whole(e) /\ Diff(Level(e.curr), Level(s.curr)) <= StepSize(s)
    <3> DEFINE h == Height(s.fallHave, s.fallWant)
    <3>1. /\ s.curr = Full - h /\ s.fallHave <= s.fallWant /\ h \in Nat
          /\ Height(s.fallHave + 1, s.fallWant) = h + down
          /\ s.fallHave = s.fallWant /\ s.fallWant > 0 => h = Full \/ h = Full + down
          /\ s.fallWant = 0 => h = 0 /\ down = Full
      <4>1. s.curr = Full - h /\ s.fallHave <= s.fallWant
        BY <1>4, <2>4 DEF Whole
      <4>2. s.fallHave \in 0 .. s.fallWant
        BY <1>1, <4>1
      <4>3. QED
        BY <1>1, <4>1, <4>2, OneStep, Heights DEF down
    <3>2. CASE s.fallHave < s.fallWant
      <4>1. e.stage = "FALL" /\ e.fallHave = s.fallHave + 1 /\ e.curr = s.curr - down
        BY <1>4, <2>1, <3>2, FallTurn DEF down
      <4>2. Whole(e)
        <5>1. Height(e.fallHave, e.fallWant) = h + down
          BY <2>2, <3>1, <4>1
        <5> HIDE DEF h, e
        <5>2. e.curr = Full - (h + down) /\ e.fallHave <= e.fallWant
          BY <1>1, <2>2, <3>1, <3>2, <4>1
        <5>3. QED
          BY <5>1, <5>2 DEF Whole
      <4> HIDE DEF h, e
      <4>3. Diff(Level(e.curr), Level(s.curr)) <= StepSize(s)
        BY <1>1, <1>2, <3>1, <4>1 DEF Diff, Level
      <4>4. QED
        BY <4>2, <4>3
    <3>3. CASE ~(s.fallHave < s.fallWant)
      <4>1. e.stage = "HOLD" /\ e.curr = 0
        BY <2>1, <3>3, FallTurn
      <4>2. Whole(e)
        BY <4>1 DEF Whole
      <4> HIDE DEF h, e
      <4>3. Diff(Level(e.curr), Level(s.curr)) <= StepSize(s)
        BY <1>1, <1>2, <3>1, <3>3, <4>1 DEF Diff, Level
      <4>4. QED
        BY <4>2, <4>3
    <3>4. QED
      BY <3>2, <3>3
  <2>5. QED
    BY <2>2, <2>3, <2>4
<1>5. CASE s.stage \notin {"RISE", "FALL"}
  <2>1. e = s
    BY <1>5 DEF Enveloped
  <2>2. Diff(Level(s.curr), Level(s.curr)) = 0
    BY <1>1 DEF Diff, Level
  <2>3. QED
    BY <1>2, <2>1, <2>2
<1>6. QED
  BY <1>3, <1>4, <1>5

(* No level is more than b from the one before it.                         *)
Steps(lv, b) == \A k \in 2 .. Len(lv) : Diff(lv[k], lv[k - 1]) <= b

(* A block so far, begun with s0.                                          *)
Heard(s0, a) ==
  /\ a.s \in Tone /\ a.levels \in Seq(Int) /\ Len(a.levels) > 0
  /\ Shaped(a.s) /\ a.levels[Len(a.levels)] = Level(a.s.curr)
  /\ a.s.riseWant = s0.riseWant /\ a.s.fallWant = s0.fallWant
  /\ a.s.stage = "IDLE" => s0.stage = "IDLE"
  /\ Whole(s0) => Whole(a.s) /\ Steps(a.levels, StepSize(s0))

LEMMA LevelIsInt == ASSUME NEW c \in Int PROVE Level(c) \in Int
BY SpotAssumption DEF Level

(* A turn of the loop.                                                     *)
LEMMA OneTurn ==
  ASSUME NEW s0 \in Tone, NEW a \in [s : Tone, levels : Seq(Int)], Heard(s0, a)
  PROVE  Toned(a) \in [s : Tone, levels : Seq(Int)] /\ Heard(s0, Toned(a))
<1> DEFINE s == a.s
           lv == a.levels
           e == Enveloped(s)
           x == Level(e.curr)
           more == Append(lv, x)
<1>1. Toned(a) = [s |-> e, levels |-> more]
  BY DEF Toned
<1>2. s \in Tone /\ Shaped(s) /\ lv \in Seq(Int) /\ Len(lv) \in Nat /\ Len(lv) > 0
  BY DEF Heard
<1>3. /\ e \in Tone /\ Shaped(e) /\ e.riseWant = s.riseWant /\ e.fallWant = s.fallWant
      /\ Whole(s) => Whole(e) /\ Diff(x, Level(s.curr)) <= StepSize(s)
      /\ e.stage = "IDLE" => s.stage = "IDLE"
  <2> HIDE DEF s
  <2>1. QED
    BY <1>2, Turn
<1>4. x \in Int
  <2> HIDE DEF e
  <2>1. QED
    BY <1>3, ToneFields, LevelIsInt
<1>5. StepSize(s) = StepSize(s0)
  BY DEF Heard, StepSize
<1>6. lv[Len(lv)] = Level(s.curr)
  BY DEF Heard
<1>7. Whole(s0) => Whole(s) /\ Steps(lv, StepSize(s0))
  BY DEF Heard
<1>8. s.riseWant = s0.riseWant /\ s.fallWant = s0.fallWant /\ (s.stage = "IDLE" => s0.stage = "IDLE")
  BY DEF Heard
<1> HIDE DEF s, lv, e, x
<1>9. more \in Seq(Int) /\ Len(more) = Len(lv) + 1 /\ more[Len(more)] = x
      /\ \A k \in 1 .. Len(lv) : more[k] = lv[k]
  BY <1>2, <1>4
<1> HIDE DEF more
<1>10. ASSUME Whole(s0) PROVE Steps(more, StepSize(s0))
  <2> SUFFICES ASSUME NEW k \in 2 .. Len(more)
               PROVE  Diff(more[k], more[k - 1]) <= StepSize(s0)
    BY DEF Steps
  <2>1. CASE k = Len(lv) + 1
    <3>0. k = Len(more) /\ k - 1 = Len(lv) /\ Len(lv) \in 1 .. Len(lv)
      BY <1>2, <1>9, <2>1
    <3>1. more[k] = x /\ more[k - 1] = Level(s.curr)
      BY <1>6, <1>9, <3>0
    <3>2. QED
      BY <1>3, <1>5, <1>7, <1>10, <3>1
  <2>2. CASE k \in 2 .. Len(lv)
    <3>0. k \in 1 .. Len(lv) /\ k - 1 \in 1 .. Len(lv)
      BY <1>2, <2>2
    <3>1. more[k] = lv[k] /\ more[k - 1] = lv[k - 1]
      BY <1>9, <3>0
    <3>2. QED
      BY <1>7, <1>10, <2>2, <3>1 DEF Steps
  <2>3. QED
    BY <1>2, <1>9, <2>1, <2>2
<1>11. Toned(a).s = e /\ Toned(a).levels = more
  BY <1>1
<1>12. Toned(a) \in [s : Tone, levels : Seq(Int)]
  BY <1>1, <1>3, <1>9
<1>13. Len(more) > 0
  BY <1>2, <1>9
<1>14. Heard(s0, Toned(a))
  BY <1>3, <1>7, <1>8, <1>9, <1>10, <1>11, <1>13 DEF Heard, x
<1>15. QED
  BY <1>12, <1>14

(* The loop of SpotTone.                                                   *)
LEMMA BlockHeard ==
  ASSUME st \in Tone, Shaped(st)
  PROVE  Heard(st, SpotTone)
<1> DEFINE N == SpotBlock
           x == Level(st.curr)
           base == [s |-> st, levels |-> <<x>>]
           S == {a \in [s : Tone, levels : Seq(Int)] : Heard(st, a)}
           turn == [a \in S |-> Toned(a)]
           Loops(f) == f = [n \in 0 .. N |-> IF n = 0 THEN base ELSE Toned(f[n - 1])]
<1>1. N \in Nat
  BY SpotAssumption
<1>2. base \in S
  <2>1. x \in Int
    BY ToneFields, LevelIsInt
  <2>2. base \in [s : Tone, levels : Seq(Int)] /\ base.s = st /\ base.levels = <<x>>
    <3> HIDE DEF x
    <3>1. <<x>> \in Seq(Int)
      BY <2>1
    <3>2. QED
      BY <3>1
  <2>3. Len(<<x>>) = 1 /\ <<x>>[1] = x /\ <<x>> \in Seq(Int)
    <3> HIDE DEF x
    <3>1. QED
      BY <2>1
  <2>4. Steps(<<x>>, StepSize(st))
    BY <2>3 DEF Steps
  <2> HIDE DEF base
  <2>5. Heard(st, base)
    BY <2>2, <2>3, <2>4 DEF Heard, x
  <2>6. QED
    BY <2>2, <2>5
<1>3. \A a \in S : Toned(a) \in S
  BY OneTurn
<1>4. turn \in [S -> S] /\ \A a \in S : turn[a] = Toned(a)
  <2> HIDE DEF S
  <2>1. QED
    BY <1>3
<1>5. \A a \in S : Heard(st, a)
  OBVIOUS
<1>6. SpotTone = (CHOOSE f : Loops(f))[N]
  BY DEF SpotTone
<1> HIDE DEF N, x, base, S, turn
<1>7. PICK g \in [0 .. N -> S] : g[0] = base /\ \A n \in 1 .. N : g[n] = turn[g[n - 1]]
  <2>1. Turns(S, N, base, turn)
    BY <1>1, <1>2, <1>4, Recursion
  <2>2. QED
    BY <2>1 DEF Turns
<1>8. \A n \in 1 .. N : g[n] = Toned(g[n - 1])
  <2> SUFFICES ASSUME NEW n \in 1 .. N PROVE g[n] = Toned(g[n - 1])
    OBVIOUS
  <2>1. g[n - 1] \in S
    BY <1>1, <1>7
  <2>2. QED
    BY <1>4, <1>7, <2>1
<1>9. Loops(g)
  <2>1. \A n \in 0 .. N : g[n] = IF n = 0 THEN base ELSE Toned(g[n - 1])
    BY <1>1, <1>7, <1>8
  <2>2. QED
    BY <1>7, <2>1
<1> DEFINE f == CHOOSE h : Loops(h)
<1>10. Loops(f)
  <2> HIDE DEF Loops
  <2>1. QED
    BY <1>9
<1> HIDE DEF f
<1>11. f[0] = base /\ \A n \in 1 .. N : f[n] = Toned(f[n - 1])
  BY <1>1, <1>10
<1> DEFINE Q == {n \in Nat : n <= N => f[n] \in S}
<1>12. 0 \in Q
  BY <1>2, <1>11
<1>13. ASSUME NEW n \in Nat, n \in Q PROVE n + 1 \in Q
  <2> SUFFICES ASSUME n + 1 <= N PROVE f[n + 1] \in S
    OBVIOUS
  <2>1. f[n] \in S /\ n + 1 \in 1 .. N /\ (n + 1) - 1 = n
    BY <1>1, <1>13
  <2>2. QED
    BY <1>3, <1>11, <2>1
<1> HIDE DEF Q
<1>14. N \in Q
  BY <1>1, <1>12, <1>13, Induction
<1>15. f[N] \in S
  BY <1>1, <1>14 DEF Q
<1>16. QED
  BY <1>5, <1>6, <1>15 DEF f

(* The inductive invariant: a tone that is on is in one of the three       *)
(* stages that sound, one that is off is silent, and a smooth one is       *)
(* whole.                                                                  *)
SpotInv ==
  /\ st \in Tone /\ Shaped(st) /\ levels \in Seq(Int) /\ Len(levels) > 0
  /\ flag \in BOOLEAN /\ smooth \in BOOLEAN
  /\ flag => st.stage \in {"RISE", "STDY", "FALL"}
  /\ ~flag => st.curr = 0 /\ levels[Len(levels)] = 0
  /\ smooth => Steps(levels, StepSize(st))
  /\ smooth /\ flag => Whole(st)

LEMMA SpotBegins == SpotInit => SpotInv
<1> SUFFICES ASSUME SpotInit PROVE SpotInv
  OBVIOUS
<1>1. PICK w \in Lengths :
        st = [stage |-> "IDLE", curr |-> 0, rise |-> w, fall |-> w,
              riseWant |-> 0, riseHave |-> 0, fallWant |-> 0, fallHave |-> 0]
  BY DEF SpotInit
<1>2. w \in Spans /\ 0 \in Spans /\ "IDLE" \in Stages
  BY DEF Spans, Stages
<1>3. st \in Tone /\ Shaped(st) /\ st.curr = 0
  BY <1>1, <1>2 DEF Tone, Shaped
<1>4. levels = <<0>> /\ flag = FALSE /\ smooth = TRUE
  BY DEF SpotInit
<1>5. levels \in Seq(Int) /\ Len(levels) = 1 /\ levels[1] = 0
  BY <1>4
<1>6. Steps(levels, StepSize(st))
  BY <1>5 DEF Steps
<1>7. ~flag /\ smooth /\ flag \in BOOLEAN /\ smooth \in BOOLEAN
  BY <1>4
<1>8. levels \in Seq(Int) /\ Len(levels) > 0 /\ levels[Len(levels)] = 0
  BY <1>5
<1>9. QED
  BY <1>3, <1>6, <1>7, <1>8 DEF SpotInv

LEMMA ValsKeep ==
  ASSUME SpotInv, NEW up \in Lengths, NEW down \in Lengths, setSpotToneGenVals(up, down)
  PROVE  SpotInv'
<1>1. st' = [st EXCEPT !.rise = up, !.fall = down] /\ UNCHANGED <<flag, levels, smooth>>
  BY DEF setSpotToneGenVals
<1>2. up \in Spans /\ down \in Spans /\ st \in Tone
  BY DEF Spans, SpotInv
<1>3. /\ st' \in Tone /\ st'.stage = st.stage /\ st'.curr = st.curr
      /\ st'.riseWant = st.riseWant /\ st'.riseHave = st.riseHave
      /\ st'.fallWant = st.fallWant /\ st'.fallHave = st.fallHave
  BY <1>1, <1>2 DEF Tone
<1>4. Shaped(st) => Shaped(st')
  BY <1>3 DEF Shaped
<1>5. (Whole(st) => Whole(st')) /\ StepSize(st') = StepSize(st)
  BY <1>3 DEF Whole, StepSize
<1>6. QED
  BY <1>1, <1>3, <1>4, <1>5 DEF SpotInv

LEMMA OnKeeps ==
  ASSUME SpotInv, SpotToneOn
  PROVE  SpotInv'
<1>1. /\ st' = [st EXCEPT !.stage = "RISE", !.curr = 0, !.riseWant = st.rise, !.riseHave = 0,
                          !.fallWant = st.fall, !.fallHave = 0]
      /\ flag' = TRUE /\ smooth' = (Level(st.curr) = 0) /\ levels' = <<0>>
  BY DEF SpotToneOn
<1>2. st \in Tone /\ st.rise \in Spans /\ st.fall \in Spans /\ "RISE" \in Stages
  BY DEF SpotInv, Tone, Stages
<1> DEFINE u == st.rise
           d == st.fall
<1>3. st' = [st EXCEPT !.stage = "RISE", !.curr = 0, !.riseWant = u, !.riseHave = 0,
                       !.fallWant = d, !.fallHave = 0]
  BY <1>1
<1>4. u \in Spans /\ d \in Spans
  BY <1>2
<1> HIDE DEF u, d
<1>5. /\ st' \in Tone /\ st'.stage = "RISE" /\ st'.curr = 0
      /\ st'.riseWant = u /\ st'.riseHave = 0 /\ st'.fallWant = d /\ st'.fallHave = 0
  <2> DEFINE v == [st EXCEPT !.stage = "RISE"]
             z == [v EXCEPT !.curr = 0]
             x == [z EXCEPT !.riseWant = u]
             y == [x EXCEPT !.riseHave = 0, !.fallWant = d, !.fallHave = 0]
  <2>1. st' = y
    BY <1>3, Zenon
  <2>3. v \in Tone /\ v.stage = "RISE"
    BY <1>2 DEF Tone
  <2> HIDE DEF v
  <2>4. z \in Tone /\ z.stage = "RISE" /\ z.curr = 0
    BY <2>3 DEF Tone
  <2> HIDE DEF z
  <2>2. x \in Tone /\ x.stage = "RISE" /\ x.curr = 0 /\ x.riseWant = u
    BY <1>4, <2>4 DEF Tone
  <2> HIDE DEF x
  <2>5. /\ y \in Tone /\ y.stage = x.stage /\ y.curr = x.curr /\ y.riseWant = x.riseWant
        /\ y.riseHave = 0 /\ y.fallWant = d /\ y.fallHave = 0
    BY <1>4, <2>2 DEF Tone
  <2> HIDE DEF y
  <2>6. QED
    BY <2>1, <2>2, <2>5
<1>6. u \in Nat /\ Height(0, u) = 0
  BY <1>4, SpanFacts, OneStep
<1>7. Shaped(st') /\ Whole(st')
  BY <1>5, <1>6 DEF Shaped, Whole
<1>8. levels' \in Seq(Int) /\ Len(levels') = 1
  BY <1>1
<1>9. Steps(levels', StepSize(st'))
  BY <1>8 DEF Steps
<1>10. QED
  BY <1>1, <1>5, <1>7, <1>8, <1>9 DEF SpotInv

LEMMA OffKeeps ==
  ASSUME SpotInv, SpotToneOff
  PROVE  SpotInv'
<1>1. /\ st' = [st EXCEPT !.stage = "FALL"] /\ UNCHANGED <<flag, levels>>
      /\ smooth' = (smooth /\ st.stage # "RISE")
  BY DEF SpotToneOff
<1>2. st \in Tone /\ "FALL" \in Stages /\ Full \in Nat
  BY SpotAssumption DEF SpotInv, Stages
<1>3. /\ st' \in Tone /\ st'.stage = "FALL" /\ st'.curr = st.curr
      /\ st'.riseWant = st.riseWant /\ st'.fallWant = st.fallWant /\ st'.fallHave = st.fallHave
  BY <1>1, <1>2 DEF Tone
<1>4. Shaped(st') /\ StepSize(st') = StepSize(st)
  BY <1>3 DEF Shaped, StepSize
<1>5. ASSUME smooth', flag PROVE Whole(st')
  <2>1. st.stage \in {"STDY", "FALL"} /\ Shaped(st) /\ Whole(st)
    BY <1>1, <1>5 DEF SpotInv
  <2>2. CASE st.stage = "STDY"
    <3>1. st.curr = Full /\ st.fallHave = 0
      BY <2>1, <2>2 DEF Shaped
    <3>2. st.fallWant \in Spans
      BY <1>2, ToneFields
    <3>3. st.fallWant \in Nat /\ Height(0, st.fallWant) = 0
      BY <3>2, SpanFacts, OneStep
    <3>4. QED
      BY <1>2, <1>3, <3>1, <3>3 DEF Whole
  <2>3. CASE st.stage = "FALL"
    BY <1>3, <2>1, <2>3 DEF Whole
  <2>4. QED
    BY <2>1, <2>2, <2>3
<1>6. QED
  BY <1>1, <1>3, <1>4, <1>5 DEF SpotInv

LEMMA BlockKeeps ==
  ASSUME SpotInv, NEW set \in BOOLEAN, SpotBlockDone(set)
  PROVE  SpotInv'
<1>1. /\ flag /\ st' = SpotTone.s /\ levels' = SpotTone.levels
      /\ flag' = (SpotTone.s.stage # "HOLD") /\ smooth' = smooth
  BY DEF SpotBlockDone
<1>2. Heard(st, SpotTone)
  BY BlockHeard DEF SpotInv
<1>3. /\ st' \in Tone /\ levels' \in Seq(Int) /\ Len(levels') > 0
      /\ Shaped(st') /\ levels'[Len(levels')] = Level(st'.curr)
      /\ st'.riseWant = st.riseWant /\ st'.fallWant = st.fallWant
      /\ Whole(st) => Whole(st') /\ Steps(levels', StepSize(st))
      /\ st'.stage = "IDLE" => st.stage = "IDLE"
  BY <1>1, <1>2 DEF Heard
<1>4. StepSize(st') = StepSize(st)
  BY <1>3 DEF StepSize
<1>5. smooth => Whole(st)
  BY <1>1 DEF SpotInv
<1>6. st'.stage = "HOLD" => st'.curr = 0 /\ Level(st'.curr) = 0
  <2>1. Level(0) = 0
    BY SpotAssumption DEF Level
  <2>2. QED
    BY <1>3, <2>1 DEF Shaped
<1>7. flag' = (st'.stage # "HOLD") /\ flag' \in BOOLEAN /\ smooth' \in BOOLEAN
  BY <1>1 DEF SpotInv
<1>9. flag' => st'.stage \in {"RISE", "STDY", "FALL"}
  <2>1. st'.stage \in Stages /\ st.stage # "IDLE"
    BY <1>1, <1>3, ToneFields DEF SpotInv
  <2>2. QED
    BY <1>3, <1>7, <2>1 DEF Stages
<1>8. QED
  BY <1>1, <1>3, <1>4, <1>5, <1>6, <1>7, <1>9 DEF SpotInv

(* For any lengths of rise and fall, any block and any number of commands: *)
(* the level of a whole tone never changes by more than a step of its rise *)
(* or its fall, and a tone that the flag says is over has ended in silence *)
(* (spottone.c, do_rx_post).                                               *)
THEOREM SpotIsSmooth == SpotSpec => []SpotNoClick
<1>1. SpotInv /\ [SpotNext]_spotVars => SpotInv'
  <2> SUFFICES ASSUME SpotInv, [SpotNext]_spotVars PROVE SpotInv'
    OBVIOUS
  <2>1. CASE SpotNext
    BY <2>1, ValsKeep, OnKeeps, OffKeeps, BlockKeeps DEF SpotNext
  <2>2. CASE UNCHANGED spotVars
    <3>1. st' = st /\ flag' = flag /\ smooth' = smooth /\ levels' = levels
      BY <2>2 DEF spotVars
    <3>2. QED
      BY <3>1 DEF SpotInv
  <2>3. QED
    BY <2>1, <2>2
<1>2. SpotInv => SpotNoClick
  <2> SUFFICES ASSUME SpotInv PROVE SpotNoClick
    OBVIOUS
  <2>1. Last(levels) = levels[Len(levels)]
    BY DEF Last
  <2>2. QED
    BY <2>1 DEF SpotInv, SpotNoClick, Steps, StepSize
<1>3. QED
  BY SpotBegins, <1>1, <1>2, PTL DEF SpotSpec

-----------------------------------------------------------------------------
(* The ring buffers, for every size, request and interleaving.  First      *)
(* pointer arithmetic: with these lemmas in hand the rest never unfolds    *)
(* Mask or ReadSpace.  Then the inductive invariant, and the refinement.   *)
USE SizeAssumption

-----------------------------------------------------------------------------
(* Pointer arithmetic.                                                     *)

LEMMA MaskRange ==
  ASSUME NEW p \in Slots, NEW n \in 0 .. Size
  PROVE  Mask(p + n) \in Slots
  BY DEF Mask, Slots

LEMMA MaskInside ==
  ASSUME NEW p \in Slots, NEW n \in Nat, NEW k \in Nat, k < n, p + n <= Size
  PROVE  Mask(p + k) = p + k
  BY DEF Mask, Slots

LEMMA MaskMask ==
  ASSUME NEW p \in Slots, NEW a \in Nat, NEW b \in Nat, a + b < Size
  PROVE  Mask(Mask(p + a) + b) = Mask(p + a + b)
  BY DEF Mask, Slots

LEMMA MaskInjective ==
  ASSUME NEW p \in Slots, NEW a \in 0 .. Size - 1, NEW b \in 0 .. Size - 1,
         Mask(p + a) = Mask(p + b)
  PROVE  a = b
  BY DEF Mask, Slots

LEMMA ReadSpaceRange ==
  ASSUME NEW w \in Slots, NEW p \in Slots
  PROVE  /\ ReadSpace(w, p) \in 0 .. Size - 1
         /\ w = Mask(p + ReadSpace(w, p))
  BY DEF ReadSpace, Mask, Slots

LEMMA WriteSpaceComplement ==
  ASSUME NEW w \in Slots, NEW p \in Slots
  PROVE  WriteSpace(w, p) = Size - 1 - ReadSpace(w, p)
  BY DEF WriteSpace, ReadSpace, Mask, Slots

LEMMA WriterAdvance ==
  ASSUME NEW w \in Slots, NEW p \in Slots, NEW n \in Nat,
         ReadSpace(w, p) + n <= Size - 1
  PROVE  /\ Mask(w + n) \in Slots
         /\ ReadSpace(Mask(w + n), p) = ReadSpace(w, p) + n
  BY DEF ReadSpace, Mask, Slots

LEMMA ReaderAdvance ==
  ASSUME NEW w \in Slots, NEW p \in Slots, NEW n \in Nat,
         n <= ReadSpace(w, p)
  PROVE  /\ Mask(p + n) \in Slots
         /\ ReadSpace(w, Mask(p + n)) = ReadSpace(w, p) - n
  BY DEF ReadSpace, Mask, Slots

LEMMA Segments ==
  ASSUME NEW p \in Slots, NEW n \in 1 .. Size - 1
  PROVE  /\ FirstSeg(p, n) \in 1 .. n
         /\ SecondSeg(p, n) \in 0 .. n
         /\ FirstSeg(p, n) + SecondSeg(p, n) = n
         /\ p + FirstSeg(p, n) <= Size
         /\ SecondSeg(p, n) > 0 => p + FirstSeg(p, n) = Size
  BY DEF FirstSeg, SecondSeg, Mask, Slots

LEMMA GrantedRange ==
  ASSUME NEW asked \in Nat, NEW free \in Nat
  PROVE  Granted(asked, free) \in Nat /\ Granted(asked, free) <= free
  BY DEF Granted

-----------------------------------------------------------------------------
(* The inductive invariant.                                                *)

RS == ReadSpace(wptr, rptr)

(* What a write call still has to copy.                                    *)
WriterLeft == IF wpc = "copy" THEN wn1 - wi + wn2 ELSE 0

(* Where a reader that has not published is, relative to rptr.             *)
ReaderOffset == IF rmode = "read" THEN 0 ELSE Len(dest) - ri

(* A write call: its segments lie inside the buffer, wrap only at the end, *)
(* and fit in the space that was free.                                     *)
WriterInv ==
  /\ wi <= wdone
  /\ wpc # "copy" => wi = 0
  /\ wpc = "idle" => wdone = 0
  /\ WriterAhead + WriterLeft + RS <= Size - 1
  /\ wpc = "copy" =>
       /\ wpos = IF wmode = "write" THEN wptr ELSE Mask(wptr + (wdone - wi))
       /\ wpos + wn1 <= Size
       /\ wn2 > 0 => wpos + wn1 = Size

(* A read call: the same, within the samples that were there.              *)
ReaderInv ==
  /\ ri <= Len(dest)
  /\ rpc # "copy" => ri = 0
  /\ rpc = "idle" => dest = <<>>
  /\ rpc = "copy" =>
       /\ ReaderOffset + rn1 + rn2 <= RS
       /\ rpos = Mask(rptr + ReaderOffset)
       /\ rpos + rn1 <= Size
       /\ rn2 > 0 => rpos + rn1 = Size
  /\ rpc = "done" => ReaderOffset <= RS

(* The counts agree with the pointers.                                     *)
CountInv == sent - WriterAhead = consumed + ReaderAhead + RS

(* Every sample copied and not yet given back is in its slot.              *)
DataInv ==
  \A d \in 0 .. Size - 1 :
    d < RS + WriterAhead => buf[Mask(rptr + d)] = consumed + ReaderAhead + d + 1

RingInv == TypeOK /\ WriterInv /\ ReaderInv /\ CountInv /\ DataInv /\ InOrder

-----------------------------------------------------------------------------
(* Type correctness needs the segments to stay inside the buffer, so it is *)
(* proved as part of RingInv.                                              *)

LEMMA InitRingInv == Init => RingInv
<1> SUFFICES ASSUME Init PROVE RingInv
  OBVIOUS
<1>1. TypeOK
  BY DEF Init, TypeOK, Slots, WModes, RModes
<1>2. RS = 0
  BY DEF Init, RS, ReadSpace, Mask
<1>3. QED
  BY <1>1, <1>2
  DEF Init, RingInv, WriterInv, ReaderInv, CountInv, DataInv, InOrder,
      WriterAhead, WriterLeft, ReaderAhead, ReaderOffset

LEMMA WriteBeginRingInv ==
  ASSUME RingInv, NEW asked \in 1 .. MaxRequest, NEW mode \in WModes,
         WriteBegin(asked, mode)
  PROVE  RingInv'
<1> DEFINE n == Granted(asked, WriteSpace(wptr, rptr))
<1>1. /\ wptr \in Slots /\ rptr \in Slots
      /\ RS \in 0 .. Size - 1
      /\ WriteSpace(wptr, rptr) = Size - 1 - RS
  BY WriteSpaceComplement, ReadSpaceRange DEF RingInv, TypeOK, RS
<1>2. n \in 1 .. Size - 1 - RS
  BY <1>1, GrantedRange, RequestAssumption DEF WriteBegin
<1>3. /\ FirstSeg(wptr, n) \in 1 .. n
      /\ SecondSeg(wptr, n) \in 0 .. n
      /\ FirstSeg(wptr, n) + SecondSeg(wptr, n) = n
      /\ wptr + FirstSeg(wptr, n) <= Size
      /\ SecondSeg(wptr, n) > 0 => wptr + FirstSeg(wptr, n) = Size
  BY <1>1, <1>2, Segments
<1> HIDE DEF n
<1>4. /\ wn1' = FirstSeg(wptr, n) /\ wn2' = SecondSeg(wptr, n)
      /\ wpc = "idle" /\ wpc' = "copy" /\ wmode' = mode
      /\ wpos' = wptr /\ wi' = 0 /\ wdone' = 0
      /\ UNCHANGED <<buf, wptr, sent, rvars>>
  BY DEF WriteBegin, n
<1>5. RS' = RS /\ ReaderAhead' = ReaderAhead /\ ReaderOffset' = ReaderOffset
  BY <1>4 DEF rvars, RS, ReaderAhead, ReaderOffset
<1>6. WriterAhead = 0 /\ WriterAhead' = 0 /\ WriterLeft' = n
  BY <1>2, <1>3, <1>4
  DEF RingInv, TypeOK, WriterInv, WriterAhead, WriterLeft, WModes
<1>7. TypeOK'
  <2>1. wn1' \in 0 .. Size /\ wn2' \in 0 .. Size /\ wi' \in 0 .. wn1'
    BY <1>1, <1>2, <1>3, <1>4
  <2>2. wpos' \in Slots /\ wdone' \in Nat
    BY <1>1, <1>4
  <2>3. QED
    BY <1>4, <2>1, <2>2 DEF RingInv, TypeOK, rvars
<1>8. Mask(wptr + 0) = wptr
  BY <1>1 DEF Mask, Slots
<1>9. WriterInv'
  BY <1>1, <1>2, <1>3, <1>4, <1>5, <1>6, <1>8 DEF WriterInv, Slots
<1>10. ReaderInv'
  BY <1>4, <1>5 DEF RingInv, ReaderInv, rvars
<1>11. CountInv' /\ DataInv' /\ InOrder'
  BY <1>4, <1>5, <1>6 DEF RingInv, CountInv, DataInv, InOrder, rvars
<1>12. QED
  BY <1>7, <1>9, <1>10, <1>11 DEF RingInv

LEMMA WriteCopyRingInv == ASSUME RingInv, WriteCopy PROVE RingInv'
<1> DEFINE slot == wpos + wi
<1>1. /\ wptr \in Slots /\ rptr \in Slots /\ slot \in Slots
      /\ RS \in 0 .. Size - 1
      /\ wptr = Mask(rptr + RS)
      /\ wi \in Nat /\ wdone \in Nat /\ wn1 \in Nat /\ wn2 \in Nat
      /\ wi < wn1 /\ sent \in Nat /\ wi <= wdone
  BY ReadSpaceRange
  DEF RingInv, TypeOK, WriterInv, WriteCopy, RS, Slots
<1>2. /\ wpc = "copy" /\ buf' = [buf EXCEPT ![slot] = sent + 1]
      /\ sent' = sent + 1 /\ wi' = wi + 1 /\ wdone' = wdone + 1
      /\ UNCHANGED <<wptr, wpc, wmode, wpos, wn1, wn2, rvars>>
  BY DEF WriteCopy
<1>3. RS' = RS /\ ReaderAhead' = ReaderAhead /\ ReaderOffset' = ReaderOffset
  BY <1>2 DEF rvars, RS, ReaderAhead, ReaderOffset
<1>4. /\ WriterAhead' = WriterAhead + 1 /\ WriterLeft' = WriterLeft - 1
      /\ WriterAhead \in Nat /\ WriterLeft \in Nat /\ WriterLeft >= 1
      /\ WriterAhead + WriterLeft + RS <= Size - 1
  BY <1>1, <1>2 DEF RingInv, WriterInv, WriterAhead, WriterLeft
<1>5. slot = Mask(rptr + (RS + WriterAhead))
  <2>1. CASE wmode = "write"
    <3>1. wpos = wptr /\ WriterAhead = wi /\ wptr + wi < Size
      BY <1>1, <1>2, <2>1
      DEF RingInv, WriterInv, WriterAhead, Slots
    <3>2. slot = Mask(wptr + wi)
      BY <1>1, <3>1 DEF Mask, Slots
    <3>3. RS \in Nat /\ wi \in Nat /\ RS + wi < Size
      BY <1>1, <1>4, <3>1
    <3>4. Mask(Mask(rptr + RS) + wi) = Mask(rptr + RS + wi)
      BY <1>1, <3>3, MaskMask
    <3>5. rptr + RS + wi = rptr + (RS + WriterAhead)
      BY <1>1, <3>1 DEF Slots
    <3>6. QED
      BY <1>1, <3>2, <3>4, <3>5
  <2>2. CASE wmode # "write"
    <3>1. wpos = Mask(wptr + (wdone - wi)) /\ WriterAhead = wdone
      BY <1>2, <2>2 DEF RingInv, WriterInv, WriterAhead
    <3>2. slot = Mask(slot)
      BY <1>1 DEF Mask, Slots
    <3>3. slot = Mask(wptr + wdone)
      <4>1. wdone - wi \in Nat /\ (wdone - wi) + wi < Size
        BY <1>1, <1>4, <3>1
      <4>2. Mask(Mask(wptr + (wdone - wi)) + wi) = Mask(wptr + (wdone - wi) + wi)
        BY <1>1, <4>1, MaskMask
      <4>3. wptr + (wdone - wi) + wi = wptr + wdone
        BY <1>1 DEF Slots
      <4>4. QED
        BY <3>1, <3>2, <4>2, <4>3
    <3>4. RS \in Nat /\ wdone \in Nat /\ RS + wdone < Size
      BY <1>1, <1>4, <3>1
    <3>5. Mask(Mask(rptr + RS) + wdone) = Mask(rptr + RS + wdone)
      BY <1>1, <3>4, MaskMask
    <3>6. rptr + RS + wdone = rptr + (RS + WriterAhead)
      BY <1>1, <3>1 DEF Slots
    <3>7. QED
      BY <1>1, <3>3, <3>5, <3>6
  <2>3. QED
    BY <2>1, <2>2
<1> HIDE DEF slot
<1>6. TypeOK'
  BY <1>1, <1>2 DEF RingInv, TypeOK, rvars
<1>7. WriterInv'
  BY <1>1, <1>2, <1>3, <1>4 DEF RingInv, WriterInv
<1>8. ReaderInv' /\ InOrder'
  BY <1>2, <1>3 DEF RingInv, ReaderInv, InOrder, rvars
<1>9. CountInv'
  BY <1>1, <1>2, <1>3, <1>4 DEF RingInv, CountInv, rvars
<1>10. DataInv'
  <2> SUFFICES ASSUME NEW d \in 0 .. Size - 1, d < RS + WriterAhead + 1
               PROVE  buf'[Mask(rptr + d)] = consumed + ReaderAhead + d + 1
    BY <1>1, <1>2, <1>3, <1>4 DEF DataInv, rvars
  <2>1. Mask(rptr + d) \in Slots /\ buf \in [Slots -> Nat]
    BY <1>1, MaskRange DEF RingInv, TypeOK
  <2>2. CASE d = RS + WriterAhead
    <3>1. ReaderAhead \in Int /\ consumed \in Int
      BY DEF RingInv, TypeOK, ReaderAhead
    <3>2. sent = consumed + ReaderAhead + d
      BY <1>1, <1>4, <2>2, <3>1 DEF RingInv, CountInv
    <3>3. Mask(rptr + d) = slot
      BY <1>5, <2>2
    <3>4. QED
      BY <1>1, <1>2, <2>1, <3>2, <3>3
  <2>3. CASE d < RS + WriterAhead
    <3>1. RS + WriterAhead \in 0 .. Size - 1 /\ RS + WriterAhead # d
      BY <1>1, <1>4, <2>3
    <3>2. Mask(rptr + d) # slot
      BY <1>1, <1>5, <3>1, MaskInjective
    <3>3. QED
      BY <1>2, <2>1, <2>3, <3>2 DEF RingInv, DataInv
  <2>4. QED
    BY <1>1, <1>4, <2>2, <2>3
<1>11. QED
  BY <1>6, <1>7, <1>8, <1>9, <1>10 DEF RingInv

LEMMA WriteSegmentRingInv == ASSUME RingInv, WriteSegment PROVE RingInv'
<1>1. /\ wptr \in Slots /\ rptr \in Slots /\ RS \in 0 .. Size - 1
      /\ wdone \in Nat /\ wn1 \in 0 .. Size /\ wn2 \in 0 .. Size
      /\ wi = wn1 /\ wi <= wdone /\ wpc = "copy"
  BY ReadSpaceRange DEF RingInv, TypeOK, WriterInv, WriteSegment, RS
<1>2. /\ wptr' = IF wmode = "write" THEN Mask(wpos + wn1) ELSE wptr
      /\ wpos' = Mask(wpos + wn1)
      /\ wn1' = wn2 /\ wn2' = 0 /\ wi' = 0
      /\ wpc' = IF wn2 = 0 THEN "done" ELSE "copy"
      /\ UNCHANGED <<buf, wmode, wdone, sent, rvars>>
  BY DEF WriteSegment
<1>3. /\ ReaderAhead' = ReaderAhead /\ ReaderOffset' = ReaderOffset
      /\ rptr' = rptr
  BY <1>2 DEF rvars, ReaderAhead, ReaderOffset
<1>4. /\ WriterAhead + wn2 + RS <= Size - 1
      /\ WriterAhead = IF wmode = "write" THEN wn1 ELSE wdone
      /\ WriterAhead' = IF wmode = "write" THEN 0 ELSE wdone
      /\ WriterLeft' = wn2
  BY <1>1, <1>2 DEF RingInv, WriterInv, WriterAhead, WriterLeft
<1>5. /\ wpos \in Slots /\ wpos + wn1 <= Size
      /\ wn2 > 0 => wpos + wn1 = Size
      /\ wpos = IF wmode = "write" THEN wptr ELSE Mask(wptr + (wdone - wn1))
  BY <1>1 DEF RingInv, WriterInv, TypeOK
<1>6. /\ Mask(wpos + wn1) \in Slots
      /\ wn2 > 0 => Mask(wpos + wn1) = 0
  BY <1>1, <1>5 DEF Mask, Slots
(* The published pointer gains what the writer is no longer ahead of it.   *)
<1> DEFINE step == IF wmode = "write" THEN wn1 ELSE 0
<1>7. /\ step \in Nat /\ WriterAhead \in Nat
      /\ RS' = RS + step /\ WriterAhead' = WriterAhead - step
      /\ WriterAhead - step \in Nat
  <2>1. CASE wmode = "write"
    <3>1. wptr' = Mask(wptr + wn1) /\ RS + wn1 <= Size - 1
      BY <1>1, <1>2, <1>4, <1>5, <2>1
    <3>2. ReadSpace(wptr', rptr) = RS + wn1
      BY <1>1, <3>1, WriterAdvance DEF RS
    <3>3. QED
      BY <1>1, <1>3, <1>4, <2>1, <3>2 DEF RS
  <2>2. CASE wmode # "write"
    BY <1>1, <1>2, <1>3, <1>4, <2>2 DEF RS
  <2>3. QED
    BY <2>1, <2>2
<1>8. wptr' \in Slots
  BY <1>1, <1>2, <1>6
<1> HIDE DEF step
<1>9. TypeOK'
  BY <1>1, <1>2, <1>6, <1>8 DEF RingInv, TypeOK, rvars
<1>10. WriterInv'
  <2>1. WriterAhead' + WriterLeft' + RS' <= Size - 1
    <3>1. (WriterAhead - step) + wn2 + (RS + step) <= Size - 1
      BY <1>1, <1>4, <1>7
    <3>2. QED
      BY <1>4, <1>7, <3>1
  <2>2. wmode = "write" => wpos' = wptr'
    BY <1>2
  <2>3. wmode # "write" => wpos' = Mask(wptr' + (wdone' - wi'))
    <3> SUFFICES ASSUME wmode # "write"
                 PROVE  Mask(wpos + wn1) = Mask(wptr + wdone)
      BY <1>1, <1>2
    <3>1. wdone - wn1 \in Nat /\ (wdone - wn1) + wn1 < Size
      BY <1>1, <1>4
    <3>2. Mask(Mask(wptr + (wdone - wn1)) + wn1) = Mask(wptr + (wdone - wn1) + wn1)
      BY <1>1, <3>1, MaskMask
    <3>3. wptr + (wdone - wn1) + wn1 = wptr + wdone
      BY <1>1 DEF Slots
    <3>4. QED
      BY <1>5, <3>2, <3>3
  <2>4. wpc' = "copy" => wpos' + wn1' <= Size
    BY <1>1, <1>2, <1>6
  <2>5. QED
    BY <1>1, <1>2, <2>1, <2>2, <2>3, <2>4 DEF RingInv, WriterInv
<1>11. RS <= RS + step
  BY <1>1, <1>7
<1>12. ReaderInv'
  <2>1. UNCHANGED <<rpc, rmode, rpos, rn1, rn2, ri, dest, rptr>>
    BY <1>2 DEF rvars
  <2>2. rn1 \in Nat /\ rn2 \in Nat /\ ri \in Nat /\ ReaderOffset \in Int
    BY DEF RingInv, TypeOK, ReaderOffset
  <2>3. /\ rpc = "copy" => ReaderOffset + rn1 + rn2 <= RS + step
        /\ rpc = "done" => ReaderOffset <= RS + step
    BY <1>1, <1>7, <1>11, <2>2 DEF RingInv, ReaderInv
  <2>4. QED
    BY <1>3, <1>7, <2>1, <2>3 DEF RingInv, ReaderInv
<1>13. CountInv'
  <2>1. sent \in Int /\ consumed \in Int /\ ReaderAhead \in Int
    BY DEF RingInv, TypeOK, ReaderAhead
  <2>2. sent - (WriterAhead - step) = consumed + ReaderAhead + (RS + step)
    BY <1>1, <1>7, <2>1 DEF RingInv, CountInv
  <2>3. QED
    BY <1>2, <1>3, <1>7, <2>2 DEF CountInv, rvars
<1>14. DataInv' /\ InOrder'
  <2>1. (RS + step) + (WriterAhead - step) = RS + WriterAhead
    BY <1>1, <1>7
  <2>2. QED
    BY <1>2, <1>3, <1>7, <2>1 DEF RingInv, DataInv, InOrder, rvars
<1>15. QED
  BY <1>9, <1>10, <1>12, <1>13, <1>14 DEF RingInv

LEMMA WriteReturnRingInv == ASSUME RingInv, WriteReturn PROVE RingInv'
<1>1. /\ wptr \in Slots /\ rptr \in Slots /\ RS \in 0 .. Size - 1
      /\ wdone \in Nat /\ wi = 0 /\ wpc = "done"
      /\ WriterAhead = IF wmode = "write" THEN 0 ELSE wdone
      /\ WriterAhead + RS <= Size - 1
      /\ wmode \in {"write", "vector"}
  BY ReadSpaceRange
  DEF RingInv, TypeOK, WriterInv, WriteReturn, RS, WriterAhead, WriterLeft, WModes
<1>2. /\ wptr' = IF wmode = "vector" THEN Mask(wptr + wdone) ELSE wptr
      /\ wpc' = "idle" /\ wdone' = 0 /\ wi' = 0
      /\ UNCHANGED <<buf, wmode, wpos, wn1, wn2, wi, sent, rvars>>
  BY <1>1 DEF WriteReturn
<1>3. /\ ReaderAhead' = ReaderAhead /\ ReaderOffset' = ReaderOffset
      /\ rptr' = rptr /\ WriterAhead' = 0 /\ WriterLeft' = 0
  BY <1>1, <1>2 DEF rvars, ReaderAhead, ReaderOffset, WriterAhead, WriterLeft
<1>4. RS' = RS + WriterAhead /\ wptr' \in Slots
  <2>1. CASE wmode = "vector"
    BY <1>1, <1>2, <1>3, <2>1, WriterAdvance DEF RS
  <2>2. CASE wmode = "write"
    BY <1>1, <1>2, <1>3, <2>2 DEF RS
  <2>3. QED
    BY <1>1, <2>1, <2>2
<1>5. TypeOK'
  BY <1>1, <1>2, <1>4 DEF RingInv, TypeOK, rvars
<1>6. WriterInv'
  BY <1>1, <1>2, <1>3, <1>4 DEF RingInv, WriterInv
<1>7. ReaderInv'
  <2>1. UNCHANGED <<rpc, rmode, rpos, rn1, rn2, ri, dest, rptr>>
    BY <1>2 DEF rvars
  <2>2. rn1 \in Nat /\ rn2 \in Nat /\ ri \in Nat /\ ReaderOffset \in Int
    BY DEF RingInv, TypeOK, ReaderOffset
  <2>3. QED
    BY <1>1, <1>3, <1>4, <2>1, <2>2 DEF RingInv, ReaderInv
<1>8. CountInv'
  <2>1. sent \in Int /\ consumed \in Int /\ ReaderAhead \in Int
    BY DEF RingInv, TypeOK, ReaderAhead
  <2>2. WriterAhead \in Int /\ sent = consumed + ReaderAhead + RS + WriterAhead
    BY <1>1, <2>1 DEF RingInv, CountInv
  <2>3. sent' = sent /\ consumed' = consumed
    BY <1>2 DEF rvars
  <2>4. ReaderAhead' = ReaderAhead /\ WriterAhead' = 0 /\ RS' = RS + WriterAhead
    BY <1>3, <1>4
  <2>5. RS \in Int
    BY <1>1
  <2>6. sent - 0 = consumed + ReaderAhead + (RS + WriterAhead)
    BY <2>1, <2>2, <2>5
  <2>7. QED
    BY <2>3, <2>4, <2>6 DEF CountInv
<1>9. DataInv' /\ InOrder'
  BY <1>1, <1>2, <1>3, <1>4 DEF RingInv, DataInv, InOrder, rvars
<1>10. QED
  BY <1>5, <1>6, <1>7, <1>8, <1>9 DEF RingInv

LEMMA ReadBeginRingInv ==
  ASSUME RingInv, NEW asked \in 1 .. MaxRequest, NEW mode \in RModes,
         ReadBegin(asked, mode)
  PROVE  RingInv'
<1> DEFINE n == Granted(asked, RS)
<1>1. /\ wptr \in Slots /\ rptr \in Slots /\ RS \in 0 .. Size - 1
      /\ rpc = "idle" /\ dest = <<>> /\ ri = 0 /\ consumed \in Nat
  BY ReadSpaceRange DEF RingInv, TypeOK, ReaderInv, ReadBegin, RS
<1>2. n \in 1 .. Size - 1 /\ n <= RS
  <2>1. asked \in Nat /\ RS \in Nat
    BY <1>1, RequestAssumption
  <2>2. n \in Nat /\ n <= RS
    BY <2>1, GrantedRange
  <2>3. n > 0
    BY DEF ReadBegin, RS
  <2>4. QED
    BY <1>1, <2>2, <2>3
<1>3. /\ FirstSeg(rptr, n) \in 1 .. n
      /\ SecondSeg(rptr, n) \in 0 .. n
      /\ FirstSeg(rptr, n) + SecondSeg(rptr, n) = n
      /\ rptr + FirstSeg(rptr, n) <= Size
      /\ SecondSeg(rptr, n) > 0 => rptr + FirstSeg(rptr, n) = Size
  BY <1>1, <1>2, Segments
<1> HIDE DEF n
<1>4. /\ rn1' = FirstSeg(rptr, n) /\ rn2' = SecondSeg(rptr, n)
      /\ rpc' = "copy" /\ rmode' = mode /\ rpos' = rptr
      /\ ri' = 0 /\ dest' = <<>>
      /\ UNCHANGED <<buf, wvars, rptr, consumed>>
  BY DEF ReadBegin, n, RS
<1>5. /\ RS' = RS /\ WriterAhead' = WriterAhead /\ WriterLeft' = WriterLeft
      /\ ReaderAhead = 0 /\ ReaderAhead' = 0 /\ ReaderOffset' = 0
  BY <1>1, <1>4
  DEF wvars, RS, WriterAhead, WriterLeft, ReaderAhead, ReaderOffset
<1>6. TypeOK'
  <2>1. rn1' \in 0 .. Size /\ rn2' \in 0 .. Size /\ ri' \in 0 .. rn1'
    BY <1>2, <1>3, <1>4
  <2>2. QED
    BY <1>1, <1>4, <2>1 DEF RingInv, TypeOK, wvars
<1>7. WriterInv'
  BY <1>4, <1>5 DEF RingInv, WriterInv, wvars
<1>8. ReaderInv'
  <2>1. Mask(rptr + 0) = rptr
    BY <1>1 DEF Mask, Slots
  <2>2. ReaderOffset' + rn1' + rn2' <= RS'
    BY <1>1, <1>2, <1>3, <1>4, <1>5
  <2>3. QED
    BY <1>3, <1>4, <1>5, <2>1, <2>2 DEF ReaderInv
<1>9. CountInv' /\ DataInv' /\ InOrder'
  BY <1>1, <1>4, <1>5 DEF RingInv, CountInv, DataInv, InOrder, wvars
<1>10. QED
  BY <1>6, <1>7, <1>8, <1>9 DEF RingInv

LEMMA ReadCopyRingInv == ASSUME RingInv, ReadCopy PROVE RingInv'
<1> DEFINE sample == buf[rpos + ri]
<1>1. /\ wptr \in Slots /\ rptr \in Slots /\ RS \in 0 .. Size - 1
      /\ rpc = "copy" /\ ri \in Nat /\ rn1 \in Nat /\ rn2 \in Nat /\ ri < rn1
      /\ dest \in Seq(Nat) /\ Len(dest) \in Nat /\ ri <= Len(dest)
      /\ consumed \in Nat /\ rpos \in Slots /\ buf \in [Slots -> Nat]
      /\ rpos = Mask(rptr + ReaderOffset) /\ rpos + rn1 <= Size
      /\ ReaderOffset + rn1 + rn2 <= RS
      /\ rmode \in {"read", "peek", "vector"}
  <2>1. rpc = "copy" /\ ri < rn1
    BY DEF ReadCopy
  <2>2. /\ wptr \in Slots /\ rptr \in Slots /\ rpos \in Slots
        /\ ri \in Nat /\ rn1 \in Nat /\ rn2 \in Nat /\ consumed \in Nat
        /\ dest \in Seq(Nat) /\ Len(dest) \in Nat
        /\ buf \in [Slots -> Nat] /\ rmode \in {"read", "peek", "vector"}
    BY DEF RingInv, TypeOK, RModes
  <2>3. RS \in 0 .. Size - 1
    BY <2>2, ReadSpaceRange DEF RS
  <2>4. QED
    BY <2>1, <2>2, <2>3 DEF RingInv, ReaderInv
<1>2. /\ dest' = Append(dest, sample) /\ ri' = ri + 1
      /\ UNCHANGED <<buf, wvars, rptr, rpc, rmode, rpos, rn1, rn2, consumed>>
  BY DEF ReadCopy
<1>3. /\ ReaderOffset \in Nat /\ ReaderAhead \in Nat
      /\ ReaderAhead + ReaderOffset + ri = Len(dest)
  BY <1>1 DEF ReaderOffset, ReaderAhead
<1>4. sample \in Nat /\ sample = consumed + Len(dest) + 1
  <2>1. ReaderOffset + ri \in 0 .. Size - 1 /\ ReaderOffset + ri < RS
    BY <1>1, <1>3
  <2>2. WriterAhead \in Nat
    BY DEF RingInv, TypeOK, WriterAhead
  <2>3. buf[Mask(rptr + (ReaderOffset + ri))]
          = consumed + ReaderAhead + (ReaderOffset + ri) + 1
    BY <1>1, <2>1, <2>2 DEF RingInv, DataInv
  <2>4. Mask(rptr + (ReaderOffset + ri)) = rpos + ri
    <3>1. Mask(Mask(rptr + ReaderOffset) + ri) = Mask(rptr + ReaderOffset + ri)
      BY <1>1, <1>3, <2>1, MaskMask
    <3>2. Mask(rpos + ri) = rpos + ri
      BY <1>1, MaskInside
    <3>3. rptr + ReaderOffset + ri = rptr + (ReaderOffset + ri)
      BY <1>1, <1>3 DEF Slots
    <3>4. QED
      BY <1>1, <3>1, <3>2, <3>3
  <2>5. consumed + ReaderAhead + (ReaderOffset + ri) + 1 = consumed + Len(dest) + 1
    BY <1>1, <1>3
  <2>6. QED
    BY <1>1, <2>3, <2>4, <2>5
<1> HIDE DEF sample
<1>5. Len(dest') = Len(dest) + 1 /\ dest' \in Seq(Nat)
  BY <1>1, <1>2, <1>4
<1>6. /\ RS' = RS /\ WriterAhead' = WriterAhead /\ WriterLeft' = WriterLeft
  BY <1>2 DEF wvars, RS, WriterAhead, WriterLeft
<1>7. ReaderAhead' = ReaderAhead /\ ReaderOffset' = ReaderOffset
  <2>1. (Len(dest) + 1) - (ri + 1) = Len(dest) - ri
    BY <1>1
  <2>2. QED
    BY <1>2, <1>5, <2>1 DEF ReaderAhead, ReaderOffset
<1>8. TypeOK'
  BY <1>1, <1>2, <1>5 DEF RingInv, TypeOK, wvars
<1>9. WriterInv' /\ CountInv' /\ DataInv'
  BY <1>2, <1>6, <1>7 DEF RingInv, WriterInv, CountInv, DataInv, wvars
<1>10. ReaderInv'
  <2>1. ri + 1 <= Len(dest) + 1
    BY <1>1
  <2>2. QED
    BY <1>1, <1>2, <1>5, <1>6, <1>7, <2>1 DEF RingInv, ReaderInv
<1>11. InOrder'
  <2> SUFFICES ASSUME NEW k \in 1 .. Len(dest) + 1
               PROVE  Append(dest, sample)[k] = consumed + k
    BY <1>2, <1>5 DEF InOrder
  <2>1. CASE k = Len(dest) + 1
    <3>1. Append(dest, sample)[k] = sample
      BY <1>1, <1>4, <2>1
    <3>2. QED
      BY <1>1, <1>4, <2>1, <3>1
  <2>2. CASE k \in 1 .. Len(dest)
    BY <1>1, <1>4, <2>2 DEF RingInv, InOrder
  <2>3. QED
    BY <1>1, <2>1, <2>2
<1>12. QED
  BY <1>8, <1>9, <1>10, <1>11 DEF RingInv

LEMMA ReadSegmentRingInv == ASSUME RingInv, ReadSegment PROVE RingInv'
<1> DEFINE step == IF rmode = "read" THEN rn1 ELSE 0
<1>1. /\ wptr \in Slots /\ rptr \in Slots /\ RS \in 0 .. Size - 1
      /\ rpc = "copy" /\ rn1 \in Nat /\ rn2 \in Nat /\ ri = rn1
      /\ rn2 <= Size
      /\ Len(dest) \in Nat /\ ri <= Len(dest) /\ consumed \in Nat
      /\ rpos \in Slots /\ rpos = Mask(rptr + ReaderOffset)
      /\ rpos + rn1 <= Size /\ (rn2 > 0 => rpos + rn1 = Size)
      /\ ReaderOffset + rn1 + rn2 <= RS
      /\ rmode \in {"read", "peek", "vector"}
  BY ReadSpaceRange DEF RingInv, TypeOK, ReaderInv, ReadSegment, RS, RModes
<1>2. /\ rptr' = IF rmode = "read" THEN Mask(rpos + rn1) ELSE rptr
      /\ rpos' = Mask(rpos + rn1)
      /\ rn1' = rn2 /\ rn2' = 0 /\ ri' = 0
      /\ rpc' = IF rn2 = 0 THEN "done" ELSE "copy"
      /\ UNCHANGED <<buf, wvars, rmode, dest, consumed>>
  BY DEF ReadSegment
<1>3. /\ ReaderOffset \in Nat /\ ReaderAhead \in Nat /\ step \in Nat
      /\ step <= RS
      /\ ReaderOffset' = ReaderOffset + rn1 - step
      /\ ReaderAhead' = ReaderAhead + step
  BY <1>1, <1>2 DEF ReaderOffset, ReaderAhead
<1>4. /\ WriterAhead' = WriterAhead /\ WriterLeft' = WriterLeft
      /\ wptr' = wptr
  BY <1>2 DEF wvars, WriterAhead, WriterLeft
(* The slots given back are those the reader is now ahead by.              *)
<1>5. rptr' = Mask(rptr + step) /\ rptr' \in Slots /\ RS' = RS - step
  <2>1. CASE rmode = "read"
    <3>1. ReaderOffset = 0 /\ step = rn1
      BY <2>1 DEF ReaderOffset
    <3>2. rpos = rptr
      BY <1>1, <3>1 DEF Mask, Slots
    <3>3. QED
      BY <1>1, <1>2, <1>3, <1>4, <2>1, <3>1, <3>2, ReaderAdvance DEF RS
  <2>2. CASE rmode # "read"
    <3>1. step = 0 /\ rptr' = rptr /\ Mask(rptr + 0) = rptr
      BY <1>1, <1>2, <2>2 DEF Mask, Slots
    <3>2. RS' = RS /\ RS - 0 = RS
      BY <1>1, <1>4, <3>1 DEF RS
    <3>3. QED
      BY <1>1, <3>1, <3>2
  <2>3. QED
    BY <2>1, <2>2
<1>6. /\ Mask(rpos + rn1) \in Slots
      /\ rn2 > 0 => Mask(rpos + rn1) = 0
      /\ Mask(rpos + rn1) = Mask(rptr + (ReaderOffset + rn1))
  <2>1. Mask(Mask(rptr + ReaderOffset) + rn1) = Mask(rptr + ReaderOffset + rn1)
    BY <1>1, <1>3, MaskMask
  <2>2. rptr + ReaderOffset + rn1 = rptr + (ReaderOffset + rn1)
    BY <1>1, <1>3 DEF Slots
  <2>3. Mask(rpos + rn1) \in Slots /\ (rn2 > 0 => Mask(rpos + rn1) = 0)
    BY <1>1 DEF Mask, Slots
  <2>4. QED
    BY <1>1, <2>1, <2>2, <2>3
<1>7. rpos' = Mask(rptr' + (ReaderOffset + rn1 - step))
  <2>1. step + (ReaderOffset + rn1 - step) < Size /\ ReaderOffset + rn1 - step \in Nat
    BY <1>1, <1>3
  <2>2. Mask(Mask(rptr + step) + (ReaderOffset + rn1 - step))
          = Mask(rptr + step + (ReaderOffset + rn1 - step))
    BY <1>1, <1>3, <2>1, MaskMask
  <2>3. rptr + step + (ReaderOffset + rn1 - step) = rptr + (ReaderOffset + rn1)
    BY <1>1, <1>3 DEF Slots
  <2>4. QED
    BY <1>2, <1>5, <1>6, <2>2, <2>3
<1> HIDE DEF step
<1>8. TypeOK'
  BY <1>1, <1>2, <1>5, <1>6 DEF RingInv, TypeOK, wvars
<1>9. WriterInv'
  <2>1. WriterAhead \in Int /\ WriterLeft \in Int
    BY DEF RingInv, TypeOK, WriterAhead, WriterLeft
  <2>2. WriterAhead + WriterLeft + (RS - step) <= Size - 1
    BY <1>1, <1>3, <2>1 DEF RingInv, WriterInv
  <2>3. QED
    BY <1>2, <1>4, <1>5, <2>2 DEF RingInv, WriterInv, wvars
<1>10. ReaderInv'
  <2>1. (ReaderOffset + rn1 - step) + rn2 + 0 <= RS - step
    BY <1>1, <1>3
  <2>2. (rn2 = 0) => (ReaderOffset + rn1 - step) <= RS - step
    BY <1>1, <1>3
  <2>3. rn2 > 0 => Mask(rpos + rn1) + rn2 <= Size
    BY <1>1, <1>6
  <2>4. rpc' = "copy" => rn2 > 0
    BY <1>1, <1>2
  <2>5. rpc' # "idle"
    BY <1>2
  <2>6. QED
    BY <1>1, <1>2, <1>3, <1>5, <1>7, <2>1, <2>2, <2>3, <2>4, <2>5
    DEF ReaderInv
<1>11. CountInv'
  <2>1. sent - WriterAhead = consumed + (ReaderAhead + step) + (RS - step)
    BY <1>1, <1>3 DEF RingInv, CountInv
  <2>2. QED
    BY <1>2, <1>3, <1>4, <1>5, <2>1 DEF CountInv, wvars
<1>12. DataInv'
  <2> SUFFICES ASSUME NEW d \in 0 .. Size - 1, d < (RS - step) + WriterAhead
               PROVE  buf[Mask(Mask(rptr + step) + d)]
                        = consumed + (ReaderAhead + step) + d + 1
    BY <1>2, <1>3, <1>4, <1>5 DEF DataInv
  <2>1. WriterAhead \in Nat /\ WriterLeft \in Nat
    BY DEF RingInv, TypeOK, WriterAhead, WriterLeft
  <2>2. RS + WriterAhead <= Size - 1
    BY <1>1, <2>1 DEF RingInv, WriterInv
  <2>3. step + d \in 0 .. Size - 1 /\ step + d < RS + WriterAhead
    BY <1>1, <1>3, <2>1, <2>2
  <2>4. buf[Mask(rptr + (step + d))] = consumed + ReaderAhead + (step + d) + 1
    BY <2>3 DEF RingInv, DataInv
  <2>5. Mask(Mask(rptr + step) + d) = Mask(rptr + step + d)
    BY <1>1, <1>3, <2>3, MaskMask
  <2>6. /\ rptr + step + d = rptr + (step + d)
        /\ consumed + ReaderAhead + (step + d) + 1
              = consumed + (ReaderAhead + step) + d + 1
    BY <1>1, <1>3 DEF Slots
  <2>7. QED
    BY <2>4, <2>5, <2>6
<1>13. InOrder'
  BY <1>2 DEF RingInv, InOrder
<1>14. QED
  BY <1>8, <1>9, <1>10, <1>11, <1>12, <1>13 DEF RingInv

LEMMA ReadReturnRingInv == ASSUME RingInv, ReadReturn PROVE RingInv'
<1> DEFINE step == IF rmode = "vector" THEN Len(dest) ELSE 0
           held == IF rmode = "peek" THEN 0 ELSE Len(dest)
<1>1. /\ wptr \in Slots /\ rptr \in Slots /\ RS \in 0 .. Size - 1
      /\ rpc = "done" /\ ri = 0 /\ Len(dest) \in Nat /\ consumed \in Nat
      /\ rmode \in {"read", "peek", "vector"} /\ ReaderOffset <= RS
  BY ReadSpaceRange DEF RingInv, TypeOK, ReaderInv, ReadReturn, RS, RModes
<1>2. /\ rptr' = IF rmode = "vector" THEN Mask(rptr + Len(dest)) ELSE rptr
      /\ consumed' = IF rmode = "peek" THEN consumed ELSE consumed + Len(dest)
      /\ rpc' = "idle" /\ dest' = <<>> /\ ri' = ri
      /\ UNCHANGED <<buf, wvars, rmode, rpos, rn1, rn2, ri>>
  BY DEF ReadReturn
<1>3. /\ step \in Nat /\ step <= RS /\ held \in Nat
      /\ ReaderAhead + step = held
      /\ ReaderAhead \in Nat
      /\ ReaderAhead' = 0 /\ ReaderOffset' = 0
      /\ consumed' = consumed + held
  <2>1. /\ step \in Nat /\ step <= RS /\ held \in Nat
        /\ ReaderAhead + step = held /\ ReaderAhead \in Nat
    <3>1. CASE rmode = "read"
      BY <1>1, <3>1 DEF ReaderAhead
    <3>2. CASE rmode = "peek"
      BY <1>1, <3>2 DEF ReaderAhead
    <3>3. CASE rmode = "vector"
      BY <1>1, <3>3 DEF ReaderAhead, ReaderOffset
    <3>4. QED
      BY <1>1, <3>1, <3>2, <3>3
  <2>2. Len(<<>>) - 0 = 0
    OBVIOUS
  <2>3. ReaderAhead' = 0 /\ ReaderOffset' = 0
    BY <1>1, <1>2, <2>2 DEF ReaderAhead, ReaderOffset
  <2>4. consumed' = consumed + held
    BY <1>1, <1>2
  <2>5. QED
    BY <2>1, <2>3, <2>4
<1>4. /\ WriterAhead' = WriterAhead /\ WriterLeft' = WriterLeft
      /\ wptr' = wptr
  BY <1>2 DEF wvars, WriterAhead, WriterLeft
<1>5. rptr' = Mask(rptr + step) /\ rptr' \in Slots /\ RS' = RS - step
  <2>1. Mask(rptr + 0) = rptr
    BY <1>1 DEF Mask, Slots
  <2>2. rptr' = Mask(rptr + step)
    BY <1>2, <2>1
  <2>3. Mask(rptr + step) \in Slots
        /\ ReadSpace(wptr, Mask(rptr + step)) = RS - step
    BY <1>1, <1>3, ReaderAdvance DEF RS
  <2>4. QED
    BY <1>4, <2>2, <2>3 DEF RS
<1> HIDE DEF step, held
<1>6. TypeOK'
  BY <1>1, <1>2, <1>3, <1>5 DEF RingInv, TypeOK, wvars
<1>7. WriterInv'
  <2>1. WriterAhead \in Int /\ WriterLeft \in Int
    BY DEF RingInv, TypeOK, WriterAhead, WriterLeft
  <2>2. WriterAhead + WriterLeft + (RS - step) <= Size - 1
    BY <1>1, <1>3, <2>1 DEF RingInv, WriterInv
  <2>3. QED
    BY <1>2, <1>4, <1>5, <2>2 DEF RingInv, WriterInv, wvars
<1>8. ReaderInv'
  BY <1>1, <1>2 DEF ReaderInv
<1>9. CountInv'
  <2>1. sent - WriterAhead = (consumed + held) + 0 + (RS - step)
    BY <1>1, <1>3 DEF RingInv, CountInv
  <2>2. QED
    BY <1>2, <1>3, <1>4, <1>5, <2>1 DEF CountInv, wvars
<1>10. DataInv'
  <2> SUFFICES ASSUME NEW d \in 0 .. Size - 1, d < (RS - step) + WriterAhead
               PROVE  buf[Mask(Mask(rptr + step) + d)] = (consumed + held) + 0 + d + 1
    BY <1>2, <1>3, <1>4, <1>5 DEF DataInv, wvars
  <2>1. WriterAhead \in Nat /\ WriterLeft \in Nat
    BY DEF RingInv, TypeOK, WriterAhead, WriterLeft
  <2>2. RS + WriterAhead <= Size - 1
    BY <1>1, <2>1 DEF RingInv, WriterInv
  <2>3. step + d \in 0 .. Size - 1 /\ step + d < RS + WriterAhead
    BY <1>1, <1>3, <2>1, <2>2
  <2>4. buf[Mask(rptr + (step + d))] = consumed + ReaderAhead + (step + d) + 1
    BY <2>3 DEF RingInv, DataInv
  <2>5. Mask(Mask(rptr + step) + d) = Mask(rptr + step + d)
    BY <1>1, <1>3, <2>3, MaskMask
  <2>6. /\ rptr + step + d = rptr + (step + d)
        /\ consumed + ReaderAhead + (step + d) + 1 = (consumed + held) + 0 + d + 1
    BY <1>1, <1>3 DEF Slots
  <2>7. QED
    BY <2>4, <2>5, <2>6
<1>11. InOrder'
  BY <1>2 DEF InOrder
<1>12. QED
  BY <1>6, <1>7, <1>8, <1>9, <1>10, <1>11 DEF RingInv

-----------------------------------------------------------------------------
(* The theorems.                                                           *)

(* Every step of the ring keeps the invariant.                             *)
THEOREM RingInductive == Spec => []RingInv
<1>1. RingInv /\ [Next]_vars => RingInv'
  <2> SUFFICES ASSUME RingInv, [Next]_vars PROVE RingInv'
    OBVIOUS
  <2>1. CASE \E asked \in 1 .. MaxRequest, mode \in WModes : WriteBegin(asked, mode)
    BY <2>1, WriteBeginRingInv
  <2>2. CASE WriteCopy
    BY <2>2, WriteCopyRingInv
  <2>3. CASE WriteSegment
    BY <2>3, WriteSegmentRingInv
  <2>4. CASE WriteReturn
    BY <2>4, WriteReturnRingInv
  <2>5. CASE \E asked \in 1 .. MaxRequest, mode \in RModes : ReadBegin(asked, mode)
    BY <2>5, ReadBeginRingInv
  <2>6. CASE ReadCopy
    BY <2>6, ReadCopyRingInv
  <2>7. CASE ReadSegment
    BY <2>7, ReadSegmentRingInv
  <2>8. CASE ReadReturn
    BY <2>8, ReadReturnRingInv
  <2>9. CASE UNCHANGED vars
    BY <2>9
    DEF vars, wvars, rvars, RingInv, TypeOK, WriterInv, ReaderInv, CountInv,
        DataInv, InOrder, WriterAhead, WriterLeft, ReaderAhead, ReaderOffset, RS
  <2>10. QED
    BY <2>1, <2>2, <2>3, <2>4, <2>5, <2>6, <2>7, <2>8, <2>9 DEF Next
<1>2. QED
  BY InitRingInv, <1>1, PTL DEF Spec

(* Every pointer, segment and count of ringb.c stays in its range, and no  *)
(* size_t subtraction goes below zero.                                     *)
THEOREM RingTypeCorrect == Spec => []TypeOK
<1>1. RingInv => TypeOK
  BY DEF RingInv
<1>2. QED
  BY <1>1, RingInductive, PTL

(* A reader of the ring gets every sample once and in order, for any ring  *)
(* size, any requests and any interleaving of reader and writer.           *)
THEOREM FirstInFirstOut == Spec => []InOrder
<1>1. RingInv => InOrder
  BY DEF RingInv
<1>2. QED
  BY <1>1, RingInductive, PTL

(* The two memcpy's of ringb_read and ringb_write never touch one slot.    *)
THEOREM NoLockNeeded == Spec => []NoSlotRace
<1>1. RingInv => NoSlotRace
  <2> SUFFICES ASSUME RingInv, wpc = "copy", rpc = "copy",
                      NEW a \in {wpos + j : j \in wi .. wn1 - 1} \cup 0 .. wn2 - 1,
                      NEW b \in {rpos + j : j \in ri .. rn1 - 1} \cup 0 .. rn2 - 1
               PROVE  a # b
    BY DEF NoSlotRace, Touches
  <2>1. /\ wptr \in Slots /\ rptr \in Slots /\ RS \in 0 .. Size - 1
        /\ wptr = Mask(rptr + RS)
        /\ wpos \in Slots /\ rpos \in Slots
        /\ wi \in Nat /\ wn1 \in Nat /\ wn2 \in Nat /\ wi <= wn1 /\ wdone \in Nat
        /\ ri \in Nat /\ rn1 \in Nat /\ rn2 \in Nat /\ ri <= rn1
        /\ wi <= wdone
    BY ReadSpaceRange DEF RingInv, TypeOK, WriterInv, RS
  <2>2. /\ WriterAhead \in Nat
        /\ WriterAhead + (wn1 - wi) + wn2 + RS <= Size - 1
        /\ wpos + wn1 <= Size
        /\ wn2 > 0 => wpos + wn1 = Size
    BY <2>1 DEF RingInv, WriterInv, WriterAhead, WriterLeft
  <2>3. /\ ReaderOffset \in Nat
        /\ ReaderOffset + rn1 + rn2 <= RS
        /\ rpos = Mask(rptr + ReaderOffset)
        /\ rpos + rn1 <= Size
        /\ rn2 > 0 => rpos + rn1 = Size
    BY <2>1 DEF RingInv, ReaderInv, ReaderOffset, TypeOK
  (* What the reader still copies lies before the published write pointer. *)
  <2>4. PICK d \in 0 .. RS - 1 : b = Mask(rptr + d)
    <3>1. CASE b \in {rpos + j : j \in ri .. rn1 - 1}
      <4>1. PICK j \in ri .. rn1 - 1 : b = rpos + j
        BY <3>1
      <4>2. Mask(Mask(rptr + ReaderOffset) + j) = Mask(rptr + ReaderOffset + j)
        BY <2>1, <2>3, <4>1, MaskMask
      <4>3. b = Mask(b) /\ rptr + ReaderOffset + j = rptr + (ReaderOffset + j)
        BY <2>1, <2>3, <4>1 DEF Mask, Slots
      <4>4. ReaderOffset + j \in 0 .. RS - 1
        BY <2>1, <2>3, <4>1
      <4>5. QED
        BY <2>3, <4>1, <4>2, <4>3, <4>4
    <3>2. CASE b \in 0 .. rn2 - 1
      <4>1. rn2 > 0 /\ rpos + rn1 = Size
        BY <2>1, <2>3, <3>2
      <4>2. b = Mask(rpos + (rn1 + b))
        BY <2>1, <4>1, <3>2 DEF Mask, Slots
      <4>3. Mask(Mask(rptr + ReaderOffset) + (rn1 + b))
              = Mask(rptr + ReaderOffset + (rn1 + b))
        BY <2>1, <2>3, <3>2, MaskMask
      <4>4. /\ rptr + ReaderOffset + (rn1 + b) = rptr + (ReaderOffset + rn1 + b)
            /\ ReaderOffset + rn1 + b \in 0 .. RS - 1
        BY <2>1, <2>3, <3>2 DEF Slots
      <4>5. QED
        BY <2>3, <4>2, <4>3, <4>4
    <3>3. QED
      BY <3>1, <3>2
  (* What the writer still copies lies at or after it.                     *)
  <2>5. PICK e \in RS .. Size - 1 : a = Mask(rptr + e)
    <3> DEFINE base == WriterAhead - wi
    <3>1. /\ base \in Nat
          /\ wpos = Mask(wptr + base)
          /\ base + wn1 + wn2 + RS <= Size - 1
      <4>1. Mask(wptr + 0) = wptr
        BY <2>1 DEF Mask, Slots
      <4>2. QED
        BY <2>1, <2>2, <4>1 DEF RingInv, WriterInv, WriterAhead
    <3>2. wpos = Mask(rptr + (RS + base))
      <4>1. Mask(Mask(rptr + RS) + base) = Mask(rptr + RS + base)
        BY <2>1, <3>1, MaskMask
      <4>2. rptr + RS + base = rptr + (RS + base)
        BY <2>1, <3>1 DEF Slots
      <4>3. QED
        BY <2>1, <3>1, <4>1, <4>2
    <3> HIDE DEF base
    <3>3. CASE a \in {wpos + j : j \in wi .. wn1 - 1}
      <4>1. PICK j \in wi .. wn1 - 1 : a = wpos + j
        BY <3>3
      <4>2. Mask(Mask(rptr + (RS + base)) + j) = Mask(rptr + (RS + base) + j)
        BY <2>1, <2>2, <3>1, <4>1, MaskMask
      <4>3. a = Mask(a) /\ rptr + (RS + base) + j = rptr + (RS + base + j)
        BY <2>1, <2>2, <3>1, <4>1 DEF Mask, Slots
      <4>4. RS + base + j \in RS .. Size - 1
        BY <2>1, <2>2, <3>1, <4>1
      <4>5. QED
        BY <3>2, <4>1, <4>2, <4>3, <4>4
    <3>4. CASE a \in 0 .. wn2 - 1
      <4>1. wn2 > 0 /\ wpos + wn1 = Size
        BY <2>1, <2>2, <3>4
      <4>2. a = Mask(wpos + (wn1 + a))
        BY <2>1, <4>1, <3>4 DEF Mask, Slots
      <4>3. Mask(Mask(rptr + (RS + base)) + (wn1 + a))
              = Mask(rptr + (RS + base) + (wn1 + a))
        BY <2>1, <2>2, <3>1, <3>4, MaskMask
      <4>4. /\ rptr + (RS + base) + (wn1 + a) = rptr + (RS + base + wn1 + a)
            /\ RS + base + wn1 + a \in RS .. Size - 1
        BY <2>1, <2>2, <3>1, <3>4 DEF Slots
      <4>5. QED
        BY <3>2, <4>2, <4>3, <4>4
    <3>5. QED
      BY <3>3, <3>4
  <2>6. QED
    BY <2>1, <2>4, <2>5, MaskInjective
<1>2. QED
  BY <1>1, RingInductive, PTL

-----------------------------------------------------------------------------
(* The ring implements the bounded queue.  Under RingInv the queue that a  *)
(* reader sees is determined by two numbers, how many samples it holds and *)
(* how many were taken before them: each step is a matter of counting.     *)

(* The n samples after the first t.                                        *)
Run(t, n) == [k \in 1 .. n |-> t + k]

LEMMA RunIs ==
  ASSUME NEW t \in Nat, NEW n \in Nat
  PROVE  /\ Run(t, n) \in Seq(Nat)
         /\ Len(Run(t, n)) = n
         /\ \A k \in 1 .. n : Run(t, n)[k] = t + k
  BY DEF Run

LEMMA RunConcat ==
  ASSUME NEW t \in Nat, NEW n \in Nat, NEW m \in Nat
  PROVE  Run(t, n) \o Run(t + n, m) = Run(t, n + m)
<1> DEFINE a == Run(t, n)
           b == Run(t + n, m)
           c == Run(t, n + m)
<1>1. /\ a \in Seq(Nat) /\ Len(a) = n /\ \A k \in 1 .. n : a[k] = t + k
      /\ b \in Seq(Nat) /\ Len(b) = m /\ \A k \in 1 .. m : b[k] = (t + n) + k
      /\ c \in Seq(Nat) /\ Len(c) = n + m
      /\ \A k \in 1 .. n + m : c[k] = t + k
  <2>1. a \in Seq(Nat) /\ Len(a) = n /\ \A k \in 1 .. n : a[k] = t + k
    BY RunIs
  <2>2. /\ t + n \in Nat
        /\ b \in Seq(Nat) /\ Len(b) = m /\ \A k \in 1 .. m : b[k] = (t + n) + k
    BY RunIs
  <2>3. /\ n + m \in Nat
        /\ c \in Seq(Nat) /\ Len(c) = n + m
        /\ \A k \in 1 .. n + m : c[k] = t + k
    BY RunIs
  <2>4. QED
    BY <2>1, <2>2, <2>3
<1> HIDE DEF a, b, c
<1>2. /\ a \o b \in Seq(Nat) /\ Len(a \o b) = n + m
      /\ \A k \in 1 .. n + m : (a \o b)[k] = IF k <= n THEN a[k] ELSE b[k - n]
  BY <1>1, ConcatProperties
<1>3. ASSUME NEW k \in 1 .. n + m PROVE (a \o b)[k] = c[k]
  <2>1. CASE k <= n
    BY <1>1, <1>2, <2>1
  <2>2. CASE ~(k <= n)
    <3>1. k - n \in 1 .. m /\ (t + n) + (k - n) = t + k
      BY <2>2
    <3>2. QED
      BY <1>1, <1>2, <2>2, <3>1
  <2>3. QED
    BY <2>1, <2>2
<1>4. a \o b = c
  BY <1>1, <1>2, <1>3, SeqEqual
<1>5. QED
  BY <1>4 DEF a, b, c

LEMMA RunTail ==
  ASSUME NEW t \in Nat, NEW n \in Nat, NEW m \in 0 .. n
  PROVE  SubSeq(Run(t, n), m + 1, n) = Run(t + m, n - m)
<1> DEFINE a == Run(t, n)
           c == Run(t + m, n - m)
<1>1. /\ \A k \in 1 .. n : a[k] = t + k
      /\ c \in Seq(Nat) /\ Len(c) = n - m
      /\ \A k \in 1 .. n - m : c[k] = (t + m) + k
  <2>1. \A k \in 1 .. n : a[k] = t + k
    BY RunIs
  <2>2. t + m \in Nat /\ n - m \in Nat
    OBVIOUS
  <2>3. /\ c \in Seq(Nat) /\ Len(c) = n - m
        /\ \A k \in 1 .. n - m : c[k] = (t + m) + k
    BY <2>2, RunIs
  <2>4. QED
    BY <2>1, <2>3
<1> HIDE DEF a, c
<1>2. \A k \in m + 1 .. n : a[k] \in Nat
  BY <1>1
<1>3. /\ SubSeq(a, m + 1, n) \in Seq(Nat)
      /\ Len(SubSeq(a, m + 1, n))
           = IF m + 1 <= n THEN n - (m + 1) + 1 ELSE 0
      /\ \A k \in 1 .. n - (m + 1) + 1 :
           SubSeq(a, m + 1, n)[k] = a[(m + 1) + k - 1]
  BY <1>2, SubSeqProperties
<1>4. Len(SubSeq(a, m + 1, n)) = n - m
  BY <1>3
<1>5. ASSUME NEW k \in 1 .. n - m PROVE SubSeq(a, m + 1, n)[k] = c[k]
  <2>1. /\ k \in 1 .. n - (m + 1) + 1 /\ (m + 1) + k - 1 = m + k
        /\ m + k \in 1 .. n /\ t + (m + k) = (t + m) + k
    OBVIOUS
  <2>2. QED
    BY <1>1, <1>3, <2>1
<1>6. SubSeq(a, m + 1, n) = c
  BY <1>1, <1>3, <1>4, <1>5, SeqEqual
<1>7. QED
  BY <1>6 DEF a, c

(* What was taken before the samples a reader sees.                        *)
Before == consumed + ReaderAhead

QueueShape ==
  /\ RS \in 0 .. Size - 1 /\ Before \in Nat
  /\ Visible = Run(Before, RS)
  /\ sent - WriterAhead = Before + RS

(* What the ring holds is what the queue holds.                            *)
LEMMA VisibleIs == RingInv => QueueShape
<1> SUFFICES ASSUME RingInv PROVE QueueShape
  OBVIOUS
<1>1. wptr \in Slots /\ rptr \in Slots /\ RS \in 0 .. Size - 1
  BY ReadSpaceRange DEF RingInv, TypeOK, RS
<1>2. WriterAhead \in Nat /\ ReaderAhead \in Nat /\ consumed \in Nat
  <2>1. /\ wi \in Nat /\ wdone \in Nat /\ consumed \in Nat /\ ri \in Nat
        /\ Len(dest) \in Nat /\ ri <= Len(dest)
    BY DEF RingInv, TypeOK, ReaderInv
  <2>2. QED
    BY <2>1 DEF WriterAhead, ReaderAhead
<1>3. ASSUME NEW k \in 1 .. RS PROVE buf[Mask(rptr + k - 1)] = Before + k
  <2>1. /\ k - 1 \in 0 .. Size - 1 /\ k - 1 < RS + WriterAhead
        /\ rptr + (k - 1) = rptr + k - 1
    BY <1>1, <1>2 DEF Slots
  <2>2. buf[Mask(rptr + (k - 1))] = consumed + ReaderAhead + (k - 1) + 1
    BY <2>1 DEF RingInv, DataInv
  <2>3. consumed + ReaderAhead + (k - 1) + 1 = Before + k
    BY <1>2 DEF Before
  <2>4. QED
    BY <2>1, <2>2, <2>3
<1>4. Visible = Run(Before, RS)
  BY <1>3 DEF Visible, Run, RS
<1>5. QED
  BY <1>1, <1>2, <1>4 DEF QueueShape, Before, RingInv, CountInv

LEMMA VisibleNext == RingInv' => QueueShape'
  BY VisibleIs, PTL

(* A step by which the reader sees n more samples.                         *)
LEMMA PublishedIsPut ==
  ASSUME RingInv, RingInv', NEW n \in Nat, RS' = RS + n, Before' = Before
  PROVE  Abstract!Put \/ UNCHANGED <<Visible, sent - WriterAhead, Before>>
<1>1. /\ RS \in Nat /\ Before \in Nat /\ Visible = Run(Before, RS)
      /\ sent - WriterAhead = Before + RS
  BY VisibleIs DEF QueueShape
<1>2. /\ RS' \in 0 .. Size - 1 /\ Visible' = Run(Before', RS')
      /\ (sent - WriterAhead)' = Before' + RS'
  BY VisibleNext DEF QueueShape
<1>3. Visible' = Run(Before, RS + n) /\ (sent - WriterAhead)' = Before + RS + n
  BY <1>1, <1>2
<1>4. CASE n = 0
  BY <1>1, <1>3, <1>4
<1>5. CASE n > 0
  <2>1. n \in 1 .. (Size - 1) - Len(Visible)
    BY <1>1, <1>2, <1>5, RunIs
  <2>2. Visible' = Visible \o Run(Before + RS, n)
    BY <1>1, <1>3, RunConcat
  <2>3. Run(Before + RS, n) = [k \in 1 .. n |-> (sent - WriterAhead) + k]
    BY <1>1 DEF Run
  <2>4. (sent - WriterAhead)' = (sent - WriterAhead) + n
    BY <1>1, <1>3
  <2>5. QED
    BY <2>1, <2>2, <2>3, <2>4 DEF Abstract!Put, Before
<1>6. QED
  BY <1>4, <1>5

(* A step by which the reader gives n samples back.                        *)
LEMMA ReleasedIsTake ==
  ASSUME RingInv, RingInv', NEW n \in Nat, n <= RS, RS' = RS - n,
         Before' = Before + n
  PROVE  Abstract!Take \/ UNCHANGED <<Visible, sent - WriterAhead, Before>>
<1>1. /\ RS \in Nat /\ Before \in Nat /\ Visible = Run(Before, RS)
      /\ sent - WriterAhead = Before + RS
  BY VisibleIs DEF QueueShape
<1>2. /\ Visible' = Run(Before', RS')
      /\ (sent - WriterAhead)' = Before' + RS'
  BY VisibleNext DEF QueueShape
<1>3. Visible' = Run(Before + n, RS - n) /\ (sent - WriterAhead)' = Before + RS
  BY <1>1, <1>2
<1>4. CASE n = 0
  BY <1>1, <1>3, <1>4
<1>5. CASE n > 0
  <2>1. Len(Visible) = RS /\ n \in 1 .. Len(Visible)
    BY <1>1, <1>5, RunIs
  <2>2. Visible' = SubSeq(Visible, n + 1, Len(Visible))
    BY <1>1, <1>3, <2>1, RunTail
  <2>3. QED
    BY <1>1, <1>3, <2>1, <2>2 DEF Abstract!Take, Before
<1>6. QED
  BY <1>4, <1>5

(* How far each step moves the two numbers.                                *)
LEMMA WriterMoves ==
  ASSUME RingInv,
         \/ \E asked \in 1 .. MaxRequest, mode \in WModes : WriteBegin(asked, mode)
         \/ WriteCopy \/ WriteSegment \/ WriteReturn
  PROVE  \E n \in Nat : RS' = RS + n /\ Before' = Before
<1>1. /\ wptr \in Slots /\ rptr \in Slots /\ RS \in 0 .. Size - 1
      /\ wn1 \in Nat /\ wdone \in Nat
  BY ReadSpaceRange DEF RingInv, TypeOK, RS
<1>2. UNCHANGED rvars
  BY DEF WriteBegin, WriteCopy, WriteSegment, WriteReturn
<1>3. rptr' = rptr /\ Before' = Before
  BY <1>2 DEF rvars, Before, ReaderAhead
<1>4. SUFFICES \E n \in Nat : RS' = RS + n
  BY <1>3
<1>5. ASSUME wptr' = wptr PROVE \E n \in Nat : RS' = RS + n
  <2>1. RS' = RS + 0
    BY <1>1, <1>3, <1>5 DEF RS
  <2>2. QED
    BY <2>1
<1>6. ASSUME NEW n \in Nat, RS + n <= Size - 1, wptr' = Mask(wptr + n)
      PROVE  \E k \in Nat : RS' = RS + k
  <2>1. RS' = RS + n
    BY <1>1, <1>3, <1>6, WriterAdvance DEF RS
  <2>2. QED
    BY <2>1
<1>7. CASE \/ \E asked \in 1 .. MaxRequest, mode \in WModes : WriteBegin(asked, mode)
           \/ WriteCopy
  BY <1>5, <1>7 DEF WriteBegin, WriteCopy
<1>8. CASE WriteSegment
  <2>1. CASE wmode = "write"
    <3>1. wptr' = Mask(wptr + wn1) /\ WriterAhead = wn1 /\ WriterLeft = wn2
          /\ wn2 \in Nat /\ WriterAhead + WriterLeft + RS <= Size - 1
      BY <1>8, <2>1
      DEF WriteSegment, RingInv, TypeOK, WriterInv, WriterAhead, WriterLeft
    <3>2. RS + wn1 <= Size - 1
      BY <1>1, <3>1
    <3>3. QED
      BY <1>1, <1>6, <3>1, <3>2
  <2>2. CASE wmode # "write"
    BY <1>5, <1>8, <2>2 DEF WriteSegment
  <2>3. QED
    BY <2>1, <2>2
<1>9. CASE WriteReturn
  <2>1. CASE wmode = "vector"
    <3>1. wptr' = Mask(wptr + wdone) /\ WriterAhead = wdone /\ WriterLeft = 0
          /\ WriterAhead + WriterLeft + RS <= Size - 1
      BY <1>9, <2>1 DEF WriteReturn, RingInv, WriterInv, WriterAhead, WriterLeft
    <3>2. RS + wdone <= Size - 1
      BY <1>1, <3>1
    <3>3. QED
      BY <1>1, <1>6, <3>1, <3>2
  <2>2. CASE wmode # "vector"
    BY <1>5, <1>9, <2>2 DEF WriteReturn
  <2>3. QED
    BY <2>1, <2>2
<1>10. QED
  BY <1>7, <1>8, <1>9

LEMMA ReaderMoves ==
  ASSUME RingInv,
         \/ \E asked \in 1 .. MaxRequest, mode \in RModes : ReadBegin(asked, mode)
         \/ ReadCopy \/ ReadSegment \/ ReadReturn
  PROVE  \E n \in Nat : n <= RS /\ RS' = RS - n /\ Before' = Before + n
<1>1. /\ wptr \in Slots /\ rptr \in Slots /\ RS \in 0 .. Size - 1
      /\ consumed \in Nat /\ Len(dest) \in Nat /\ ri \in Nat /\ rn1 \in Nat
      /\ rn2 \in Nat /\ ri <= Len(dest) /\ dest \in Seq(Nat)
      /\ ReaderAhead \in Nat /\ Before \in Nat
  <2>1. /\ wptr \in Slots /\ rptr \in Slots
        /\ consumed \in Nat /\ Len(dest) \in Nat /\ ri \in Nat /\ rn1 \in Nat
        /\ rn2 \in Nat /\ ri <= Len(dest) /\ dest \in Seq(Nat)
    BY DEF RingInv, TypeOK, ReaderInv
  <2>2. RS \in 0 .. Size - 1
    BY <2>1, ReadSpaceRange DEF RS
  <2>3. ReaderAhead \in Nat /\ Before \in Nat
    BY <2>1 DEF ReaderAhead, Before
  <2>4. QED
    BY <2>1, <2>2, <2>3
<1>2. wptr' = wptr
  BY DEF ReadBegin, ReadCopy, ReadSegment, ReadReturn, wvars
<1>3. ASSUME rptr' = rptr, Before' = Before
      PROVE  \E n \in Nat : n <= RS /\ RS' = RS - n /\ Before' = Before + n
  <2>1. 0 <= RS /\ RS' = RS - 0 /\ Before' = Before + 0
    BY <1>1, <1>2, <1>3 DEF RS
  <2>2. QED
    BY <2>1
<1>4. ASSUME NEW n \in Nat, n <= RS, rptr' = Mask(rptr + n),
             Before' = Before + n
      PROVE  \E k \in Nat : k <= RS /\ RS' = RS - k /\ Before' = Before + k
  <2>1. RS' = RS - n
    BY <1>1, <1>2, <1>4, ReaderAdvance DEF RS
  <2>2. QED
    BY <1>4, <2>1
<1>5. CASE \E asked \in 1 .. MaxRequest, mode \in RModes : ReadBegin(asked, mode)
  <2>1. /\ dest = <<>> /\ ri = 0 /\ dest' = <<>> /\ ri' = 0
        /\ rptr' = rptr /\ consumed' = consumed
    BY <1>5 DEF ReadBegin, RingInv, ReaderInv
  <2>2. Len(<<>>) - 0 = 0
    OBVIOUS
  <2>3. Before' = Before
    BY <2>1, <2>2 DEF Before, ReaderAhead
  <2>4. QED
    BY <1>3, <2>1, <2>3
<1>6. CASE ReadCopy
  <2>1. buf[rpos + ri] \in Nat
    <3>1. /\ ri < rn1 /\ rpos \in Slots /\ rpos + rn1 <= Size
          /\ buf \in [Slots -> Nat]
      BY <1>6 DEF ReadCopy, RingInv, TypeOK, ReaderInv
    <3>2. rpos + ri \in Slots
      BY <1>1, <3>1 DEF Slots
    <3>3. QED
      BY <3>1, <3>2
  <2>2. Len(Append(dest, buf[rpos + ri])) = Len(dest) + 1
    BY <1>1, <2>1, AppendProperties
  <2>3. /\ Len(dest') = Len(dest) + 1 /\ ri' = ri + 1 /\ rmode' = rmode
        /\ rptr' = rptr /\ consumed' = consumed
    BY <1>6, <2>2 DEF ReadCopy
  <2>4. Len(dest') - ri' = Len(dest) - ri
    BY <1>1, <2>3
  <2>5. Before' = Before
    BY <2>3, <2>4 DEF Before, ReaderAhead
  <2>6. QED
    BY <1>3, <2>3, <2>5
<1>7. CASE ReadSegment
  <2>1. CASE rmode = "read"
    <3>1. /\ ri = rn1 /\ ri' = 0 /\ UNCHANGED <<dest, consumed, rmode>>
          /\ rptr' = Mask(rpos + rn1) /\ ReaderOffset = 0
          /\ rpos = Mask(rptr + ReaderOffset)
          /\ ReaderOffset + rn1 + rn2 <= RS
      BY <1>7, <2>1 DEF ReadSegment, RingInv, ReaderInv, ReaderOffset
    <3>2. rpos = rptr /\ rn1 <= RS
      BY <1>1, <3>1 DEF Mask, Slots
    <3>3. Before' = Before + rn1
      BY <1>1, <2>1, <3>1 DEF Before, ReaderAhead
    <3>4. QED
      BY <1>1, <1>4, <3>1, <3>2, <3>3
  <2>2. CASE rmode # "read"
    <3>1. rptr' = rptr /\ UNCHANGED <<dest, consumed, rmode>>
      BY <1>7, <2>2 DEF ReadSegment
    <3>2. Before' = Before
      BY <2>2, <3>1 DEF Before, ReaderAhead
    <3>3. QED
      BY <1>3, <3>1, <3>2
  <2>3. QED
    BY <2>1, <2>2
<1>8. CASE ReadReturn
  <2>1. /\ ri = 0 /\ ri' = 0 /\ dest' = <<>> /\ rmode' = rmode
        /\ consumed' = IF rmode = "peek" THEN consumed ELSE consumed + Len(dest)
        /\ rptr' = IF rmode = "vector" THEN Mask(rptr + Len(dest)) ELSE rptr
        /\ ReaderOffset <= RS
    BY <1>8 DEF ReadReturn, RingInv, ReaderInv
  <2>2. Len(<<>>) - 0 = 0
    OBVIOUS
  <2>3. ReaderAhead' = 0
    BY <2>1, <2>2 DEF ReaderAhead
  <2>4. CASE rmode = "vector"
    <3>1. ReaderAhead = 0 /\ Len(dest) <= RS
      BY <1>1, <2>1, <2>4 DEF ReaderAhead, ReaderOffset
    <3>2. Before' = Before + Len(dest)
      BY <1>1, <2>1, <2>3, <2>4, <3>1 DEF Before
    <3>3. QED
      BY <1>1, <1>4, <2>1, <2>4, <3>1, <3>2
  <2>5. CASE rmode # "vector"
    <3>1. consumed' = consumed + ReaderAhead
      BY <1>1, <2>1, <2>5 DEF ReaderAhead, RingInv, TypeOK, RModes
    <3>2. Before' = Before /\ rptr' = rptr
      BY <1>1, <2>1, <2>3, <2>5, <3>1 DEF Before
    <3>3. QED
      BY <1>3, <3>2
  <2>6. QED
    BY <2>4, <2>5
<1>9. QED
  BY <1>5, <1>6, <1>7, <1>8

(* ringb.c is a bounded queue of Size - 1 samples: each segment it         *)
(* publishes is one Put or one Take of the samples next in line, and every *)
(* other step of a transfer is invisible, for every size, request and      *)
(* interleaving.                                                           *)
THEOREM RingIsQueue == Spec => ImplementsQueue
<1>1. Init => Abstract!Init
  <2> SUFFICES ASSUME Init PROVE Abstract!Init
    OBVIOUS
  <2>1. RingInv
    BY InitRingInv
  <2>2. RS = 0 /\ Before = 0 /\ sent - WriterAhead = 0
    BY DEF Init, RS, ReadSpace, Mask, Before, ReaderAhead, WriterAhead
  <2>3. Visible = <<>>
    BY <2>1, <2>2, VisibleIs DEF QueueShape, Run
  <2>4. QED
    BY <2>2, <2>3 DEF Abstract!Init, Before
<1>2. RingInv /\ RingInv' /\ [Next]_vars => [Abstract!Next]_(Abstract!vars)
  <2> SUFFICES ASSUME RingInv, RingInv', [Next]_vars
               PROVE  \/ Abstract!Put \/ Abstract!Take
                      \/ UNCHANGED <<Visible, sent - WriterAhead, Before>>
    BY DEF Abstract!Next, Abstract!vars, Before
  <2>1. CASE \/ \E asked \in 1 .. MaxRequest, mode \in WModes : WriteBegin(asked, mode)
             \/ WriteCopy \/ WriteSegment \/ WriteReturn
    BY <2>1, WriterMoves, PublishedIsPut
  <2>2. CASE \/ \E asked \in 1 .. MaxRequest, mode \in RModes : ReadBegin(asked, mode)
             \/ ReadCopy \/ ReadSegment \/ ReadReturn
    BY <2>2, ReaderMoves, ReleasedIsTake
  <2>3. CASE UNCHANGED vars
    BY <2>3
    DEF vars, wvars, rvars, Visible, Before, ReaderAhead, WriterAhead
  <2>4. QED
    BY <2>1, <2>2, <2>3 DEF Next
<1>3. QED
  BY <1>1, <1>2, RingInductive, PTL DEF Spec, ImplementsQueue, Abstract!Spec
=============================================================================
