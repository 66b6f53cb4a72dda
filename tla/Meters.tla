------------------------------- MODULE Meters -------------------------------
(***************************************************************************)
(* The meters: do_rx_meter and do_tx_meter of sdr.c measure every block,   *)
(* reqMeter and its kin (update.c, meter.c) take a snapshot, and the meter *)
(* thread of sdr-main.c sends it.  Each of them works under the update     *)
(* semaphore (module Control), so each is one step.  The radio is one that *)
(* runs with metering on (uni->meter.flag).                                *)
(*                                                                         *)
(* A measurement is the number of the block it was made of; 0 is the -KINDA*)
(* of reset_meters.  What this keeps out of sight: the damped averages of  *)
(* WAVS and CPDR share one variable, and CPDR and LEVELER are both taken   *)
(* of buf.i.                                                               *)
(***************************************************************************)
EXTENDS Integers, Sequences

CONSTANTS
  Receivers,   \* receivers that exist
  TxModes,     \* arguments of setTXMeterMode
  MaxBlocks,   \* bound: blocks in a behaviour
  MaxAsked     \* bound: requests in a behaviour

TxPoints == {"MIC", "PWR", "EQtap", "LEVELER", "COMP", "CPDR", "WAVS", "LVL_G"}
RxPoints == {"SIGNAL_STRENGTH", "AVG_SIGNAL_STRENGTH", "ADC", "AGC_GAIN"}

ASSUME MetersAssumption ==
  /\ TxModes \subseteq TxPoints \cup {"NONE"}
  /\ MaxBlocks \in Nat /\ MaxAsked \in Nat

VARIABLES
  meter,   \* uni->meter: rx and tx values, tx mode, label, last, snapshots
  posts,   \* top->sync.mtr
  block,   \* blocks processed so far
  heard,   \* latest block of each receiver
  seen,    \* latest block transmitted: its number, its meter mode, squelched?
  wanted,  \* what each request so far should show, by label
  packets  \* packets sent

meterVars == <<meter, posts, block, heard, seen, wanted, packets>>

NoRx == [k \in Receivers |-> [p \in RxPoints |-> 0]]
NoTx == [p \in TxPoints |-> 0]

MetersInit ==
  /\ meter = [rx |-> NoRx, tx |-> NoTx, mode |-> "MIC", label |-> 0, last |-> "RX",
              snap |-> [rx |-> NoRx, tx |-> NoTx]]
  /\ posts = 0 /\ block = 0
  /\ heard = [k \in Receivers |-> 0]
  /\ seen = [block |-> 0, mode |-> "MIC", shut |-> FALSE]
  /\ wanted = <<>> /\ packets = {}

-----------------------------------------------------------------------------
(* do_rx_meter at its three taps.  Nothing sets meter.rx.mode, so that the *)
(* average starts anew with every block.                                   *)
RxTaps == [PRE_CONV  |-> {"ADC"},
           POST_FILT |-> {"SIGNAL_STRENGTH", "AVG_SIGNAL_STRENGTH"},
           POST_AGC  |-> {"AGC_GAIN"}]

RxMeasured == UNION {RxTaps[t] : t \in DOMAIN RxTaps}

(* The taps of do_tx_pre and do_tx_post; a squelched block skips three.    *)
TxTaps(shut) ==
  {"WAVS", "MIC", "CPDR", "PWR"} \cup (IF shut THEN {} ELSE {"EQtap", "LEVELER", "COMP"})

(* do_tx_meter: only the selected tap is measured, and the gain of the     *)
(* leveler along with its output; TX_LVL_G itself has no case.             *)
TxMeasured(shut) ==
  IF meter.mode \notin TxTaps(shut) THEN {}
  ELSE {meter.mode} \cup (IF meter.mode = "LEVELER" THEN {"LVL_G"} ELSE {})

MeasureRx(on) ==
  /\ block < MaxBlocks /\ block' = block + 1
  /\ meter' = [meter EXCEPT !.rx = [k \in Receivers |-> [p \in RxPoints |->
                 IF k \in on /\ p \in RxMeasured THEN block' ELSE @[k][p]]]]
  /\ heard' = [k \in Receivers |-> IF k \in on THEN block' ELSE heard[k]]
  /\ UNCHANGED <<posts, seen, wanted, packets>>

MeasureTx(shut) ==
  /\ block < MaxBlocks /\ block' = block + 1
  /\ meter' = [meter EXCEPT !.tx = [p \in TxPoints |->
                 IF p \in TxMeasured(shut) THEN block' ELSE @[p]]]
  /\ seen' = [block |-> block', mode |-> meter.mode, shut |-> shut]
  /\ UNCHANGED <<posts, heard, wanted, packets>>

SetTXMeterMode(m) ==
  /\ meter' = [meter EXCEPT !.mode = m]
  /\ UNCHANGED <<posts, block, heard, seen, wanted, packets>>

(* setNewBuflen: reset_meters; the snapshots and their label stay.         *)
ResetMeters ==
  /\ meter' = [meter EXCEPT !.rx = NoRx, !.tx = NoTx]
  /\ heard' = [k \in Receivers |-> 0]
  /\ seen' = [seen EXCEPT !.block = 0]
  /\ UNCHANGED <<posts, block, wanted, packets>>

-----------------------------------------------------------------------------
SnapMeterRx(mb, label) == [mb EXCEPT !.snap.rx = mb.rx, !.label = label, !.last = "RX"]

(* Mutant: the snapshot does not say which way the radio was.              *)
MutSnapMeterTx(mb, label) == [mb EXCEPT !.snap.tx = mb.tx, !.label = label]

SnapMeterTx(mb, label) == [mb EXCEPT !.snap.tx = mb.tx, !.label = label, !.last = "TX"]

(* reqMeter, reqRXMeter and reqTXMeter; here the labels count up.          *)
ReqMeter(trx) ==
  LET label == Len(wanted) + 1 IN
  /\ label <= MaxAsked
  /\ meter' = IF trx = "RX" THEN SnapMeterRx(meter, label) ELSE SnapMeterTx(meter, label)
  /\ posts' = posts + 1
  /\ wanted' = Append(wanted, [trx |-> trx, heard |-> heard, seen |-> seen])
  /\ UNCHANGED <<block, heard, seen, packets>>

(* The packet: the label and the snapshot of the side that was asked last. *)
MeterThread ==
  /\ posts > 0 /\ posts' = posts - 1
  /\ packets' = packets \cup {[label |-> meter.label, last |-> meter.last,
                         vals |-> IF meter.last = "RX" THEN meter.snap.rx ELSE meter.snap.tx]}
  /\ UNCHANGED <<meter, block, heard, seen, wanted>>

MetersNext ==
  \/ \E on \in SUBSET Receivers : MeasureRx(on)
  \/ \E shut \in BOOLEAN : MeasureTx(shut)
  \/ \E m \in TxModes : SetTXMeterMode(m)
  \/ ResetMeters
  \/ \E trx \in {"RX", "TX"} : ReqMeter(trx)
  \/ MeterThread

MetersSpec == MetersInit /\ [][MetersNext]_meterVars

-----------------------------------------------------------------------------
(* A packet may be sent late, twice, or after another request took its     *)
(* place, but what it shows is what its label asked for: of the receiver   *)
(* side the latest block of every receiver at that time, also of one that  *)
(* has been off since; of the transmitter the latest block in the point    *)
(* that was selected then.  A squelched block is not seen by the equaliser,*)
(* the leveler and the compressor, and the leveler's gain never by itself. *)
PacketsHonest ==
  \A p \in packets :
    LET then == wanted[p.label] IN
    /\ p.last = then.trx
    /\ then.trx = "RX" => p.vals = [k \in Receivers |-> [q \in RxPoints |-> then.heard[k]]]
    /\ (then.trx = "TX" /\ then.seen.mode \notin {"LVL_G", "NONE"}) =>
         \/ p.vals[then.seen.mode] = then.seen.block
         \/ then.seen.shut /\ then.seen.mode \in {"EQtap", "LEVELER", "COMP"}
=============================================================================
