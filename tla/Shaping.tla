------------------------------ MODULE Shaping ------------------------------
(***************************************************************************)
(* The stages of the transmitter that look samples up in a table: the wave *)
(* shaper (waveshape.c) and the compander (wscompand.c), with the commands *)
(* that fill the tables.  A sample is its level in units of one over Unit, *)
(* and of a table it matters which places are read, and that it is there.  *)
(*                                                                         *)
(* Each stage works on a buffer header of its own (newCXB) around the      *)
(* samples of the transmitter's buffer.  A new header has no samples       *)
(* (CXBhave 0), and nothing in the radio tells it of any, so that there    *)
(* Have is 0; a caller of the stage who fills its header has Have = Block. *)
(***************************************************************************)
EXTENDS Integers

CONSTANTS
  Unit,        \* level 1.0
  Block,       \* samples in tx->buf
  Have,        \* CXBhave of the headers of the two stages
  CpdLen,      \* uni->cpdlen, places in the compander's table
  Points,      \* lengths of the tables that the wave shaper is given
  MaxOrders    \* bound: commands in a behaviour

(* The command takes a length of any kind (a negative one ends the program *)
(* in newvec_REAL).                                                        *)
ASSUME ShapingAssumption ==
  /\ Unit \in Nat \ {0} /\ Block \in Nat /\ Have \in {0, Block}
  /\ CpdLen \in Nat \ {0, 1} /\ MaxOrders \in Nat
  /\ Points \subseteq Nat

Levels == -2 * Unit .. 2 * Unit

VARIABLES
  wvs,     \* tx->wvs: flag, npts, whether there is a pointer tbl, and how many
           \* places there are behind it
  cpd,     \* tx->cpd: flag, and the shape of its table
  read,    \* places read for the last block, of either table
  worked,  \* samples that the compander worked on, if the last step was a block
  orders   \* commands so far

shapingVars == <<wvs, cpd, read, worked, orders>>

(* newWaveShaper, newWSCompander.                                          *)
newWaveShaper    == [flag |-> FALSE, npts |-> 0, tbl |-> FALSE, places |-> 0]
newWSCompander   == [flag |-> FALSE, table |-> "exponential"]
Nothing          == [wvs |-> {}, cpd |-> {}]
NoBlock          == -1

ShapingInit ==
  wvs = newWaveShaper /\ cpd = newWSCompander /\ read = Nothing /\ worked = NoBlock /\ orders = 0

Order == orders < MaxOrders /\ orders' = orders + 1 /\ read' = Nothing /\ worked' = NoBlock

(* setWaveShaper: one more place than there are points.  Without points    *)
(* the table is freed, but the pointer to it stays, and the next command   *)
(* frees it once more (which may end the program).                         *)
SetWaveShaper(npts) ==
  IF npts < 1 THEN [wvs EXCEPT !.npts = 0, !.places = 0]
  ELSE [wvs EXCEPT !.npts = npts, !.tbl = TRUE, !.places = npts + 1]

(* With fewer than two arguments the table goes, and npts stays.           *)
SetTXWaveShapeFunc ==
  /\ Order /\ UNCHANGED cpd
  /\ \/ wvs' = [wvs EXCEPT !.tbl = FALSE, !.places = 0]
     \/ \E npts \in Points : wvs' = SetWaveShaper(npts)

SetTXWaveShapeSt == Order /\ UNCHANGED cpd /\ \E on \in BOOLEAN : wvs' = [wvs EXCEPT !.flag = on]
SetTXCompandSt   == Order /\ UNCHANGED wvs /\ \E on \in BOOLEAN : cpd' = [cpd EXCEPT !.flag = on]

(* WSCReset fills all of the table, with a line or an exponential.         *)
WSCReset(fac) == [cpd EXCEPT !.table = IF fac = 0 THEN "linear" ELSE "exponential"]
SetTXCompand  == Order /\ UNCHANGED wvs /\ \E fac \in {-1, 0, 1} : cpd' = WSCReset(fac)

-----------------------------------------------------------------------------
Clip(x) == IF x < -Unit THEN -Unit ELSE IF x > Unit THEN Unit ELSE x

(* Between j and j + 1, even at the very end.                              *)
WaveShape(x) ==
  LET half == wvs.npts \div 2
      j == (half * (Clip(x) + Unit)) \div Unit
  IN  IF wvs.tbl THEN {j, j + 1} ELSE {}

(* A level of 1.0 and more is looked up at the end.                        *)
WSCLookup(mag) ==
  LET i == (mag * CpdLen) \div Unit
      end == CpdLen - 1
  IN  IF mag > 0 THEN (IF i < end THEN {i, i + 1} ELSE {end}) ELSE {}

WSCompand(x) == WSCLookup(IF x < 0 THEN -x ELSE x)

(* A block through do_tx_pre and do_tx_post.                               *)
TxBlock ==
  \E samples \in [1 .. Block -> Levels] :
    /\ read' = [wvs |-> IF wvs.flag THEN UNION {WaveShape(samples[i]) : i \in 1 .. Have} ELSE {},
                cpd |-> IF cpd.flag THEN UNION {WSCompand(samples[i]) : i \in 1 .. Have} ELSE {}]
    /\ worked' = IF cpd.flag THEN Have ELSE 0
    /\ UNCHANGED <<wvs, cpd, orders>>

ShapingNext ==
  SetTXWaveShapeFunc \/ SetTXWaveShapeSt \/ SetTXCompandSt \/ SetTXCompand \/ TxBlock

ShapingSpec == ShapingInit /\ [][ShapingNext]_shapingVars

-----------------------------------------------------------------------------
(* Places read that are not in the table of the wave shaper.               *)
Beside == read.wvs \ (0 .. wvs.places - 1)

(* waveshape.c: "Original table should have odd length".  Only then does   *)
(* no level, of either sign and however large, make the wave shaper read   *)
(* beside its table, whatever tables were given to it before or taken      *)
(* away.  Of a table of an even number of points it may read the place     *)
(* behind the last, and of one of no points two places of freed memory.    *)
(* The compander never reads beside its own.                               *)
LookupsInside ==
  /\ wvs.npts % 2 = 1 => Beside = {}
  /\ (wvs.npts # 0 /\ wvs.npts % 2 = 0) => Beside \subseteq {wvs.places}
  /\ wvs.npts = 0 => Beside \subseteq {0, 1}
  /\ read.cpd \subseteq 0 .. CpdLen - 1

(* What setTXCompandSt is for: with the compander on, it has worked on the *)
(* whole block.  In the radio (Have = 0) it works on none of it.           *)
CompanderWorks == (worked # NoBlock /\ cpd.flag) => worked = Block
=============================================================================
