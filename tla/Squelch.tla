------------------------------ MODULE Squelch ------------------------------
(***************************************************************************)
(* The squelches of sdr.c: one per receiver and one in the transmitter,    *)
(* each run once per block of samples by process_samples.                  *)
(*                                                                         *)
(* Of a block only the loudness at its two ends is kept: 0 is silence, 1   *)
(* the full signal; a block that slews has different ends.                 *)
(***************************************************************************)
EXTENDS Integers

CONSTANT NRx   \* uni->multirx.nrx

ASSUME SquelchAssumption == NRx \in Nat \ {0}

Rx       == 0 .. NRx - 1
Tx       == NRx
Channels == Rx \cup {Tx}

VARIABLES
  trx,        \* uni->mode.trx
  act,        \* uni->multirx.act
  flag,       \* squelch.flag of each channel
  set,        \* squelch.set
  running,    \* squelch.running
  first, end  \* loudness at the ends of the latest block of each channel

vars == <<trx, act, flag, set, running, first, end>>

(* setup_rx and setup_tx; nothing has been squelched yet.                  *)
Init ==
  /\ trx = "RX" /\ act = {0}
  /\ flag = [c \in Channels |-> FALSE]
  /\ set = [c \in Channels |-> FALSE]
  /\ running = [c \in Channels |-> FALSE]
  /\ first = [c \in Channels |-> 1] /\ end = [c \in Channels |-> 1]

-----------------------------------------------------------------------------
(* setSquelchSt and setTXSquelchSt; setRXOn and setRXOff; setTRX and the    *)
(* end of a switch (module RunState).                                      *)

SetSquelchSt(c, b) ==
  /\ flag' = [flag EXCEPT ![c] = b]
  /\ UNCHANGED <<trx, act, set, running, first, end>>

SetRX(k) ==
  /\ act' = IF k \in act THEN act \ {k} ELSE act \cup {k}
  /\ UNCHANGED <<trx, flag, set, running, first, end>>

SetTRX(m) ==
  /\ trx' = m
  /\ UNCHANGED <<act, flag, set, running, first, end>>

(* setNewBuflen: new receivers, a new transmitter and a new RX mode; what   *)
(* was squelched before is forgotten, and no block has been heard yet.      *)
SetNewBuflen ==
  /\ trx' = "RX" /\ act' = {0}
  /\ flag' = [c \in Channels |-> FALSE]
  /\ set' = [c \in Channels |-> FALSE]
  /\ running' = [c \in Channels |-> FALSE]
  /\ first' = [c \in Channels |-> 1] /\ end' = [c \in Channels |-> 1]

-----------------------------------------------------------------------------
(* One block.  quiet says which channels are below their threshold.        *)

(* should_do_rx_squelch, which also leaves its verdict in squelch.set.     *)
SquelchRx(k, quiet) == flag[k] /\ k \in quiet

(* Mutant: a squelch that opens does not slew.                             *)
MutOpened(c) == 1

(* Loudness at the head of a block that is let through: no_rx_squelch and  *)
(* no_tx_squelch slew out of silence if the squelch was running.           *)
Opened(c) == IF running[c] THEN 0 ELSE 1

(* Loudness at the head of a block that is squelched: do_rx_squelch and    *)
(* do_tx_squelch slew into silence the first time.                         *)
Closed(c) == IF running[c] THEN 0 ELSE 1

(* do_rx_pre and do_rx_post of every active receiver.                      *)
ReceiveBlock(quiet) ==
  LET shut == {k \in act : SquelchRx(k, quiet)} IN
  /\ trx = "RX"
  /\ set' = [c \in Channels |-> IF c \in shut THEN TRUE
                         ELSE IF c \in act THEN FALSE ELSE set[c]]
  /\ running' = [c \in Channels |-> IF c \in shut THEN TRUE
                         ELSE IF c \in act THEN FALSE ELSE running[c]]
  /\ first' = [c \in Channels |-> IF c \in shut THEN Closed(c)
                                  ELSE IF c \in act THEN Opened(c) ELSE first[c]]
  /\ end' = [c \in Channels |-> IF c \in shut THEN 0
                                ELSE IF c \in act THEN 1 ELSE end[c]]
  /\ UNCHANGED <<trx, act, flag>>

(* do_tx_pre, the signal below the threshold.                              *)
SquelchTx ==
  /\ trx = "TX" /\ flag[Tx]
  /\ set' = [set EXCEPT ![Tx] = TRUE]
  /\ running' = [running EXCEPT ![Tx] = TRUE]
  /\ first' = [first EXCEPT ![Tx] = Closed(Tx)]
  /\ end' = [end EXCEPT ![Tx] = 0]
  /\ UNCHANGED <<trx, act, flag>>

(* do_tx_pre, the signal let through.  should_do_tx_squelch clears         *)
(* squelch.set only if the squelch is off, and no_tx_squelch is called     *)
(* only if set is clear.                                                   *)
PassTx ==
  LET lifted == ~flag[Tx] \/ ~set[Tx] IN
  /\ trx = "TX"
  /\ set' = [set EXCEPT ![Tx] = @ /\ flag[Tx]]
  /\ running' = [running EXCEPT ![Tx] = @ /\ ~lifted]
  /\ first' = [first EXCEPT ![Tx] = IF lifted THEN Opened(Tx) ELSE 1]
  /\ end' = [end EXCEPT ![Tx] = 1]
  /\ UNCHANGED <<trx, act, flag>>

Block == (\E quiet \in SUBSET Rx : ReceiveBlock(quiet)) \/ SquelchTx \/ PassTx

Next ==
  \/ \E c \in Channels, b \in BOOLEAN : SetSquelchSt(c, b)
  \/ \E k \in Rx : SetRX(k)
  \/ \E m \in {"RX", "TX"} : SetTRX(m)
  \/ SetNewBuflen
  \/ Block

Spec == Init /\ [][Next]_vars

-----------------------------------------------------------------------------
Loudness == 0 .. 1

TypeOK ==
  /\ trx \in {"RX", "TX"} /\ act \subseteq Rx
  /\ flag \in [Channels -> BOOLEAN] /\ set \in [Channels -> BOOLEAN]
  /\ running \in [Channels -> BOOLEAN]
  /\ first \in [Channels -> Loudness] /\ end \in [Channels -> Loudness]

(* squelch.running remembers how the last block of a receiver ended, also  *)
(* while the receiver is off and while the radio transmits.                *)
SlewMemory == \A k \in Rx : running[k] <=> end[k] = 0

(* A block of channel c begins as loud as the block before it ended.       *)
Seamless(c) == first'[c] = end[c]

(* sdr.c: "slew into silence first time" and "slew out from silence to     *)
(* full scale".  Whatever is switched on or off between two blocks of a    *)
(* receiver, its squelch makes no step from silence to signal or back.     *)
RxSlews ==
  [][\A quiet \in SUBSET Rx : ReceiveBlock(quiet) => \A k \in act : Seamless(k)]_vars

(* The same of the transmitter.                                            *)
TxSlews == [][SquelchTx \/ PassTx => Seamless(Tx)]_vars
=============================================================================
