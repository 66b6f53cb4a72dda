----------------------------- MODULE RunState ------------------------------
(***************************************************************************)
(* The run state of the radio and the receive/transmit switch: setRunState,*)
(* setTRX and setSWCH of update.c against run_mute .. run_swch of          *)
(* sdr-main.c.                                                             *)
(*                                                                         *)
(* A block of samples is worked on under the update semaphore (module      *)
(* Control), so commands fall between blocks only, which is anywhere in    *)
(* the envelope.  The envelope is one step per sample; its value is kept   *)
(* in units of its increment.                                              *)
(***************************************************************************)
EXTENDS Integers

CONSTANTS
  Frames,      \* samples in a block
  Envelopes,   \* lengths of fall, steady part and rise that setSWCH is given
  RunStates,   \* arguments of setRunState
  TestModes,   \* modes that setTEST is asked for
  MaxCommands  \* bound: commands in a behaviour

Modes  == {"RX", "TX"}
States == {"MUTE", "PASS", "PLAY", "SWCH", "TEST"}

(* sdr-main.c: "do not set RUN_SWCH directly via setRunState".             *)
ASSUME RunStateAssumption ==
  /\ Frames \in Nat \ {0} /\ Envelopes \subseteq Nat \X Nat \X Nat
  /\ RunStates \subseteq States \ {"SWCH"} /\ MaxCommands \in Nat

VARIABLES
  state,              \* top->state
  trx,                \* uni->mode.trx
  next, last,         \* top->swch.trx.next and run.last
  fall, stdy, rise,   \* top->swch.env.fall.size and so on
  type, cnt, val,     \* top->swch.env.curr
  i,                  \* sample of the block being worked on; 0 between blocks
  ncmd,               \* commands so far
  since,              \* samples worked on since the last setSWCH
  test,               \* top->test: its mode, and thru
  output              \* what the latest block without a switch left to be heard

env  == <<fall, stdy, rise>>
curr == <<type, cnt, val>>
bench == <<test, output>>
runVars == <<state, trx, next, last, env, curr, i, ncmd, since, bench>>

Most(a, b) == IF a > b THEN a ELSE b

(* 1.0 in units of fall.incr or rise.incr: size - 1 of them, at least one. *)
FullScale(size) == Most(size - 1, 1)

FirstTest == [mode |-> "TONE", thru |-> FALSE]

RunInit ==
  /\ state = "PLAY" /\ trx = "RX"
  /\ next = "RX" /\ last = "MUTE"
  /\ fall = 0 /\ stdy = 0 /\ rise = 0
  /\ type = "FALL" /\ cnt = 0 /\ val = 0
  /\ i = 0 /\ ncmd = 0 /\ since = 0
  /\ test = FirstTest /\ output = <<"as it is", "silence">>

-----------------------------------------------------------------------------
MayCommand == i = 0 /\ ncmd < MaxCommands /\ ncmd' = ncmd + 1

SetRunState(s) ==
  /\ MayCommand
  /\ state' = s
  /\ UNCHANGED <<trx, next, last, env, curr, i, since, bench>>

SetTRX(m) ==
  /\ MayCommand
  /\ trx' = m
  /\ UNCHANGED <<state, next, last, env, curr, i, since, bench>>

(* setNewBuflen goes back to the RX mode (setup_all) and to the first test *)
(* signal (setup_local_audio), whatever switch is going on; the switch     *)
(* goes on.                                                                *)
SetNewBuflen ==
  /\ MayCommand
  /\ trx' = "RX"
  /\ test' = FirstTest
  /\ UNCHANGED <<state, next, last, env, curr, i, since, output>>

(* setTEST and setTestThru: which signal, and whether it goes straight to  *)
(* the output (module Settings has the signals' own commands).             *)
SetTest(m, thru) ==
  /\ MayCommand
  /\ test' = [mode |-> m, thru |-> thru]
  /\ UNCHANGED <<state, trx, next, last, env, curr, i, since, output>>

(* A switch that is requested during a switch starts the envelope over and *)
(* keeps the state the first one came from.                                *)
SetSWCH(m, f, s, r) ==
  /\ MayCommand
  /\ next' = m
  /\ fall' = f /\ stdy' = s /\ rise' = r
  /\ type' = "FALL" /\ cnt' = 0 /\ val' = FullScale(f)
  /\ last' = IF state # "SWCH" THEN state ELSE last
  /\ state' = "SWCH"
  /\ since' = 0
  /\ UNCHANGED <<trx, i, bench>>

-----------------------------------------------------------------------------
(* run_test: the input is replaced, by silence where the mode is CHIRP.    *)
Signal == IF test.mode \in {"TONE", "2TONE", "NOISE"} THEN "test" ELSE "silence"

(* What process_samples makes of it: that is module Receiver's affair.     *)
Processed(x) == <<"processed", x>>

(* run_mute, run_pass, run_play and run_test, one block.                   *)
WholeBlock ==
  /\ state # "SWCH" /\ i = 0
  /\ output' = CASE state = "MUTE" -> <<"as it is", "silence">>
              [] state = "PASS" -> <<"as it is", "input">>
              [] state = "PLAY" -> Processed("input")
              [] state = "TEST" -> IF test.thru THEN <<"as it is", Signal>> ELSE Processed(Signal)
  /\ UNCHANGED <<state, trx, next, last, env, curr, i, ncmd, since, test>>

(* run_swch, one sample per step.                                          *)

NextSample == i' = (i + 1) % Frames

Fall ==
  /\ state = "SWCH" /\ type = "FALL"
  /\ IF cnt + 1 >= fall THEN type' = "STDY" /\ cnt' = 0 /\ val' = 0
                        ELSE cnt' = cnt + 1 /\ val' = val - 1 /\ UNCHANGED type
  /\ NextSample
  /\ since' = since + 1
  /\ UNCHANGED <<state, trx, next, last, env, ncmd, bench>>

Steady ==
  /\ state = "SWCH" /\ type = "STDY"
  /\ IF cnt + 1 >= stdy THEN type' = "RISE" /\ cnt' = 0 /\ val' = 0
                        ELSE cnt' = cnt + 1 /\ UNCHANGED <<type, val>>
  /\ NextSample
  /\ since' = since + 1
  /\ UNCHANGED <<state, trx, next, last, env, ncmd, bench>>

Rise ==
  /\ state = "SWCH" /\ type = "RISE" /\ cnt + 1 < rise
  /\ val' = val + 1
  /\ cnt' = cnt + 1
  /\ NextSample
  /\ since' = since + 1
  /\ UNCHANGED <<state, trx, next, last, env, type, ncmd, bench>>

(* Mutant: the switch ends in the mode it began in.                        *)
MutEndOfSwitch ==
  /\ state = "SWCH" /\ type = "RISE" /\ cnt + 1 >= rise
  /\ val' = val + 1
  /\ cnt' = cnt + 1
  /\ state' = last
  /\ i' = 0
  /\ since' = since + 1
  /\ UNCHANGED <<trx, next, last, env, type, ncmd, bench>>

(* The last sample of the rise: the new mode and the old state; break      *)
(* leaves the rest of the block as process_samples made it.                *)
EndOfSwitch ==
  /\ state = "SWCH" /\ type = "RISE" /\ cnt + 1 >= rise
  /\ val' = val + 1
  /\ cnt' = cnt + 1
  /\ trx' = next
  /\ state' = last
  /\ i' = 0
  /\ since' = since + 1
  /\ UNCHANGED <<next, last, env, type, ncmd, bench>>

SwitchSample == Fall \/ Steady \/ Rise \/ EndOfSwitch

RunNext ==
  \/ \E s \in RunStates : SetRunState(s)
  \/ \E m \in Modes : SetTRX(m)
  \/ SetNewBuflen
  \/ \E m \in TestModes, thru \in BOOLEAN : SetTest(m, thru)
  \/ WholeBlock
  \/ \E m \in Modes, z \in Envelopes : SetSWCH(m, z[1], z[2], z[3])
  \/ SwitchSample

RunSpec == RunInit /\ [][RunNext]_runVars

(* Blocks keep coming (AudioEngine, DspKeepsRunning).                      *)
RunFairSpec == RunSpec /\ WF_runVars(SwitchSample)

-----------------------------------------------------------------------------
RunTypeOK ==
  /\ state \in States /\ last \in States /\ trx \in Modes /\ next \in Modes
  /\ fall \in Nat /\ stdy \in Nat /\ rise \in Nat
  /\ type \in {"FALL", "STDY", "RISE"} /\ cnt \in Nat /\ val \in Int
  /\ test \in [mode : TestModes \cup {"TONE"}, thru : BOOLEAN]
  /\ output \in {"as it is", "processed"} \X {"input", "test", "silence"}
  /\ i \in 0 .. Frames - 1 /\ ncmd \in 0 .. MaxCommands /\ since \in Nat

(* However often a switch is requested while one is running, and however   *)
(* setRunState cuts in, a switch ends in a state that is not a switch.     *)
ReturnsToWork == last # "SWCH"

(* A switch takes the time it was given: fall, steady part and rise, each  *)
(* at least one sample, from the last request to the end.                  *)
Length == Most(fall, 1) + Most(stdy, 1) + Most(rise, 1)
OnTime == [][EndOfSwitch => since' = Length]_runVars

(* The falling half of the envelope goes one increment beyond 0, the       *)
(* rising half one beyond full scale, and never further; between them the  *)
(* output is silent.                                                       *)
EnvelopeBounded ==
  state = "SWCH" =>
    /\ type = "FALL" => val - 1 \in -1 .. FullScale(fall) - 1
    /\ type = "STDY" => val = 0
    /\ type = "RISE" => val + 1 \in 1 .. FullScale(rise) + 1

(* A requested switch is made, unless a later command takes its place.     *)
SwitchHappens ==
  \A m \in Modes, n \in 1 .. MaxCommands :
    (state = "SWCH" /\ next = m /\ ncmd = n) ~> (ncmd > n \/ (state # "SWCH" /\ trx = m))
=============================================================================
