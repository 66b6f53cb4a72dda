------------------------------ MODULE SpotTone ------------------------------
(***************************************************************************)
(* The spotting tone of a receiver: spottone.c, the commands that turn it  *)
(* on and off, and its place in do_rx_post.  Commands fall between blocks. *)
(* The envelope is counted in units of which Full are full level; its sine *)
(* shape folds what goes past the full level back under it.                *)
(***************************************************************************)
EXTENDS Integers, Sequences, SequencesExt

CONSTANTS
  Full,       \* full level of the envelope
  Lengths,    \* lengths of rise and fall in use, in samples
  SpotBlock,  \* st->size
  MaxTouches  \* bound: commands in a behaviour

ASSUME SpotAssumption ==
  /\ Full \in Nat \ {0} /\ Lengths \subseteq Nat /\ SpotBlock \in Nat \ {0}
  /\ \A w \in Lengths : w > 1 => Full % (w - 1) = 0

VARIABLES
  flag,     \* rx[k]->spot.flag
  st,       \* rx[k]->spot.gen
  levels,   \* the levels of the last block, from the one before its first
  touches,  \* commands so far
  smooth    \* the tone was turned on from silence, and not off while it rose

spotVars == <<flag, st, levels, touches, smooth>>

Incr(want) == IF want <= 1 THEN Full ELSE Full \div (want - 1)
Level(curr) == IF curr > Full THEN 2 * Full - curr ELSE curr

(* newSpotToneGen.  The generator is zeroed memory, and stage 0 is IDLE.   *)
SpotInit ==
  /\ flag = FALSE /\ levels = <<0>> /\ touches = 0 /\ smooth = TRUE
  /\ \E w \in Lengths : st = [stage |-> "IDLE", curr |-> 0, rise |-> w, fall |-> w,
                               riseWant |-> 0, riseHave |-> 0, fallWant |-> 0, fallHave |-> 0]

Touch == touches < MaxTouches /\ touches' = touches + 1

setSpotToneGenVals(rise, fall) ==
  /\ Touch
  /\ st' = [st EXCEPT !.rise = rise, !.fall = fall]
  /\ UNCHANGED <<flag, levels, smooth>>

(* Mutant: the samples of the last rise are still counted.                 *)
MutSpotToneOn ==
  /\ Touch
  /\ st' = [st EXCEPT !.stage = "RISE", !.curr = 0, !.riseWant = st.rise, !.fallWant = st.fall,
                      !.fallHave = 0]
  /\ flag' = TRUE
  /\ smooth' = (Level(st.curr) = 0)
  /\ levels' = <<0>>

SpotToneOn ==
  /\ Touch
  /\ st' = [st EXCEPT !.stage = "RISE", !.curr = 0, !.riseWant = st.rise, !.riseHave = 0,
                      !.fallWant = st.fall, !.fallHave = 0]
  /\ flag' = TRUE
  /\ smooth' = (Level(st.curr) = 0)
  /\ levels' = <<0>>

SpotToneOff ==
  /\ Touch
  /\ st' = [st EXCEPT !.stage = "FALL"]
  /\ smooth' = (smooth /\ st.stage # "RISE")
  /\ UNCHANGED <<flag, levels>>

Risen(s) ==
  IF s.riseHave < s.riseWant
  THEN [s EXCEPT !.riseHave = @ + 1, !.curr = @ + Incr(s.riseWant)]
  ELSE [s EXCEPT !.riseHave = @ + 1, !.curr = Full, !.stage = "STDY"]

Fallen(s) ==
  IF s.fallHave < s.fallWant
  THEN [s EXCEPT !.fallHave = @ + 1, !.curr = @ - Incr(s.fallWant)]
  ELSE [s EXCEPT !.fallHave = @ + 1, !.curr = 0, !.stage = "HOLD"]

Enveloped(s) == CASE s.stage = "RISE" -> Risen(s)
                  [] s.stage = "FALL" -> Fallen(s)
                  [] OTHER            -> s

(* One turn of the loop of SpotTone, and all of it.                       *)
Toned(a) ==
  LET s == Enveloped(a.s) IN [s |-> s, levels |-> Append(a.levels, Level(s.curr))]

SpotTone ==
  LET after[n \in 0 .. SpotBlock] ==
        IF n = 0 THEN [s |-> st, levels |-> <<Level(st.curr)>>] ELSE Toned(after[n - 1])
  IN  after[SpotBlock]

(* do_rx_post: behind a closed squelch the tone stands still.              *)
SpotBlockDone(set) ==
  /\ flag /\ ~set
  /\ st' = SpotTone.s
  /\ levels' = SpotTone.levels
  /\ flag' = (SpotTone.s.stage # "HOLD")
  /\ UNCHANGED <<touches, smooth>>

SpotNext ==
  \/ \E rise, fall \in Lengths : setSpotToneGenVals(rise, fall)
  \/ SpotToneOn
  \/ SpotToneOff
  \/ \E set \in BOOLEAN : SpotBlockDone(set)

SpotSpec == SpotInit /\ [][SpotNext]_spotVars

-----------------------------------------------------------------------------
Diff(a, b) == IF a > b THEN a - b ELSE b - a

(* The level of a tone that is turned on in silence and not off before it  *)
(* is up never changes by more than a step of its rise or its fall from    *)
(* one sample to the next, whatever is set meanwhile and however the       *)
(* commands fall between blocks; and when the flag says that the tone is   *)
(* over, it has ended in silence.  Toned off while it rises, the level    *)
(* goes below zero and jumps back; turned on while it falls, it jumps to   *)
(* zero: smooth leaves these out.                                          *)
SpotNoClick ==
  /\ smooth => \A i \in 2 .. Len(levels) :
                 Diff(levels[i], levels[i - 1])
                   <= IF Incr(st.riseWant) > Incr(st.fallWant) THEN Incr(st.riseWant) ELSE Incr(st.fallWant)
  /\ ~flag => Last(levels) = 0 /\ st.curr = 0
=============================================================================
