---------------------------- MODULE KeyerThreads ----------------------------
(***************************************************************************)
(* The threads of iambic-keyer.c, working a straight key, and the tone     *)
(* generator of cwtones.c that they share without a lock.                  *)
(*                                                                         *)
(*   poll    poll_thread: reads the serial port, leaves it in poll_status  *)
(*   key     key_thread: at each tick, turns the tone on or off            *)
(*   play    sound_thread: makes one tick's worth of tone or of silence    *)
(*   update  update_thread: sets the length of the envelope                *)
(*                                                                         *)
(* The envelope is measured in units of which Full make the full level.    *)
(* The rings that carry the samples away are left out: no thread here      *)
(* looks at what is in them.  A local variable that is not read again is   *)
(* set back, so that states differ only in what matters.                   *)
(***************************************************************************)
EXTENDS Integers

CONSTANTS
  Size,      \* gen->size: samples in a tick
  Full,      \* full level of the envelope
  Ramps,     \* lengths of rise and fall in use, in samples
  MaxPosts,  \* bound: the semaphores are counted up to here
  MaxUpdates \* bound: commands read from stdin

ASSUME ThreadsAssumption ==
  /\ Size \in Nat \ {0} /\ Full \in Nat \ {0}
  /\ Ramps \subseteq Nat /\ Ramps # {}
  /\ \A w \in Ramps : w > 1 => Full % (w - 1) = 0
  /\ MaxPosts \in Nat \ {0} /\ MaxUpdates \in Nat

VARIABLES
  pc,           \* where each thread is
  paddle,       \* the key is closed
  poll_status,
  status,       \* status in read_straight_key, then keydown in key_thread
  playing,
  gen,          \* the tone generator
  sample,       \* i in CWTone
  stage,        \* the stage CWTone has read for this sample
  ramp,         \* what update_thread is about to set
  updates,      \* commands read so far
  poll_action, clock_fired, update_ok   \* semaphores

threadVars == <<pc, paddle, poll_status, status, playing, gen, sample, stage,
          ramp, updates, poll_action, clock_fired, update_ok>>

Threads == {"key", "play", "update"}
Stages  == {"RISE", "STDY", "FALL", "HOLD"}

Goto(t, l) == pc' = [pc EXCEPT ![t] = l]
Bounded(x, m) == IF x > m THEN m ELSE x

(* rise.incr, fall.incr.                                                   *)
Incr(w) == IF w <= 1 THEN Full ELSE Full \div (w - 1)

ThreadsInit ==
  /\ pc = [key |-> "tick", play |-> "wait", update |-> "read"]
  /\ paddle = FALSE /\ poll_status = FALSE /\ status = FALSE
  /\ playing = FALSE /\ sample = 0 /\ stage = "HOLD"
  /\ \E w \in Ramps :
       /\ gen = [stage |-> "HOLD", curr |-> 0, riseDur |-> w, fallDur |-> w,
                 riseWant |-> 0, riseHave |-> 0, fallWant |-> 0, fallHave |-> 0]
       /\ ramp = w
  /\ updates = 0
  /\ poll_action = 0 /\ clock_fired = 0 /\ update_ok = 0

-----------------------------------------------------------------------------
(* The operator's hand.                                                    *)
MoveKey ==
  /\ paddle' = ~paddle
  /\ UNCHANGED <<pc, poll_status, status, playing, gen, sample, stage,
                 ramp, updates, poll_action, clock_fired, update_ok>>

(* poll_thread: ioctl, poll_status |= ..., sem_post(&poll_action).  Nobody *)
(* else looks at the port, and the post only lets the key thread go on, so *)
(* these are one step.  The poller is never more than MaxPosts ahead.      *)
PollThread ==
  /\ poll_action < MaxPosts
  /\ poll_status' = (poll_status \/ paddle)
  /\ poll_action' = poll_action + 1
  /\ UNCHANGED <<pc, paddle, status, playing, gen, sample, stage, ramp,
                 updates, clock_fired, update_ok>>

-----------------------------------------------------------------------------
(* key_thread.                                                             *)

(* timed_delay, then sem_wait(&poll_action).                               *)
KeyTick ==
  /\ pc["key"] = "tick" /\ poll_action > 0
  /\ poll_action' = poll_action - 1
  /\ Goto("key", "read")
  /\ UNCHANGED <<paddle, poll_status, status, playing, gen, sample,
                 stage, ramp, updates, clock_fired, update_ok>>

(* status = poll_status.  With debounce 1 the state of the key is what was *)
(* read.                                                                   *)
KeyRead ==
  /\ pc["key"] = "read"
  /\ status' = poll_status
  /\ Goto("key", "clear")
  /\ UNCHANGED <<paddle, poll_status, playing, gen, sample, stage, ramp,
                 updates, poll_action, clock_fired, update_ok>>

(* Mutant: what was read is not cleared away.                              *)
MutKeyClear ==
  /\ pc["key"] = "clear"
  /\ Goto("key", "test")
  /\ UNCHANGED <<paddle, poll_status, status, playing, gen, sample,
                 stage, ramp, updates, poll_action, clock_fired, update_ok>>

(* poll_status = 0.                                                        *)
KeyClear ==
  /\ pc["key"] = "clear"
  /\ poll_status' = FALSE
  /\ Goto("key", "test")
  /\ UNCHANGED <<paddle, status, playing, gen, sample, stage, ramp,
                 updates, poll_action, clock_fired, update_ok>>

(* Mutant: a tone is started only when the last one has ended.            *)
MutKeyTestHold ==
  /\ pc["key"] = "test"
  /\ Goto("key", IF ~playing /\ status /\ gen.stage = "HOLD" THEN "on"
                 ELSE IF playing /\ ~status THEN "off" ELSE "post")
  /\ status' = FALSE
  /\ UNCHANGED <<paddle, poll_status, playing, gen, sample,
                 stage, ramp, updates, poll_action, clock_fired, update_ok>>

(* if (!playing && keydown) ... else if (playing && !keydown)              *)
KeyTest ==
  /\ pc["key"] = "test"
  /\ Goto("key", IF ~playing /\ status THEN "on"
                 ELSE IF playing /\ ~status THEN "off" ELSE "post")
  /\ status' = FALSE
  /\ UNCHANGED <<paddle, poll_status, playing, gen, sample,
                 stage, ramp, updates, poll_action, clock_fired, update_ok>>

(* CWToneOn, the rise.                                                     *)
CWToneOn ==
  /\ pc["key"] = "on"
  /\ gen' = [gen EXCEPT !.curr = 0, !.riseWant = gen.riseDur, !.riseHave = 0]
  /\ Goto("key", "onfall")
  /\ UNCHANGED <<paddle, poll_status, status, playing, sample, stage,
                 ramp, updates, poll_action, clock_fired, update_ok>>

(* Mutant: the fall goes on from where the last one stopped.               *)
MutCWToneOnFall ==
  /\ pc["key"] = "onfall"
  /\ gen' = [gen EXCEPT !.stage = "RISE", !.fallWant = gen.fallDur]
  /\ Goto("key", "play")
  /\ UNCHANGED <<paddle, poll_status, status, playing, sample, stage,
                 ramp, updates, poll_action, clock_fired, update_ok>>

(* CWToneOn, the fall and the stage.                                       *)
CWToneOnFall ==
  /\ pc["key"] = "onfall"
  /\ gen' = [gen EXCEPT !.stage = "RISE", !.fallWant = gen.fallDur,
                        !.fallHave = 0]
  /\ Goto("key", "play")
  /\ UNCHANGED <<paddle, poll_status, status, playing, sample, stage,
                 ramp, updates, poll_action, clock_fired, update_ok>>

(* playing = TRUE.                                                         *)
KeyPlay ==
  /\ pc["key"] = "play"
  /\ playing' = TRUE
  /\ Goto("key", "post")
  /\ UNCHANGED <<paddle, poll_status, status, gen, sample, stage, ramp,
                 updates, poll_action, clock_fired, update_ok>>

(* CWToneOff.                                                              *)
CWToneOff ==
  /\ pc["key"] = "off"
  /\ gen' = [gen EXCEPT !.stage = "FALL"]
  /\ Goto("key", "post")
  /\ UNCHANGED <<paddle, poll_status, status, playing, sample, stage,
                 ramp, updates, poll_action, clock_fired, update_ok>>

(* sem_post(&clock_fired).  At its bound the key thread waits: the clock   *)
(* does not run ahead of the sound thread by more.                         *)
KeyPost ==
  /\ pc["key"] = "post" /\ clock_fired < MaxPosts
  /\ clock_fired' = clock_fired + 1
  /\ Goto("key", "tick")
  /\ UNCHANGED <<paddle, poll_status, status, playing, gen, sample,
                 stage, ramp, updates, poll_action, update_ok>>

KeyThread ==
  KeyTick \/ KeyRead \/ KeyClear \/ KeyTest \/ CWToneOn
  \/ CWToneOnFall \/ KeyPlay \/ CWToneOff \/ KeyPost

-----------------------------------------------------------------------------
(* sound_thread.                                                           *)

(* sem_wait(&clock_fired); if (playing) ...; silence needs no more than    *)
(* send_silence and the post that lets an update through.                  *)
PlayTick ==
  /\ pc["play"] = "wait" /\ clock_fired > 0
  /\ clock_fired' = clock_fired - 1
  /\ Goto("play", IF playing THEN "stage" ELSE "silence")
  /\ UNCHANGED <<paddle, poll_status, status, playing, gen, sample, stage, ramp,
                 updates, poll_action, update_ok>>

(* Mutant: silence lets no update through.                                 *)
MutPlaySilence ==
  /\ pc["play"] = "silence"
  /\ Goto("play", "wait")
  /\ UNCHANGED <<paddle, poll_status, status, playing, gen, sample,
                 stage, ramp, updates, poll_action, clock_fired, update_ok>>

PlaySilence ==
  /\ pc["play"] = "silence"
  /\ update_ok' = Bounded(update_ok + 1, MaxPosts)
  /\ Goto("play", "wait")
  /\ UNCHANGED <<paddle, poll_status, status, playing, gen, sample,
                 stage, ramp, updates, poll_action, clock_fired>>

(* CWTone, one sample: which stage?                                        *)
SampleStage ==
  /\ pc["play"] = "stage" /\ sample < Size
  /\ stage' = gen.stage
  /\ Goto("play", "sample")
  /\ UNCHANGED <<paddle, poll_status, status, playing, gen, sample,
                 ramp, updates, poll_action, clock_fired, update_ok>>

(* ... and what happens to the envelope in it.  A count that has reached   *)
(* its end stays there; the code's goes on, which compares the same.       *)
Envelope(g) ==
  IF stage = "RISE" THEN
    IF g.riseHave < g.riseWant
    THEN [g EXCEPT !.riseHave = @ + 1, !.curr = @ + Incr(g.riseWant)]
    ELSE [g EXCEPT !.curr = Full, !.stage = "STDY"]
  ELSE IF stage = "FALL" THEN
    IF g.fallHave < g.fallWant
    THEN [g EXCEPT !.fallHave = @ + 1, !.curr = @ - Incr(g.fallWant)]
    ELSE [g EXCEPT !.curr = 0, !.stage = "HOLD"]
  ELSE g

Sample ==
  /\ pc["play"] = "sample"
  /\ gen' = Envelope(gen)
  /\ sample' = sample + 1
  /\ stage' = "HOLD"
  /\ Goto("play", "stage")
  /\ UNCHANGED <<paddle, poll_status, status, playing, ramp,
                 updates, poll_action, clock_fired, update_ok>>

(* return cwt->stage != CWTone_HOLD, read before playing is written.       *)
ToneReturn ==
  /\ pc["play"] = "stage" /\ sample = Size
  /\ stage' = gen.stage
  /\ Goto("play", "return")
  /\ UNCHANGED <<paddle, poll_status, status, playing, gen, sample,
                 ramp, updates, poll_action, clock_fired, update_ok>>

(* playing = CWTone(gen); send_tone().                                     *)
PlayReturn ==
  /\ pc["play"] = "return"
  /\ playing' = (stage # "HOLD")
  /\ sample' = 0 /\ stage' = "HOLD"
  /\ Goto("play", "wait")
  /\ UNCHANGED <<paddle, poll_status, status, gen, ramp,
                 updates, poll_action, clock_fired, update_ok>>

PlayThread ==
  PlayTick \/ PlaySilence \/ SampleStage \/ Sample \/ ToneReturn \/ PlayReturn

-----------------------------------------------------------------------------
(* update_thread: <ramp xxx>.                                              *)
ReadCommand ==
  /\ pc["update"] = "read" /\ updates < MaxUpdates
  /\ updates' = updates + 1
  /\ ramp' \in Ramps
  /\ Goto("update", "wait")
  /\ UNCHANGED <<paddle, poll_status, status, playing, gen, sample,
                 stage, poll_action, clock_fired, update_ok>>

(* sem_wait(&update_ok).                                                   *)
WaitUpdate ==
  /\ pc["update"] = "wait" /\ update_ok > 0
  /\ update_ok' = update_ok - 1
  /\ Goto("update", "rise")
  /\ UNCHANGED <<paddle, poll_status, status, playing, gen, sample,
                 stage, ramp, updates, poll_action, clock_fired>>

(* setCWToneGenVals.                                                       *)
SetRise ==
  /\ pc["update"] = "rise"
  /\ gen' = [gen EXCEPT !.riseDur = ramp]
  /\ Goto("update", "fall")
  /\ UNCHANGED <<paddle, poll_status, status, playing, sample, stage,
                 ramp, updates, poll_action, clock_fired, update_ok>>

SetFall ==
  /\ pc["update"] = "fall"
  /\ gen' = [gen EXCEPT !.fallDur = ramp]
  /\ Goto("update", "read")
  /\ UNCHANGED <<paddle, poll_status, status, playing, sample, stage,
                 ramp, updates, poll_action, clock_fired, update_ok>>

UpdateThread == ReadCommand \/ WaitUpdate \/ SetRise \/ SetFall

-----------------------------------------------------------------------------
ThreadsNext == MoveKey \/ PollThread \/ KeyThread \/ PlayThread \/ UpdateThread

ThreadsSpec == ThreadsInit /\ [][ThreadsNext]_threadVars

(* Every thread runs whenever it can; the key need not move and commands   *)
(* need not come.  Between two instructions of one thread another thread   *)
(* may get through its own, but not at every tick: not every poll is       *)
(* marked between KeyRead and KeyClear, where it is lost, and not every    *)
(* CWToneOff falls between the end of a tone and the test for it.          *)
Fairness ==
  /\ SF_threadVars(PollThread /\ pc["key"] # "clear")
  /\ SF_threadVars(ToneReturn /\ gen.stage = "HOLD")
  /\ WF_threadVars(PollThread) /\ WF_threadVars(KeyThread) /\ WF_threadVars(PlayThread)
  /\ WF_threadVars(WaitUpdate \/ SetRise \/ SetFall)

FairSpec == ThreadsSpec /\ Fairness

-----------------------------------------------------------------------------
Generator ==
  [stage : Stages, curr : Int, riseDur : Ramps, fallDur : Ramps,
   riseWant : Ramps \cup {0}, riseHave : Nat,
   fallWant : Ramps \cup {0}, fallHave : Nat]

ThreadsTypeOK ==
  /\ pc \in [Threads -> {"post", "tick", "read", "clear",
                         "test", "on", "onfall", "play", "off", "wait", "silence",
                         "stage", "sample", "return", "rise", "fall"}]
  /\ paddle \in BOOLEAN /\ poll_status \in BOOLEAN
  /\ status \in BOOLEAN /\ playing \in BOOLEAN
  /\ gen \in Generator
  /\ sample \in 0 .. Size /\ stage \in Stages
  /\ ramp \in Ramps /\ updates \in 0 .. MaxUpdates
  /\ poll_action \in 0 .. MaxPosts /\ clock_fired \in 0 .. MaxPosts
  /\ update_ok \in 0 .. MaxPosts

(* The generator is set up for a new tone only while the sound thread is   *)
(* not in the middle of one, although nothing but the order in which the   *)
(* two write and test playing keeps them apart.                            *)
SettingUp  == pc["key"] \in {"on", "onfall"}
SetUpAlone == SettingUp => pc["play"] \notin {"stage", "sample", "return"}

(* Whatever has been going on, the radio is silent while no tone plays.    *)
EndsAtZero == ~playing => gen.curr = 0

(* However the key is tapped, the level stays within one step of the full  *)
(* level on either side of zero.                                           *)
LevelBounded ==
  /\ gen.curr <= Full + Incr(gen.riseWant)
  /\ gen.curr >= -(Full + Incr(gen.fallWant))

(* When the key is left open the radio falls silent for good, although the *)
(* key thread, seeing playing, may ask for the fall again after its end.   *)
OpenKeySilences == <>[]~paddle => <>[](gen.curr = 0)

(* While the key is held the tone comes back whenever it is off.           *)
HeldKeySounds == <>[]paddle => []<>playing

(* A command is carried out in the end, if the key is left open.           *)
CommandsDone ==
  <>[]~paddle => (pc["update"] = "wait" ~> pc["update"] # "wait")

(* The level moves from sample to sample by no more than one step, of the  *)
(* rise or of the fall.                                                    *)
SmallSteps ==
  \E step \in {Incr(gen.riseWant), Incr(gen.fallWant)} :
    gen'.curr - gen.curr <= step /\ gen.curr - gen'.curr <= step

(* A tone whose rise was complete fades without a jump, though the fall is *)
(* asked for again at every tick, and at any sample of the fall, and a     *)
(* command may have come between the lengths of the two.                   *)
HasRisen == gen.riseHave = gen.riseWant /\ 0 \notin {gen.riseWant, gen.fallWant}
WholeTonesFade == [][~SettingUp /\ HasRisen => SmallSteps]_gen

(* cwtones.c: "An ASR envelope ... with asynchronous trigger for R stage". *)
(* No tone ends in a jump.                                                 *)
TonesFade == [][~SettingUp => SmallSteps]_gen

(* iambic-keyer.c, update_thread: "wait until changes are safe".  The rise *)
(* and the fall of a tone are of one setting.                              *)
OneSetting == playing => gen.riseWant = gen.fallWant

(* iambic-keyer.c, read_straight_key: "Get most recent input port status". *)
(* A tone does not stop while the key is held.                             *)
HeldKeyHeld == <>[]paddle => <>[]playing
=============================================================================
