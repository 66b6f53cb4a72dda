------------------------------ MODULE SoftRock ------------------------------
(***************************************************************************)
(* iambic-keyer-for-SR.c: the paddles are read from a radio, and the radio *)
(* is keyed, over one UDP socket that four threads use without a lock.     *)
(*                                                                         *)
(*   poll    poll_thread: asks for the paddles                             *)
(*   key     key_thread: at each tick reads them, keys the transmitter,    *)
(*           and sounds what was read key_FIFO_SIZE - 1 ticks ago          *)
(*   timer   PTT_timer_thread: lets go of the transmitter                  *)
(*   update  update_thread: sets the tone, ends the program                *)
(*                                                                         *)
(* The keyer logic is that of iambic-keyer.c, word for word: KeyerLogic.   *)
(* So are the sound thread and its generator, and the two steps in which   *)
(* poll_status is read and cleared: KeyerThreads.  hang_time++ is one step *)
(* here, and two in KeyboardKeyer.                                         *)
(***************************************************************************)
EXTENDS Integers, Sequences, FiniteSets

CONSTANTS
  FIFO,      \* key_FIFO_SIZE
  Threshold, \* HANG_TIME_THRESHOLD
  Dit,       \* length of a dit, in ticks
  Positions, \* sets of closed paddles in use
  MaxPosts,  \* bound: how far the poller is ahead of the key thread
  MaxTones   \* bound: <freq ...> commands

ASSUME SoftRockAssumption ==
  /\ FIFO \in Nat \ {0, 1} /\ Threshold \in Nat /\ Threshold > FIFO
  /\ Positions \subseteq SUBSET {"dit", "dah"} /\ {} \in Positions
  /\ Dit \in Nat \ {0} /\ MaxPosts \in Nat \ {0} /\ MaxTones \in Nat

VARIABLES
  iambic,                  \* -i
  paddles,                 \* external: the paddles closed
  requests, replies,       \* external: datagrams on their way
  radio,                   \* external: the transmitter is keyed
  pc,                      \* where each thread is
  link, buff, param,       \* pSa and sock; the buffer of send_command; param
  used,                    \* used: the command whose length it holds
  passed,                  \* the length each thread has given to sendto
  poll_status, poll_action,
  kl,                      \* the KeyerLogic structure
  key_FIFO, i,             \* key_FIFO and its index in key_thread
  tone,                    \* keydown as the tone generator was told last
  PTT_state, hang_time,
  tones,                   \* <freq ...> commands so far
  counted,                 \* history: the timer has counted since the last tick
  astray,                  \* history: a keying command, or its answer, was lost
  raced,                   \* history: a press came while the timer let go
  late                     \* history: ticks were slower than the timer's counts
                           \* while a closed reading was on its way to the tone

world == <<iambic, paddles>>
wire  == <<requests, replies, radio>>
port  == <<link, buff, param, used, passed>>
keys  == <<poll_status, poll_action, kl, key_FIFO, i, tone>>
ptt   == <<PTT_state, hang_time, counted>>
notes == <<astray, raced, late>>
vars  == <<world, wire, pc, port, keys, ptt, tones, notes>>

Threads == {"poll", "key", "timer", "update"}
At(t, l)   == pc[t] = l
Goto(t, l) == pc' = [pc EXCEPT ![t] = l]

(* The paddles as klogic names them, and main's settings for it.           *)
Elements == {"dit", "dah"}
Flag == [mode |-> "B", midelem |-> TRUE, mem |-> [e \in Elements |-> TRUE],
         khar |-> FALSE, word |-> FALSE]
Keyer == INSTANCE KeyerLogic WITH
  DitLens <- {Dit}, Weight <- 50, TickLens <- {1}, MaxTick <- 1, Flags <- {Flag},
  MaxSilence <- 0, flag <- Flag, ditlen <- Dit, keydown <- FALSE, now <- 0,
  sounded <- 0, silent <- 0, asked <- {}, squeezed <- "no", extra <- 0

(* newKeyerLogic: all zero.                                                *)
NewKeyerLogic ==
  [init |-> FALSE, prev |-> [e \in Elements |-> FALSE], altrn |-> FALSE,
   psqam |-> FALSE, iamb |-> "none", curr |-> "none", beep |-> 0, midl |-> 0,
   elem |-> 0, dlay |-> 0, space |-> "none", unit |-> 0]

(* main: the tone is set before the threads start.  If that was answered   *)
(* the port is open, if not it is closed for good.                         *)
Init ==
  /\ iambic \in BOOLEAN /\ paddles = {}
  /\ requests = <<>> /\ replies = <<>> /\ radio = FALSE
  /\ pc = [t \in Threads |-> CASE t = "key" -> "tick" [] t = "update" -> "read"
                               [] OTHER -> "sleep"]
  /\ link \in {"open", "closed"} /\ buff = "" /\ param = {}
  /\ used = "" /\ passed = [t \in Threads |-> ""]
  /\ poll_status = {} /\ poll_action = 0
  /\ kl = NewKeyerLogic
  /\ key_FIFO = [n \in 0 .. FIFO - 1 |-> FALSE] /\ i = 0 /\ tone = FALSE
  /\ PTT_state = FALSE /\ hang_time = 0 /\ tones = 0
  /\ counted = FALSE /\ astray = FALSE /\ raced = FALSE /\ late = FALSE

-----------------------------------------------------------------------------
(* The radio.  It takes the requests in turn, answers each, and nothing is *)
(* lost on the way; but an answer may be late.                             *)

MovePaddles ==
  /\ paddles' \in Positions
  /\ paddles' # paddles
  /\ UNCHANGED <<iambic, wire, pc, port, keys, ptt, tones, notes>>

(* An answer is ok and, to get keys, which paddles are closed.  from is    *)
(* not in the datagram.                                                    *)
Radio ==
  /\ requests # <<>>
  /\ LET r == Head(requests) IN
     /\ radio' = CASE r.what = "ptt on" -> TRUE [] r.what = "ptt off" -> FALSE
                   [] OTHER -> radio
     /\ replies' = IF link = "open" \/ \E t \in Threads : At(t, "blocked")
                   THEN Append(replies, [from |-> r.from, what |-> r.what,
                          param |-> IF r.what = "get keys" THEN paddles ELSE {}])
                   ELSE replies
  /\ requests' = Tail(requests)
  /\ UNCHANGED <<world, pc, port, keys, ptt, tones, notes>>

-----------------------------------------------------------------------------
(* send_command, in each of the four threads.                              *)

Command(t) ==
  CASE t = "poll" -> "get keys" [] t = "key" -> "ptt on" [] t = "timer" -> "ptt off"
    [] t = "update" -> "tone"
Keys(t) == t \in {"key", "timer"}

(* Where the caller goes on: it never looks at what was returned.          *)
Return(t) == Goto(t, "sent")

(* A keying command, or its answer, is lost.                               *)
Lost(t) == astray' = (astray \/ Keys(t))

(* Are we pointing at the moon?                                            *)
NoPort(t) ==
  /\ At(t, "send") /\ link = "closed"
  /\ Lost(t)
  /\ Return(t)
  /\ UNCHANGED <<world, wire, port, keys, ptt, tones, raced, late>>

(* strcpy, strcat.                                                         *)
Compose(t) ==
  /\ At(t, "send") /\ link = "open"
  /\ buff' = Command(t)
  /\ Goto(t, "measure")
  /\ UNCHANGED <<world, wire, link, param, used, passed, keys, ptt, tones, notes>>

(* strlen, of whatever the buffer holds now; no two commands are of the    *)
(* same length.                                                            *)
Measure(t) ==
  /\ At(t, "measure")
  /\ used' = buff
  /\ Goto(t, "blast")
  /\ UNCHANGED <<world, wire, link, buff, param, passed, keys, ptt, tones, notes>>

(* What nobody is about to send, or to compare, is forgotten.              *)
Kept(t, what) ==
  IF \E u \in Threads \ {t} : pc[u] \in {"measure", "blast", "check"} THEN what ELSE ""

(* A command of another length is cut short, or goes with what follows it: *)
(* the radio may take it for what it was or not know it.                   *)
Blasted == IF used = buff THEN {buff} ELSE {buff, "cut"}

(* sendto: what the buffer holds now, to the length in used.  The radio    *)
(* answers a command that it does not know, or an answer, all the same.    *)
Transmit(t) ==
  /\ At(t, "blast") /\ link = "open"
  /\ \E what \in Blasted : requests' = Append(requests, [from |-> t, what |-> what])
  /\ passed' = [passed EXCEPT ![t] = used]
  /\ buff' = Kept(t, buff)
  /\ astray' = (astray \/ (Keys(t) /\ {buff, used} # {Command(t)}))
  /\ Goto(t, "check")
  /\ UNCHANGED <<world, replies, radio, link, param, used, keys, ptt, tones, raced, late>>

(* sendto fails: the socket was closed meanwhile, or another thread is just *)
(* clearing the address for a sendto of its own.                           *)
SendError(t) ==
  /\ At(t, "blast")
  /\ link = "closed" \/ \E u \in Threads \ {t} : At(u, "blast")
  /\ buff' = Kept(t, buff) /\ used' = Kept(t, used)
  /\ Lost(t)
  /\ Return(t)
  /\ UNCHANGED <<world, wire, link, param, passed, keys, ptt, tones, raced, late>>

(* What sendto returned is compared with used as it is now: if another     *)
(* thread has measured its own command since, this one does not wait for   *)
(* the answer that is to come.                                             *)
Check(t) ==
  /\ At(t, "check")
  /\ IF passed[t] = used
       THEN Goto(t, "select") /\ UNCHANGED astray
       ELSE Return(t) /\ Lost(t)
  /\ passed' = [passed EXCEPT ![t] = ""]
  /\ used' = Kept(t, used)
  /\ UNCHANGED <<world, wire, link, buff, param, keys, ptt, tones, raced, late>>

(* select: an answer is there, but any thread's.                           *)
Select(t) ==
  /\ At(t, "select") /\ replies # <<>>
  /\ Goto(t, "recv")
  /\ UNCHANGED <<world, wire, port, keys, ptt, tones, notes>>

(* select: no answer for a second, the port is disabled.                   *)
SelectTimeout(t) ==
  /\ At(t, "select") /\ replies = <<>>
  /\ link' = "closed"
  /\ Lost(t)
  /\ Return(t)
  /\ UNCHANGED <<world, wire, buff, param, used, passed, keys, ptt, tones, raced, late>>

(* Another thread was quicker: recvfrom blocks.                            *)
Block(t) ==
  /\ At(t, "recv") /\ link = "open" /\ replies = <<>>
  /\ Goto(t, "blocked")
  /\ UNCHANGED <<world, wire, port, keys, ptt, tones, notes>>

(* recvfrom on a closed socket.                                            *)
RecvError(t) ==
  /\ At(t, "recv") /\ link = "closed"
  /\ Lost(t)
  /\ Return(t)
  /\ UNCHANGED <<world, wire, port, keys, ptt, tones, raced, late>>

(* A thread that blocks in recvfrom when the socket is closed may still be *)
(* given the answer.                                                       *)
Receiving(t) == (At(t, "recv") /\ link = "open") \/ At(t, "blocked")

(* Mutant: the socket is emptied of what else has come.                    *)
MutReceive(t) ==
  /\ Receiving(t) /\ replies # <<>>
  /\ param' = Head(replies).param
  /\ buff' = Kept(t, "ok")
  /\ replies' = <<>>
  /\ astray' = (astray \/ (Keys(t) /\ Head(replies).from # t))
  /\ Return(t)
  /\ UNCHANGED <<world, requests, radio, link, used, passed, keys, ptt, tones, raced, late>>

(* recvfrom: the first answer there is, and param from it.                 *)
Receive(t) ==
  /\ Receiving(t) /\ replies # <<>>
  /\ param' = Head(replies).param
  /\ buff' = Kept(t, "ok")
  /\ replies' = Tail(replies)
  /\ astray' = (astray \/ (Keys(t) /\ Head(replies).from # t))
  /\ Return(t)
  /\ UNCHANGED <<world, requests, radio, link, used, passed, keys, ptt, tones, raced, late>>

SendCommand(t) ==
  NoPort(t) \/ Compose(t) \/ Measure(t) \/ Transmit(t) \/ SendError(t) \/ Check(t)
    \/ Select(t) \/ SelectTimeout(t) \/ Block(t) \/ RecvError(t) \/ Receive(t)

(* The address is cleared through pSa, which is null once the port has been *)
(* closed: the program crashes.                                            *)
Crash ==
  /\ link = "closed" /\ \E t \in Threads : At(t, "blast")
  /\ pc' = [t \in Threads |-> "gone"]
  /\ UNCHANGED <<world, wire, port, keys, ptt, tones, notes>>

-----------------------------------------------------------------------------
(* poll_thread.                                                            *)

PollSleep ==
  /\ At("poll", "sleep") /\ poll_action < MaxPosts
  /\ Goto("poll", "send")
  /\ UNCHANGED <<world, wire, port, keys, ptt, tones, notes>>

(* read_keys returns param: what the last answer to anybody held.          *)
Polled ==
  /\ At("poll", "sent")
  /\ poll_status' = poll_status \cup param
  /\ poll_action' = poll_action + 1
  /\ Goto("poll", "sleep")
  /\ UNCHANGED <<world, wire, port, kl, key_FIFO, i, tone, ptt, tones, notes>>

-----------------------------------------------------------------------------
(* key_thread.                                                             *)

(* read_iambic_key and klogic; the debounce buffer holds one reading.      *)
ReadIambic(p) == Keyer!Logic(kl, Flag, Dit, p, 1)

(* read_straight_key: either contact is the key.                           *)
ReadStraight(p) == p # {}

Sending ==
  {"send", "measure", "blast", "check", "select", "recv", "blocked", "sent"}

Releasing == pc["timer"] \in Sending

(* Mutant: the reading does not start the hang time again.                 *)
MutKeyTick ==
  /\ At("key", "tick") /\ poll_action > 0
  /\ poll_action' = poll_action - 1 /\ poll_status' = {}
  /\ kl' = IF iambic THEN ReadIambic(poll_status) ELSE kl
  /\ LET keydown == IF iambic THEN Keyer!KeyDown(kl') ELSE ReadStraight(poll_status) IN
     /\ key_FIFO' = [key_FIFO EXCEPT ![i] = keydown]
     /\ Goto("key", IF keydown /\ ~PTT_state THEN "send" ELSE "sound")
     /\ raced' = (raced \/ (keydown /\ PTT_state /\ Releasing))
  /\ counted' = FALSE
  /\ UNCHANGED <<world, wire, port, i, tone, PTT_state, hang_time, tones, astray, late>>

(* timed_delay, read_key, and the reading into the FIFO.  A reading of a   *)
(* closed key starts the hang time again, and keys the transmitter.        *)
KeyTick ==
  /\ At("key", "tick") /\ poll_action > 0
  /\ poll_action' = poll_action - 1 /\ poll_status' = {}
  /\ kl' = IF iambic THEN ReadIambic(poll_status) ELSE kl
  /\ LET keydown == IF iambic THEN Keyer!KeyDown(kl') ELSE ReadStraight(poll_status) IN
     /\ key_FIFO' = [key_FIFO EXCEPT ![i] = keydown]
     /\ hang_time' = IF keydown THEN 0 ELSE hang_time
     /\ Goto("key", IF keydown /\ ~PTT_state THEN "send" ELSE "sound")
     /\ raced' = (raced \/ (keydown /\ PTT_state /\ Releasing))
  /\ counted' = FALSE
  /\ UNCHANGED <<world, wire, port, i, tone, PTT_state, tones, astray, late>>

KeyKeyed ==
  /\ At("key", "sent")
  /\ PTT_state' = TRUE
  /\ Goto("key", "sound")
  /\ UNCHANGED <<world, wire, port, keys, hang_time, counted, tones, notes>>

(* A reading that closed the key is still to be heard.                     *)
Queued == \E n \in DOMAIN key_FIFO : key_FIFO[n]

(* The oldest reading goes to CWToneOn or CWToneOff.                       *)
KeySound ==
  /\ At("key", "sound")
  /\ i' = IF i >= FIFO - 1 THEN 0 ELSE i + 1
  /\ tone' = key_FIFO[i']
  /\ raced' = (raced /\ (tone' \/ Queued)) /\ late' = (late /\ (tone' \/ Queued))
  /\ Goto("key", "tick")
  /\ UNCHANGED <<world, wire, port, poll_status, poll_action, kl, key_FIFO, ptt, tones, astray>>

-----------------------------------------------------------------------------
(* PTT_timer_thread.  Its counts are ten ticks apart, but a tick comes only *)
(* after the poll's answer, for which poll_thread waits up to a second.    *)
TimerCount ==
  /\ At("timer", "sleep") /\ PTT_state
  /\ counted' = TRUE /\ late' = (late \/ (counted /\ (tone \/ Queued)))
  /\ hang_time' = hang_time + 1
  /\ Goto("timer", IF hang_time' > Threshold THEN "send" ELSE "sleep")
  /\ UNCHANGED <<world, wire, port, keys, PTT_state, tones, astray, raced>>

TimerReleased ==
  /\ At("timer", "sent")
  /\ PTT_state' = FALSE /\ hang_time' = 0
  /\ Goto("timer", "sleep")
  /\ UNCHANGED <<world, wire, port, keys, counted, tones, notes>>

-----------------------------------------------------------------------------
(* update_thread.                                                          *)

(* <freq ...>, taken while there is silence; then setCWToneGenVals.        *)
ReadFreq ==
  /\ At("update", "read") /\ tones < MaxTones /\ ~tone
  /\ tones' = tones + 1
  /\ Goto("update", "send")
  /\ UNCHANGED <<world, wire, port, keys, ptt, notes>>

FreqSet ==
  /\ At("update", "sent")
  /\ Goto("update", "read")
  /\ UNCHANGED <<world, wire, port, keys, ptt, tones, notes>>

(* EOF, <quit>: the other threads are cancelled wherever they wait; the    *)
(* transmitter stays as it is.                                             *)
Quit ==
  /\ At("update", "read")
  /\ pc' = [t \in Threads |-> "gone"]
  /\ UNCHANGED <<world, wire, port, keys, ptt, tones, notes>>

Gone == At("update", "gone") /\ UNCHANGED vars

Next ==
  \/ MovePaddles \/ Radio
  \/ \E t \in Threads : SendCommand(t)
  \/ PollSleep \/ Polled
  \/ KeyTick \/ KeyKeyed \/ KeySound
  \/ TimerCount \/ TimerReleased
  \/ ReadFreq \/ FreqSet \/ Quit \/ Crash \/ Gone

Spec == Init /\ [][Next]_vars

-----------------------------------------------------------------------------
(* key_FIFO is there to give the transmitter time: no tone is sounded      *)
(* before it is keyed, nor after it has been let go, unless a command was  *)
(* lost in the shared buffer, or not waited for, its answer taken by       *)
(* another thread, the key pressed while the timer was letting go, or the  *)
(* timer ran ahead of ticks that waited for late answers.                  *)
TonesKeyed == tone => radio \/ astray \/ raced \/ late

(* Answers are taken by whichever thread comes first, a thread that has    *)
(* seen one may find it gone, and some are never waited for.  Still there  *)
(* is one for everybody: no thread hangs in send_command while the port is *)
(* open.                                                                   *)
Waiting == {t \in Threads : pc[t] \in {"select", "recv", "blocked"}}
NobodyHangs ==
  link = "open" /\ ~At("update", "gone")
    => Cardinality(Waiting) <= Len(requests) + Len(replies)
=============================================================================
