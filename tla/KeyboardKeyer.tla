--------------------------- MODULE KeyboardKeyer ---------------------------
(***************************************************************************)
(* keyboard-keyer.c, which sends what is typed as Morse code, and          *)
(* keyboard-keyer-for-SR.c, which also keys a transmitter.                 *)
(*                                                                         *)
(*   input   reader_thread: text to segments of sound, one at a time       *)
(*   play    sound_thread: segments to samples, a JACK buffer at a time    *)
(*   jack    jack_callback: samples to the sound card                      *)
(*   timer   PTT_timer_thread: lets go of the transmitter (for-SR only)    *)
(*   main    sets the transmitter's tone (for-SR only), waits for the end  *)
(*                                                                         *)
(* A sample is tone or silence; the level of a ramp is that of cwtones.c,  *)
(* in KeyerThreads.  jack_ringbuffer is JACK's: a fill, and one slot that  *)
(* stays free.  send_command is that of iambic-keyer-for-SR.c, in SoftRock,*)
(* step for step; here the transmitter has what it was sent at once, and   *)
(* of the datagrams only their number is kept.                             *)
(***************************************************************************)
EXTENDS Integers, Sequences

CONSTANTS
  Size,       \* JACK's buffer size
  RingSize,   \* RING_SIZE, in samples
  Dit,        \* length of a dit, in samples, at the wpm of the command line
  Speeds,     \* the same at each wpm in use
  Ramp,       \* risesize, fallsize
  Characters, \* Morse characters typed: sequences of "dit" and "dah"
  Threshold,  \* HANG_TIME_THRESHOLD
  MaxChars    \* bound: characters, commands and second spaces typed

ASSUME KeyboardAssumption ==
  /\ Size \in Nat \ {0} /\ RingSize \in Nat /\ RingSize > 2 * Size
  /\ Speeds \subseteq Nat \ {0} /\ Dit \in Speeds /\ Ramp \in Nat \ {0}
  /\ Characters \subseteq Seq({"dit", "dah"}) \ {<<>>}
  /\ Threshold \in Nat /\ MaxChars \in Nat

VARIABLES
  forSR,                  \* which of the two programs runs
  pc,                     \* where each thread is
  chars,                  \* characters and commands typed so far
  dit, b,                 \* ditspacesize; b of reader_thread
  todo,                   \* segments of the character being sent
  morsel,
  reader, writer, ready,  \* semaphores
  left, k,                \* samples of morsel still to make; k of sound_thread
  out,                    \* frames send_sound has still to write
  lring, rring,           \* samples in the rings
  PTT_state, hang, seen,  \* hang_time, and hang_time as the timer loaded it
  link, buff,             \* pSa and sock; the buffer all send_commands share
  used,                   \* used: the command whose length it holds
  call, passed,           \* where each thread is in send_command; the length
                          \*   that it has given to sendto
  requests, replies,      \* external: how many datagrams are on their way
  radio,                  \* external: the transmitter was told to key
  crashed,                \* the program was killed by a null pSa
  since,                  \* history: silent samples since the last tone
  owed,                   \* history: dits that Morse code puts before the next
                          \*   character; -1 after none, or another speed
  astray                  \* history: a command to the transmitter was lost

text  == <<chars, dit, b, todo, owed>>
sems  == <<reader, writer, ready>>
sound == <<left, k, since>>
rings == <<out, lring, rring>>
ptt   == <<PTT_state, hang, seen>>
port  == <<link, buff, used, call, passed, crashed>>
wire  == <<port, requests, replies, radio, astray>>
vars  == <<forSR, pc, text, morsel, sems, sound, rings, ptt, wire>>

Threads  == {"input", "play", "jack", "timer", "main"}
Speakers == {"input", "timer", "main"}

At(t, l)   == pc[t] = l
Goto(t, l) == pc' = [pc EXCEPT ![t] = l]
Least(x, y) == IF x < y THEN x ELSE y

(* A segment; gap is history: on the first ramp of an element, the silence *)
(* that Morse code asks for in front of it, in dits, and -1 if any will do.*)
Zero(n)      == [type |-> "ZERO", size |-> n, gap |-> -1]
Rise(g)      == [type |-> "RAMP", size |-> Ramp, gap |-> g]
Fall         == [type |-> "RAMP", size |-> Ramp, gap |-> -1]
Steady(n)    == [type |-> "STDY", size |-> n, gap |-> -1]
EndOfText    == [type |-> "EOF", size |-> 0, gap |-> -1]

(* resetparam, with ditspacesize d.                                        *)
CharSpace(d) == 3 * d
WordSpace(d) == 7 * d
StdySize(e, d) == (IF e = "dit" THEN d ELSE 3 * d) - 2 * Ramp

(* main: the rings start with a buffer of silence; for-SR opens the link   *)
(* to the transmitter only after the threads have been started.            *)
Init ==
  /\ forSR \in BOOLEAN
  /\ pc = [t \in Threads |-> CASE t = "input" -> "getchar" [] t = "play" -> "ask"
                               [] t = "jack" -> "idle" [] t = "timer" -> "sleep"
                               [] t = "main" -> IF forSR THEN "open" ELSE "join"]
  /\ chars = 0 /\ dit = Dit /\ b = TRUE /\ todo = <<>>
  /\ morsel = Zero(0)
  /\ reader = 0 /\ writer = 0 /\ ready = 0
  /\ left = 0 /\ k = 0 /\ out = 0 /\ lring = Size /\ rring = Size
  /\ PTT_state = FALSE /\ hang = 0 /\ seen = 0
  /\ link = "none" /\ buff = "" /\ used = "" /\ crashed = FALSE
  /\ call = [t \in Speakers |-> "send"] /\ passed = [t \in Speakers |-> ""]
  /\ requests = 0 /\ replies = 0 /\ radio = FALSE /\ astray = FALSE
  /\ since = Size /\ owed = -1

-----------------------------------------------------------------------------
(* reader_thread: what is typed.                                           *)

Type(n) == At("input", "getchar") /\ todo = <<>> /\ chars < MaxChars /\ chars' = chars + n

(* Element e of a character, the first after a gap of g dits, and the space*)
(* after it.                                                               *)
Element(e, g, d) == <<Rise(g), Steady(StdySize(e, d)), Fall, Zero(d)>>

(* Mutant: the character space does not allow for the space of the element *)
(* before it.                                                              *)
MutSegments(c, g, d) ==
  [j \in 1 .. 4 * Len(c) + 1 |->
     IF j > 4 * Len(c) THEN Zero(CharSpace(d))
     ELSE Element(c[(j + 3) \div 4], IF j <= 4 THEN g ELSE 1, d)[1 + ((j + 3) % 4)]]

(* The segments of a character, after a gap of g dits.                     *)
Segments(c, g, d) ==
  [j \in 1 .. 4 * Len(c) + 1 |->
     IF j > 4 * Len(c) THEN Zero(CharSpace(d) - d)
     ELSE Element(c[(j + 3) \div 4], IF j <= 4 THEN g ELSE 1, d)[1 + ((j + 3) % 4)]]

(* A character of the table.  for-SR: hang_time = 0, then the transmitter. *)
ReadCharacter(c) ==
  /\ Type(1)
  /\ todo' = Segments(c, owed, dit)
  /\ b' = FALSE /\ owed' = 3
  /\ IF forSR THEN hang' = 0 /\ Goto("input", "ptt") ELSE UNCHANGED <<hang, pc>>
  /\ UNCHANGED <<forSR, dit, morsel, sems, sound, rings, PTT_state, seen, wire>>

(* Any other character: a space between words, of which three dits have    *)
(* been sent already if it follows a character.                            *)
ReadBlank ==
  /\ Type(IF b THEN 1 ELSE 0)
  /\ todo' = <<Zero(IF b THEN WordSpace(dit) ELSE WordSpace(dit) - CharSpace(dit))>>
  /\ b' = TRUE
  /\ owed' = CASE owed = -1 -> -1 [] owed = 3 -> 7 [] OTHER -> owed + 7
  /\ UNCHANGED <<forSR, pc, dit, morsel, sems, sound, rings, ptt, wire>>

(* <wpm ...>: inlinecmd and resetparam.                                    *)
ReadSpeed(d) ==
  /\ Type(1)
  /\ d # dit
  /\ dit' = d /\ owed' = -1
  /\ UNCHANGED <<forSR, pc, b, todo, morsel, sems, sound, rings, ptt, wire>>

(* <freq ...> of for-SR: the transmitter is told, too.                     *)
ReadTone ==
  /\ forSR /\ Type(1)
  /\ Goto("input", "tone")
  /\ UNCHANGED <<forSR, dit, b, todo, owed, morsel, sems, sound, rings, ptt, wire>>

(* The end of the text.                                                    *)
ReadEnd ==
  /\ At("input", "getchar") /\ todo = <<>>
  /\ todo' = <<EndOfText>>
  /\ Goto("input", "finish")
  /\ UNCHANGED <<forSR, chars, dit, b, owed, morsel, sems, sound, rings, ptt, wire>>

(* Is PTT off?                                                             *)
TestPtt ==
  /\ At("input", "ptt")
  /\ Goto("input", IF PTT_state THEN "getchar" ELSE "key")
  /\ UNCHANGED <<forSR, text, morsel, sems, sound, rings, ptt, wire>>

(* The transmitter is keyed: a character space while it switches over.     *)
MarkPtt ==
  /\ At("input", "keyed")
  /\ PTT_state' = TRUE
  /\ todo' = <<Zero(CharSpace(dit)), Rise(IF todo[1].gap = -1 THEN -1 ELSE todo[1].gap + 3)>>
               \o Tail(todo)
  /\ Goto("input", "getchar")
  /\ UNCHANGED <<forSR, chars, dit, b, owed, morsel, sems, sound, rings, hang, seen, wire>>

(* sem_wait(&reader), the morsel, sem_post(&writer).                       *)
HandOver ==
  /\ pc["input"] \in {"getchar", "finish"} /\ todo # <<>> /\ reader > 0
  /\ reader' = reader - 1
  /\ morsel' = Head(todo) /\ todo' = Tail(todo)
  /\ writer' = writer + 1
  /\ IF At("input", "finish") THEN Goto("input", "exit") ELSE UNCHANGED pc
  /\ UNCHANGED <<forSR, chars, dit, b, owed, ready, sound, rings, ptt, wire>>

-----------------------------------------------------------------------------
(* sound_thread.                                                           *)

Ask ==
  /\ At("play", "ask")
  /\ reader' = reader + 1
  /\ Goto("play", "wait")
  /\ UNCHANGED <<forSR, text, morsel, writer, ready, sound, rings, ptt, wire>>

(* sem_wait(&writer); at the end of the text, what is in zout is sent.  A  *)
(* steady part of negative length is played as none.                       *)
Receive ==
  /\ At("play", "wait") /\ writer > 0
  /\ writer' = writer - 1
  /\ IF morsel.type = "EOF"
       THEN /\ Goto("play", IF k > 0 THEN "last" ELSE "exit")
            /\ UNCHANGED left
       ELSE /\ Goto("play", "make")
            /\ left' = IF morsel.size > 0 THEN morsel.size ELSE 0
  /\ UNCHANGED <<forSR, text, morsel, reader, ready, k, since, rings, ptt, wire>>

(* Samples into zout, until it is full or the segment ends.                *)
MakeSamples ==
  /\ At("play", "make")
  /\ LET n == Least(left, Size - k) IN
     /\ left' = left - n /\ k' = k + n
     /\ since' = IF morsel.type = "ZERO" THEN since + n ELSE IF n > 0 THEN 0 ELSE since
     /\ Goto("play", IF k + n = Size THEN "send" ELSE "ask")
  /\ UNCHANGED <<forSR, text, morsel, sems, rings, ptt, wire>>

(* jack_ringbuffer_write_space.                                            *)
WriteSpace(fill) == RingSize - 1 - fill

(* send_sound: the left ring is asked for room.  On an overrun both are    *)
(* restarted with a buffer of silence.                                     *)
SendSound ==
  /\ pc["play"] \in {"send", "last"} /\ out = 0
  /\ IF WriteSpace(lring) < k
       THEN lring' = Size /\ rring' = Size /\ UNCHANGED out
            /\ Goto("play", IF At("play", "last") THEN "exit" ELSE "drain")
       ELSE out' = k /\ Goto("play", IF At("play", "last") THEN "left*" ELSE "left")
            /\ UNCHANGED <<lring, rring>>
  /\ UNCHANGED <<forSR, text, morsel, sems, sound, ptt, wire>>

(* Frame by frame, the left sample, then the right one.                    *)
WriteLeft ==
  /\ pc["play"] \in {"left", "left*"}
  /\ lring' = lring + 1
  /\ Goto("play", IF At("play", "left") THEN "right" ELSE "right*")
  /\ UNCHANGED <<forSR, text, morsel, sems, sound, out, rring, ptt, wire>>

WriteRight ==
  /\ pc["play"] \in {"right", "right*"}
  /\ rring' = rring + 1 /\ out' = out - 1
  /\ Goto("play", IF At("play", "right") THEN (IF out = 1 THEN "drain" ELSE "left")
                  ELSE (IF out = 1 THEN "exit" ELSE "left*"))
  /\ UNCHANGED <<forSR, text, morsel, sems, sound, lring, ptt, wire>>

(* sem_wait(&ready): wait until some audio has been drained.               *)
Drained ==
  /\ At("play", "drain") /\ ready > 0
  /\ ready' = ready - 1
  /\ k' = 0
  /\ Goto("play", "make")
  /\ UNCHANGED <<forSR, text, morsel, reader, writer, left, since, rings, ptt, wire>>

-----------------------------------------------------------------------------
(* jack_callback.                                                          *)

(* Mutant: a period of silence counts as audio drained.                    *)
MutPlaySilence ==
  /\ At("jack", "idle") /\ lring < Size
  /\ ready' = ready + 1
  /\ UNCHANGED <<forSR, pc, text, morsel, reader, writer, sound, rings, ptt, wire>>

PlaySilence ==
  /\ At("jack", "idle") /\ lring < Size
  /\ UNCHANGED vars

(* The left ring decides; a ring that has less than was asked for gives    *)
(* what it has.                                                            *)
PlayLeft ==
  /\ At("jack", "idle") /\ lring >= Size
  /\ lring' = lring - Size
  /\ Goto("jack", "right")
  /\ UNCHANGED <<forSR, text, morsel, sems, sound, out, rring, ptt, wire>>

(* Mutant: the thread is told only while there is more to play.            *)
MutPlayRight ==
  /\ At("jack", "right")
  /\ rring' = rring - Least(rring, Size)
  /\ ready' = IF rring > Size THEN ready + 1 ELSE ready
  /\ Goto("jack", "idle")
  /\ UNCHANGED <<forSR, text, morsel, reader, writer, sound, out, lring, ptt, wire>>

PlayRight ==
  /\ At("jack", "right")
  /\ rring' = rring - Least(rring, Size)
  /\ ready' = ready + 1
  /\ Goto("jack", "idle")
  /\ UNCHANGED <<forSR, text, morsel, reader, writer, sound, out, lring, ptt, wire>>

-----------------------------------------------------------------------------
(* send_command of for-SR.                                                 *)

Command(t) ==
  CASE t = "timer" -> "ptt off"
    [] t = "input" -> IF At("input", "key") THEN "ptt on" ELSE "tone"
    [] OTHER       -> "tone"
Keys(t) == Command(t) # "tone"

(* Where a thread calls it, and where it goes on: nobody looks at what was *)
(* returned.                                                               *)
Sending(t) ==
  CASE t = "input" -> {"key", "tone"} [] t = "timer" -> {"release"} [] t = "main" -> {"tune"}
Sent(l) ==
  CASE l = "key" -> "keyed" [] l = "tone" -> "getchar" [] l = "release" -> "released"
    [] l = "tune" -> "join"

Calling(t, s) == pc[t] \in Sending(t) /\ call[t] = s
GoOn(t, s)    == call' = [call EXCEPT ![t] = s] /\ UNCHANGED pc
Return(t)     == call' = [call EXCEPT ![t] = "send"] /\ Goto(t, Sent(pc[t]))

(* A command to key or to let go is lost.                                  *)
Lost(t) == astray' = (astray \/ Keys(t))

(* Are we pointing at the moon?  Not before main has opened the port.      *)
NoPort(t) ==
  /\ Calling(t, "send") /\ link \in {"none", "closed"}
  /\ Lost(t) /\ Return(t)
  /\ UNCHANGED <<link, buff, used, passed, crashed, requests, replies, radio>>

(* strcpy, strcat.                                                         *)
Compose(t) ==
  /\ Calling(t, "send") /\ link \in {"opening", "open"}
  /\ buff' = Command(t)
  /\ GoOn(t, "measure")
  /\ UNCHANGED <<link, used, passed, crashed, requests, replies, radio, astray>>

(* strlen, of whatever the buffer holds now; no two commands are of the    *)
(* same length.                                                            *)
Measure(t) ==
  /\ Calling(t, "measure")
  /\ used' = buff
  /\ GoOn(t, "blast")
  /\ UNCHANGED <<link, buff, passed, crashed, requests, replies, radio, astray>>

(* What nobody is about to send, or to compare, is forgotten.              *)
Kept(t, what) ==
  IF \E u \in Speakers \ {t} : call[u] \in {"measure", "blast", "check"} THEN what ELSE ""

(* A command of another length is cut short, or goes with what follows it: *)
(* the transmitter may take it for what it was or not know it.             *)
Blasted == IF used = buff THEN {buff} ELSE {buff, "cut"}

(* sendto: what the buffer holds now, to the length in used.               *)
Transmit(t) ==
  /\ Calling(t, "blast") /\ link = "open"
  /\ \E what \in Blasted :
       radio' = CASE what = "ptt on" -> TRUE [] what = "ptt off" -> FALSE [] OTHER -> radio
  /\ requests' = requests + 1
  /\ passed' = [passed EXCEPT ![t] = used]
  /\ buff' = Kept(t, buff)
  /\ astray' = (astray \/ {buff, used} # {Command(t)})
  /\ GoOn(t, "check")
  /\ UNCHANGED <<link, used, crashed, replies>>

(* sendto fails: there is no socket yet, or no longer, or another thread is*)
(* just clearing the address for a sendto of its own.                      *)
SendError(t) ==
  /\ Calling(t, "blast")
  /\ link # "open" \/ \E u \in Speakers \ {t} : Calling(u, "blast")
  /\ buff' = Kept(t, buff) /\ used' = Kept(t, used)
  /\ Lost(t) /\ Return(t)
  /\ UNCHANGED <<link, passed, crashed, requests, replies, radio>>

(* What sendto returned is compared with used as it is now: if another     *)
(* thread has measured its own command since, this one does not wait for   *)
(* the answer that is to come.                                             *)
Check(t) ==
  /\ Calling(t, "check")
  /\ IF passed[t] = used THEN GoOn(t, "select") ELSE Return(t)
  /\ passed' = [passed EXCEPT ![t] = ""]
  /\ used' = Kept(t, used)
  /\ UNCHANGED <<link, buff, crashed, requests, replies, radio, astray>>

(* select: an answer is there, but any thread's.                           *)
Select(t) ==
  /\ Calling(t, "select") /\ replies > 0
  /\ GoOn(t, "recv")
  /\ UNCHANGED <<link, buff, used, passed, crashed, requests, replies, radio, astray>>

(* select: no answer for a second, the port is disabled for good.          *)
SelectTimeout(t) ==
  /\ Calling(t, "select") /\ replies = 0
  /\ link' = "closed"
  /\ Return(t)
  /\ UNCHANGED <<buff, used, passed, crashed, requests, replies, radio, astray>>

(* Another thread was quicker: recvfrom blocks.                            *)
Block(t) ==
  /\ Calling(t, "recv") /\ link = "open" /\ replies = 0
  /\ GoOn(t, "blocked")
  /\ UNCHANGED <<link, buff, used, passed, crashed, requests, replies, radio, astray>>

(* recvfrom on a closed socket.                                            *)
RecvError(t) ==
  /\ Calling(t, "recv") /\ link = "closed"
  /\ Return(t)
  /\ UNCHANGED <<link, buff, used, passed, crashed, requests, replies, radio, astray>>

(* recvfrom.  A thread that blocks in it when the socket is closed may     *)
(* still be given the answer.                                              *)
Answered(t) ==
  /\ (Calling(t, "recv") /\ link = "open") \/ Calling(t, "blocked")
  /\ replies > 0
  /\ replies' = replies - 1
  /\ buff' = Kept(t, "ok")
  /\ Return(t)
  /\ UNCHANGED <<link, used, passed, crashed, requests, radio, astray>>

SendCommand(t) ==
  /\ \/ NoPort(t) \/ Compose(t) \/ Measure(t) \/ Transmit(t) \/ SendError(t) \/ Check(t)
     \/ Select(t) \/ SelectTimeout(t) \/ Block(t) \/ RecvError(t) \/ Answered(t)
  /\ UNCHANGED <<forSR, text, morsel, sems, sound, rings, ptt>>

(* The transmitter answers all that it is sent, now or later.              *)
Radio ==
  /\ requests > 0
  /\ requests' = requests - 1
  /\ replies' = IF link = "open" \/ \E t \in Speakers : call[t] = "blocked"
                THEN replies + 1 ELSE replies
  /\ UNCHANGED <<forSR, pc, text, morsel, sems, sound, rings, ptt, port, radio, astray>>

(* The address is cleared through pSa, which is null once the port has been *)
(* closed: the program crashes.                                            *)
Crash ==
  /\ link = "closed" /\ \E t \in Speakers : Calling(t, "blast")
  /\ crashed' = TRUE
  /\ UNCHANGED <<forSR, pc, text, morsel, sems, sound, rings, ptt, link, buff, used, call,
                 passed, requests, replies, radio, astray>>

-----------------------------------------------------------------------------
(* PTT_timer_thread of for-SR: hang_time++ is a load and a store.          *)

TimerLoad ==
  /\ forSR /\ At("timer", "sleep") /\ PTT_state
  /\ seen' = hang
  /\ Goto("timer", "count")
  /\ UNCHANGED <<forSR, text, morsel, sems, sound, rings, PTT_state, hang, wire>>

TimerCount ==
  /\ At("timer", "count")
  /\ hang' = seen + 1 /\ seen' = 0
  /\ Goto("timer", IF seen + 1 > Threshold THEN "release" ELSE "sleep")
  /\ UNCHANGED <<forSR, text, morsel, sems, sound, rings, PTT_state, wire>>

(* Mutant: the count starts again, the state is left as it was.            *)
MutTimerReleased ==
  /\ At("timer", "released")
  /\ hang' = 0
  /\ Goto("timer", "sleep")
  /\ UNCHANGED <<forSR, text, morsel, sems, sound, rings, PTT_state, seen, wire>>

TimerReleased ==
  /\ At("timer", "released")
  /\ PTT_state' = FALSE /\ hang' = 0
  /\ Goto("timer", "sleep")
  /\ UNCHANGED <<forSR, text, morsel, sems, sound, rings, seen, wire>>

-----------------------------------------------------------------------------
(* main.                                                                   *)

(* open_usbsoftrock: pSa first, then the socket and the cleared buffer.    *)
OpenPort ==
  /\ At("main", "open")
  /\ link' = "opening"
  /\ Goto("main", "socket")
  /\ UNCHANGED <<forSR, text, morsel, sems, sound, rings, ptt, buff, used, call, passed,
                 crashed, requests, replies, radio, astray>>

OpenSocket ==
  /\ At("main", "socket")
  /\ link' = "open" /\ buff' = ""
  /\ Goto("main", "tune")
  /\ UNCHANGED <<forSR, text, morsel, sems, sound, rings, ptt, used, call, passed,
                 crashed, requests, replies, radio, astray>>

(* pthread_join of reader and player, then the client and the program      *)
(* end, whatever is still in the rings.                                    *)
Leave ==
  /\ At("main", "join") /\ At("input", "exit") /\ At("play", "exit")
  /\ Goto("main", "exit")
  /\ UNCHANGED <<forSR, text, morsel, sems, sound, rings, ptt, wire>>

Ended == (crashed \/ At("main", "exit")) /\ UNCHANGED vars

Input == (\E c \in Characters : ReadCharacter(c)) \/ ReadBlank \/ (\E d \in Speeds : ReadSpeed(d))
           \/ ReadTone \/ ReadEnd
Play  == Ask \/ Receive \/ MakeSamples \/ SendSound \/ WriteLeft \/ WriteRight \/ Drained
Jack  == PlaySilence \/ PlayLeft \/ PlayRight
Timer == TimerLoad \/ TimerCount \/ TimerReleased
Main  == OpenPort \/ OpenSocket \/ SendCommand("main") \/ Leave

Alive == ~crashed /\ ~At("main", "exit")

Step ==
  \/ Input \/ TestPtt \/ MarkPtt \/ HandOver
  \/ Play \/ Jack \/ Timer
  \/ SendCommand("input") \/ SendCommand("timer")
  \/ Main \/ Radio \/ Crash

Next == (Alive /\ Step) \/ Ended

(* As long as one of those who play what was typed can go on, one of them  *)
(* does: the scheduler runs the threads, JACK calls back.  Nothing need be *)
(* typed, the timer need not count, and no answer need come.               *)
Work     == Alive /\ (HandOver \/ Play \/ PlayLeft \/ PlayRight \/ Main)
Spec     == Init /\ [][Next]_vars
FairSpec == Spec /\ WF_vars(Work)

-----------------------------------------------------------------------------
(* Between elements there is one dit of silence, between characters three, *)
(* between words seven, and three more while the transmitter switches over,*)
(* however the two threads share the one morsel: no segment is lost, none  *)
(* played twice.                                                           *)
Spacing == [][Receive /\ morsel.gap # -1 => since = morsel.gap * dit]_vars

(* The left ring is written first, read first, and alone decides how much  *)
(* there is: the callback can find a last frame of which only the left     *)
(* half is there.  The right channel then lags, by one sample and no more. *)
Together ==
  rring - lring - (IF At("jack", "right") THEN Size ELSE 0)
    + (IF pc["play"] \in {"right", "right*"} THEN 1 ELSE 0) \in 0 .. 1

(* One buffer in the rings and one in zout: send_sound never overruns.     *)
RoomToSend == pc["play"] \in {"send", "last"} => WriteSpace(lring) >= k

(* main closes the client when all is written, not when all is heard: what *)
(* is lost is silence, if a character space lasts two buffers.             *)
TailIsSilent ==
  At("main", "exit") /\ (\A d \in Speeds : CharSpace(d) >= 2 * Size - 1) => lring <= since

SoundArrives == Together /\ RoomToSend /\ TailIsSilent

(* PTT_state, which two threads test and set without a lock, is what the   *)
(* transmitter was told: except while one of them is telling it, and after *)
(* a command was lost in the shared buffer or to a port not open.          *)
Keying    == pc["input"] \in {"key", "keyed"}
Releasing == pc["timer"] \in {"release", "released"}
PttAgrees == Keying \/ Releasing \/ astray \/ radio = PTT_state

(* What was typed is played to the end, unless main, which has one command *)
(* to send, waits for ever in recvfrom: another thread took its answer, or *)
(* closed the port; or the program crashes.                                *)
Hung     == pc["main"] = "tune" /\ call["main"] = "blocked"
PlayEnds == []<>~Hung => (At("input", "finish") ~> (At("main", "exit") \/ crashed))
=============================================================================
