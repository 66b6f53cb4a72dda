------------------------ MODULE KeyboardKeyerProofs ------------------------
(***************************************************************************)
(* Proofs about KeyboardKeyer, for any buffers, any speeds, any characters *)
(* and any length of text.                                                 *)
(***************************************************************************)
EXTENDS KeyboardKeyer, SequenceTheorems, TLAPS

(* Where each thread can be.                                               *)
Places(t) ==
  CASE t = "input" -> {"getchar", "ptt", "key", "keyed", "tone", "finish", "exit"}
    [] t = "play"  -> {"ask", "wait", "make", "send", "left", "right", "drain",
                       "last", "left*", "right*", "exit"}
    [] t = "jack"  -> {"idle", "right"}
    [] t = "timer" -> {"sleep", "count", "release", "released"}
    [] t = "main"  -> {"open", "socket", "tune", "join", "exit"}

Segment == [type : {"ZERO", "RAMP", "STDY", "EOF"}, size : Int, gap : Int]

PlaceInv ==
  /\ DOMAIN pc = Threads
  /\ \A t \in Threads : pc[t] \in Places(t)

(* Who is not in send_command is at its start.                             *)
CallInv ==
  /\ DOMAIN call = Speakers
  /\ \A t \in Speakers : pc[t] \notin Sending(t) => call[t] = "send"

(* From when the transmitter has been told until this is marked.           *)
After   == {"check", "select", "recv", "blocked"}
KeyTold == At("input", "keyed") \/ (At("input", "key") /\ call["input"] \in After)
OffTold == At("timer", "released") \/ (At("timer", "release") /\ call["timer"] \in After)

(* The input thread keys the transmitter while it is marked as not keyed,  *)
(* the timer releases it while it is marked as keyed: never both at once.  *)
PttInv ==
  /\ PTT_state \in BOOLEAN /\ radio \in BOOLEAN /\ astray \in BOOLEAN
  /\ Keying => ~PTT_state
  /\ At("timer", "count") \/ Releasing => PTT_state
  /\ ~astray /\ KeyTold => radio
  /\ ~astray /\ OffTold => ~radio
  /\ ~astray /\ ~KeyTold /\ ~OffTold => (radio <=> PTT_state)

-----------------------------------------------------------------------------
(* Buffers that JACK has taken from the left ring and sound_thread has not *)
(* heard of.                                                               *)
Ahead == ready + (IF At("jack", "right") THEN 1 ELSE 0)

(* What the left ring holds when nothing of zout is in it yet.             *)
Rest == IF Ahead = 0 THEN Size ELSE IF Ahead = 1 THEN 0 ELSE -Size

Ending == {"last", "left*", "right*", "exit"}

(* How much of zout is in the left ring.                                   *)
Written ==
  IF pc["play"] \in {"left", "left*"} THEN k - out
  ELSE IF pc["play"] \in {"right", "right*"} THEN k - out + 1
  ELSE IF pc["play"] \in {"drain", "exit"} THEN k ELSE 0

CountInv ==
  /\ reader \in Nat /\ writer \in Nat /\ ready \in Nat
  /\ left \in Nat /\ since \in Nat /\ lring \in Nat /\ rring \in Nat
  /\ k \in 0 .. Size /\ out \in 0 .. Size

TokenInv ==
  /\ reader + writer = (IF At("play", "wait") THEN 1 ELSE 0)
  /\ pc["play"] \in {"ask", "wait"} \cup Ending => left = 0

FillInv ==
  /\ Ahead \in 0 .. 2
  /\ lring = Rest + Written
  /\ k = Size <=> pc["play"] \in {"send", "left", "right", "drain"}
  /\ pc["play"] \in {"last", "left*", "right*"} => k > 0
  /\ IF pc["play"] \in {"left", "right", "left*", "right*"} THEN out \in 1 .. k ELSE out = 0

-----------------------------------------------------------------------------
(* Silence since the last tone, once the segment handed over is played.    *)
Pending == IF writer = 0 THEN left ELSE IF morsel.size > 0 THEN morsel.size ELSE 0
Silence == IF morsel.type = "ZERO" THEN since + Pending ELSE IF Pending > 0 THEN 0 ELSE since

Marking == {"ptt", "key", "keyed"}

TodoInv ==
  /\ dit \in Speeds /\ morsel \in Segment /\ todo \in Seq(Segment)
  /\ \A j \in 1 .. Len(todo) :
       /\ todo[j].type = "RAMP" => todo[j].size = Ramp
       /\ todo[j].type = "ZERO" => todo[j].size >= 0
       /\ todo[j].type = "EOF" <=> At("input", "finish")
  /\ At("input", "finish") => Len(todo) = 1
  /\ pc["input"] \in Marking => Len(todo) >= 5 /\ todo[1].type = "RAMP"
  /\ pc["input"] \in {"tone", "exit"} => Len(todo) = 0

(* The end of the text goes through the same hands.                        *)
EndInv ==
  /\ morsel.type = "EOF" <=> At("input", "exit")
  /\ At("input", "exit") => pc["play"] \in {"wait"} \cup Ending
  /\ At("input", "exit") /\ At("play", "wait") => writer = 1
  /\ pc["play"] \in Ending => At("input", "exit")
  /\ At("main", "exit") => At("play", "exit")

(* The speeds at which a character space lasts two buffers.                *)
SlowEnough == \A d \in Speeds : CharSpace(d) >= 2 * Size - 1

(* Enough silence for the rings and zout: from the last character space, or*)
(* from before the first character.                                        *)
Calm == Silence >= 2 * Size - 1 \/ (morsel.type = "ZERO" /\ since >= Size + k)

TailInv ==
  LET n == Len(todo) IN
  IF At("input", "exit") THEN since >= Size + k
  ELSE IF n = 0 \/ At("input", "finish") THEN Calm
  ELSE /\ todo[n].type = "ZERO"
       /\ n = 1 => Calm \/ Silence + todo[1].size >= 2 * Size - 1
       /\ n > 1 => /\ todo[n - 1].type = "ZERO"
                   /\ todo[n - 1].size + todo[n].size >= 2 * Size - 1

(* The space in front of an element, wherever it is by now.                *)
GapInv ==
  /\ \A j \in 1 .. Len(todo) : todo[j].gap # -1 =>
       /\ todo[j].type = "RAMP" /\ todo[j].gap \in Nat /\ j < Len(todo)
       /\ j > 1 => todo[j - 1].type = "ZERO"
       /\ j > 2 => todo[j - 2].type = "RAMP"
       /\ todo[j].gap * dit = (IF j = 1 THEN Silence ELSE todo[j - 1].size
                                 + (IF j = 2 THEN Silence ELSE 0))
  /\ writer > 0 /\ morsel.gap # -1 => since = morsel.gap * dit /\ todo # <<>>

(* The space that is owed to the next character, wherever it is by now.    *)
OwedInv ==
  /\ b \in BOOLEAN
  /\ owed = -1 \/ (owed = 3 /\ ~b) \/ (owed \in Nat /\ owed >= 7 /\ b)
  /\ owed # -1 /\ pc["input"] \notin {"finish", "exit"} =>
       LET n == Len(todo) IN
       /\ n > 0 => todo[n].type = "ZERO"
       /\ n > 1 => todo[n - 1].type = "ZERO"
       /\ n > 2 => todo[n - 2].type = "RAMP"
       /\ owed * dit = (IF n > 0 THEN todo[n].size ELSE 0) + (IF n > 1 THEN todo[n - 1].size ELSE 0)
                         + (IF n > 2 THEN 0 ELSE Silence)

-----------------------------------------------------------------------------
(* What the steps have in common: a step moves one thread, and only that.  *)
LEMMA GotoPc ==
  ASSUME PlaceInv, NEW t \in Threads, NEW l, Goto(t, l)
  PROVE  pc'[t] = l /\ \A s \in Threads \ {t} : pc'[s] = pc[s]
  BY DEF PlaceInv, Goto

LEMMA GotoPlace ==
  ASSUME PlaceInv, NEW t \in Threads, NEW l \in Places(t), Goto(t, l)
  PROVE  PlaceInv'
<1>1. DOMAIN pc' = Threads
  BY DEF PlaceInv, Goto
<1>2. QED
  BY <1>1, GotoPc DEF PlaceInv

LEMMA Words ==
  /\ Sending("input") = {"key", "tone"} /\ Sending("timer") = {"release"}
  /\ Sending("main") = {"tune"}
  /\ Sent("key") = "keyed" /\ Sent("tone") = "getchar"
  /\ Sent("release") = "released" /\ Sent("tune") = "join"
  BY DEF Sending, Sent

LEMMA PlaceNames ==
  /\ Places("input") = {"getchar", "ptt", "key", "keyed", "tone", "finish", "exit"}
  /\ Places("play") = {"ask", "wait", "make", "send", "left", "right", "drain",
                       "last", "left*", "right*", "exit"}
  /\ Places("jack") = {"idle", "right"}
  /\ Places("timer") = {"sleep", "count", "release", "released"}
  /\ Places("main") = {"open", "socket", "tune", "join", "exit"}
  BY DEF Places

(* A thread in send_command stays where it called it, or goes on.          *)
LEMMA SendMoves ==
  ASSUME NEW t \in Speakers, SendCommand(t)
  PROVE  /\ pc[t] \in Sending(t)
         /\ pc' = pc \/ Goto(t, Sent(pc[t]))
         /\ UNCHANGED <<forSR, text, morsel, sems, sound, rings, ptt>>
<1>1. pc[t] \in Sending(t) /\ (pc' = pc \/ Goto(t, Sent(pc[t])))
  BY Zenon DEF SendCommand, NoPort, Compose, Measure, Transmit, SendError, Check, Select,
    SelectTimeout, Block, RecvError, Answered, Calling, GoOn, Return
<1>2. UNCHANGED <<forSR, text, morsel, sems, sound, rings, ptt>>
  BY Zenon DEF SendCommand
<1>3. QED
  BY <1>1, <1>2

LEMMA SendPc ==
  ASSUME PlaceInv, NEW t \in Speakers, SendCommand(t)
  PROVE  /\ t \in Threads /\ pc[t] \in Sending(t)
         /\ pc' = pc \/ (pc'[t] = Sent(pc[t]) /\ Goto(t, Sent(pc[t])))
         /\ \A s \in Threads \ {t} : pc'[s] = pc[s]
<1>1. t \in Threads
  BY DEF Speakers, Threads
<1>2. QED
  BY <1>1, SendMoves, GotoPc

LEMMA SendPlaces ==
  ASSUME PlaceInv, NEW t \in Speakers, SendCommand(t)
  PROVE  PlaceInv'
<1>1. t \in Threads /\ pc[t] \in Sending(t) /\ (pc' = pc \/ Goto(t, Sent(pc[t])))
  BY SendPc
<1>2. Sent(pc[t]) \in Places(t)
  BY <1>1, Words, PlaceNames DEF Speakers
<1>3. CASE pc' = pc
  BY <1>3 DEF PlaceInv
<1>4. CASE Goto(t, Sent(pc[t]))
  BY <1>1, <1>2, <1>4, GotoPlace
<1>5. QED
  BY <1>1, <1>3, <1>4

(* The transmitter's steps, and the end.                                   *)
Idling == Radio \/ Crash \/ Ended

LEMMA PlaceStep == ASSUME PlaceInv, [Next]_vars PROVE PlaceInv'
<1> USE GotoPlace DEF At
<1> DEFINE P == PlaceInv'
<1>0. /\ \A t \in Threads : t \in {"input", "play", "jack", "timer", "main"}
      /\ "input" \in Threads /\ "play" \in Threads /\ "jack" \in Threads
      /\ "timer" \in Threads /\ "main" \in Threads
  BY DEF Threads
<1>1. CASE UNCHANGED pc
  BY <1>1 DEF PlaceInv
<1>2. CASE Input
  BY <1>0, <1>1, <1>2 DEF Input, ReadCharacter, ReadBlank, ReadSpeed, ReadTone, ReadEnd, Places, Threads
<1>3. CASE TestPtt \/ MarkPtt \/ HandOver
  BY <1>0, <1>1, <1>3 DEF TestPtt, MarkPtt, HandOver, Places
<1>4. CASE Play
  <2>1. CASE Ask \/ Receive \/ MakeSamples \/ Drained
    BY <1>0, <2>1 DEF Ask, Receive, MakeSamples, Drained, Places
  <2>2. CASE SendSound \/ WriteLeft \/ WriteRight
    BY <1>0, <2>2 DEF SendSound, WriteLeft, WriteRight, Places
  <2>3. QED
    BY <1>4, <2>1, <2>2 DEF Play
<1>5. CASE Jack
  BY <1>0, <1>1, <1>5 DEF Jack, PlaySilence, PlayLeft, PlayRight, Places, vars
<1>6. CASE Timer
  BY <1>0, <1>6 DEF Timer, TimerLoad, TimerCount, TimerReleased, Places
<1>7. CASE \E t \in Speakers : SendCommand(t)
  BY <1>7, SendPlaces
<1>8. CASE OpenPort \/ OpenSocket \/ Leave
  BY <1>0, <1>8 DEF OpenPort, OpenSocket, Leave, Places
<1>9. CASE Idling \/ UNCHANGED vars
  BY <1>1, <1>9 DEF Idling, Radio, Crash, Ended, vars
<1>10. QED
  BY <1>2, <1>3, <1>4, <1>5, <1>6, <1>7, <1>8, <1>9 DEF Next, Step, Main, Speakers, Idling

-----------------------------------------------------------------------------
(* The transmitter.                                                        *)

(* What a step must leave alone so as not to matter.                       *)
LEMMA PttFrame ==
  ASSUME PttInv, PTT_state' = PTT_state, radio' = radio, astray' = astray, call' = call,
         pc'["timer"] = pc["timer"] \/ ({pc["timer"], pc'["timer"]} \subseteq {"sleep", "count"} /\ PTT_state),
         pc'["input"] = pc["input"] \/ (Keying \/ Keying' => FALSE)
  PROVE  PttInv'
  BY DEF PttInv, Keying, Releasing, KeyTold, OffTold, At

(* Whoever is not in send_command does not come past its start.            *)
LEMMA CallFrame ==
  ASSUME CallInv, call' = call,
         \A t \in Speakers : pc[t] \in Sending(t) => pc'[t] = pc[t]
  PROVE  CallInv'
  BY DEF CallInv

LEMMA CallSend ==
  ASSUME PlaceInv, CallInv, NEW t \in Speakers, SendCommand(t)
  PROVE  /\ CallInv'
         /\ \A s \in Speakers \ {t} : call'[s] = call[s]
<1>1. /\ t \in Threads /\ pc[t] \in Sending(t)
      /\ \A s \in Threads \ {t} : pc'[s] = pc[s]
  BY SendPc
<1>2. (pc' = pc \/ call' = [call EXCEPT ![t] = "send"]) /\ \E s : call' = [call EXCEPT ![t] = s]
  BY Zenon DEF SendCommand, NoPort, Compose, Measure, Transmit, SendError, Check, Select,
    SelectTimeout, Block, RecvError, Answered, GoOn, Return
<1>3. DOMAIN call' = Speakers /\ \A s \in Speakers \ {t} : call'[s] = call[s]
  BY <1>2 DEF CallInv
<1>4. pc' = pc \/ call'[t] = "send"
  BY <1>2 DEF CallInv
<1>5. Speakers \subseteq Threads
  BY DEF Speakers, Threads
<1>6. QED
  BY <1>1, <1>3, <1>4, <1>5 DEF CallInv

(* A command to the transmitter: it is lost, or it has its effect before   *)
(* the thread is done with it.                                             *)
Effect(t) ==
  \/ Command(t) = "tone" /\ radio' = radio
  \/ call[t] \notin After /\ call'[t] \notin After /\ pc' = pc /\ radio' = radio
  \/ /\ Command(t) # "tone" /\ radio' = (Command(t) = "ptt on")
     /\ call[t] \notin After /\ call'[t] \in After /\ pc' = pc
  \/ /\ call[t] \in After /\ radio' = radio
     /\ (pc' = pc /\ call'[t] \in After) \/ pc'[t] = Sent(pc[t])

LEMMA SendEffect ==
  ASSUME PlaceInv, CallInv, NEW t \in Speakers, SendCommand(t),
         astray \in BOOLEAN, radio \in BOOLEAN
  PROVE  /\ astray' \in BOOLEAN /\ radio' \in BOOLEAN
         /\ ~astray' => ~astray
         /\ ~astray' => Effect(t)
<1>0. \A s : call' = [call EXCEPT ![t] = s] => call'[t] = s
  BY DEF CallInv
<1>1. CASE NoPort(t) \/ SendError(t)
  <2>1. astray' = (astray \/ Command(t) # "tone") /\ radio' = radio
    BY <1>1, Zenon DEF NoPort, SendError, Lost, Keys
  <2>2. astray' \in BOOLEAN /\ (~astray' => ~astray /\ Command(t) = "tone")
    BY <2>1, Zenon
  <2>3. QED
    BY <2>1, <2>2, Zenon DEF Effect
<1>2. CASE Compose(t) \/ Measure(t)
  <2>1. /\ call[t] \in {"send", "measure"} /\ pc' = pc /\ radio' = radio /\ astray' = astray
        /\ call'[t] \in {"measure", "blast"}
    BY <1>0, <1>2 DEF Compose, Measure, Calling, GoOn
  <2>2. QED
    BY <2>1 DEF Effect, After
<1>3. CASE Transmit(t)
  <2>1. /\ call[t] = "blast" /\ pc' = pc /\ call'[t] = "check"
        /\ astray' = (astray \/ {buff, used} # {Command(t)})
    BY <1>0, <1>3, Zenon DEF Transmit, Calling, GoOn
  <2>2. PICK what \in Blasted :
          radio' = CASE what = "ptt on" -> TRUE [] what = "ptt off" -> FALSE [] OTHER -> radio
    BY <1>3, Zenon DEF Transmit
  <2>3. radio' \in BOOLEAN
    BY <2>2
  <2>4. astray' \in BOOLEAN /\ (~astray' => ~astray /\ {buff, used} = {Command(t)})
    BY <2>1, Zenon
  <2>5. ASSUME ~astray' PROVE Effect(t)
    <3>0. buff = Command(t) /\ used = Command(t)
      BY <2>4, <2>5
    <3>1. what = Command(t)
      BY <2>2, <3>0 DEF Blasted
    <3>2. Command(t) \in {"ptt on", "ptt off", "tone"}
      BY DEF Command, Speakers
    <3>3. radio' = IF Command(t) = "tone" THEN radio ELSE Command(t) = "ptt on"
      BY <2>2, <3>1, <3>2
    <3>4. QED
      BY <2>1, <3>3, Zenon DEF Effect, After
  <2>6. QED
    BY <2>3, <2>4, <2>5, Zenon
<1>4. CASE Check(t) \/ Select(t) \/ SelectTimeout(t) \/ Block(t) \/ RecvError(t) \/ Answered(t)
  <2>1. call[t] \in After /\ radio' = radio /\ astray' = astray
    BY <1>4 DEF Check, Select, SelectTimeout, Block, RecvError, Answered, Calling, After
  <2>2. \/ pc' = pc /\ \E s \in After : call' = [call EXCEPT ![t] = s]
        \/ Goto(t, Sent(pc[t]))
    BY <1>4 DEF Check, Select, SelectTimeout, Block, RecvError, Answered, GoOn, Return, After
  <2>3. t \in Threads
    BY DEF Speakers, Threads
  <2>4. (pc' = pc /\ call'[t] \in After) \/ pc'[t] = Sent(pc[t])
    BY <1>0, <2>2, <2>3, GotoPc
  <2>5. QED
    BY <2>1, <2>4, Zenon DEF Effect
<1>5. QED
  BY <1>1, <1>2, <1>3, <1>4, Zenon DEF SendCommand

LEMMA PttSend ==
  ASSUME PlaceInv, CallInv, PttInv, NEW t \in Speakers, SendCommand(t)
  PROVE  PttInv'
<1>0. /\ "input" \in Threads /\ "timer" \in Threads
      /\ "input" \in Speakers /\ "timer" \in Speakers
  BY DEF Speakers, Threads
<1>1. PTT_state' = PTT_state
  BY SendMoves DEF ptt
<1>2. /\ t \in Threads /\ pc[t] \in Sending(t)
      /\ pc' = pc \/ pc'[t] = Sent(pc[t])
      /\ \A s \in Threads \ {t} : pc'[s] = pc[s]
  BY SendPc
<1>3. \A s \in Speakers \ {t} : call'[s] = call[s]
  BY CallSend
<1>4. /\ astray' \in BOOLEAN /\ radio' \in BOOLEAN
      /\ ~astray' => ~astray
      /\ ~astray' => Effect(t)
  BY SendEffect, Zenon DEF PttInv
<1>5. /\ Keying' <=> Keying
      /\ Releasing' <=> Releasing
      /\ At("timer", "count")' <=> At("timer", "count")
  BY <1>0, <1>2, Words DEF Keying, Releasing, At, Speakers
<1>6. ASSUME ~astray'
      PROVE  /\ (KeyTold => radio)'
             /\ (OffTold => ~radio)'
             /\ (~KeyTold /\ ~OffTold => (radio <=> PTT_state))'
  <2>0. ~astray /\ Effect(t)
    BY <1>4, <1>6
  <2>1. CASE t = "input" /\ pc["input"] = "key"
    <3>1. Command(t) = "ptt on"
      BY <2>1 DEF Command, At
    <3>2. Keying /\ ~Releasing
      BY <2>1 DEF PttInv, Keying
    <3>3. ~OffTold /\ ~OffTold'
      BY <1>5, <3>2 DEF OffTold, Releasing, At
    <3>4. \/ ~KeyTold /\ ~KeyTold' /\ radio' = radio
          \/ KeyTold' /\ radio' = TRUE
          \/ KeyTold /\ KeyTold' /\ radio' = radio
      BY <2>0, <2>1, <3>1, Words DEF Effect, KeyTold, At
    <3>5. QED
      BY <1>1, <2>0, <3>3, <3>4 DEF PttInv
  <2>2. CASE t = "timer"
    <3>1. Command(t) = "ptt off" /\ pc["timer"] = "release"
      BY <1>2, <2>2, Words DEF Command
    <3>2. Releasing /\ ~Keying
      BY <3>1 DEF PttInv, Releasing
    <3>3. ~KeyTold /\ ~KeyTold'
      BY <1>5, <3>2 DEF KeyTold, Keying, At
    <3>4. \/ ~OffTold /\ ~OffTold' /\ radio' = radio
          \/ OffTold' /\ radio' = FALSE
          \/ OffTold /\ OffTold' /\ radio' = radio
      BY <2>0, <2>2, <3>1, Words DEF Effect, OffTold, At
    <3>5. QED
      BY <1>1, <2>0, <3>3, <3>4 DEF PttInv
  <2>3. CASE t = "main" \/ (t = "input" /\ pc["input"] = "tone")
    <3>1. Command(t) = "tone"
      BY <2>3 DEF Command, At
    <3>2. radio' = radio
      BY <2>0, <3>1 DEF Effect
    <3>3. KeyTold' = KeyTold /\ OffTold' = OffTold
      BY <1>0, <1>2, <1>3, <2>3, Words DEF KeyTold, OffTold, At
    <3>4. QED
      BY <1>1, <2>0, <3>2, <3>3 DEF PttInv
  <2>4. QED
    BY <1>2, <2>1, <2>2, <2>3, Words DEF Speakers
<1>7. QED
  BY <1>1, <1>4, <1>5, <1>6 DEF PttInv

LEMMA PttStep ==
  ASSUME PlaceInv, CallInv, PttInv, [Next]_vars
  PROVE  CallInv' /\ PttInv'
<1>0. /\ "input" \in Threads /\ "play" \in Threads /\ "jack" \in Threads
      /\ "timer" \in Threads /\ "main" \in Threads
      /\ Speakers = {"input", "timer", "main"}
  BY DEF Threads, Speakers
<1>1. wire' = wire => radio' = radio /\ astray' = astray /\ call' = call
  BY DEF wire, port
<1>2. ptt' = ptt => PTT_state' = PTT_state
  BY DEF ptt
<1>3. CASE Input
  <2>1. PTT_state' = PTT_state /\ wire' = wire
    BY <1>2, <1>3, Zenon DEF Input, ReadCharacter, ReadBlank, ReadSpeed, ReadTone, ReadEnd
  <2>2. \/ pc' = pc
        \/ At("input", "getchar") /\ \E l \in {"ptt", "tone", "finish"} : Goto("input", l)
    BY <1>3, Zenon DEF Input, Type, ReadCharacter, ReadBlank, ReadSpeed, ReadTone, ReadEnd
  <2>3. PttInv'
    BY <1>0, <1>1, <2>1, <2>2, PttFrame, GotoPc DEF Keying, At
  <2>4. \A t \in Speakers : pc[t] \in Sending(t) => pc'[t] = pc[t]
    BY <1>0, <2>2, GotoPc, Words DEF At
  <2>5. QED
    BY <1>1, <2>1, <2>3, <2>4, CallFrame
<1>4. CASE TestPtt
  <2>1. PTT_state' = PTT_state /\ radio' = radio /\ astray' = astray /\ call' = call
    BY <1>1, <1>2, <1>4, Zenon DEF TestPtt
  <2>2. pc["input"] = "ptt"
    BY <1>4, Zenon DEF TestPtt, At
  <2>3. Goto("input", "getchar") \/ (Goto("input", "key") /\ ~PTT_state)
    BY <1>4, Zenon DEF TestPtt
  <2>4. /\ pc'["input"] = "getchar" \/ (pc'["input"] = "key" /\ ~PTT_state)
        /\ \A t \in Threads \ {"input"} : pc'[t] = pc[t]
    BY <1>0, <2>3, GotoPc
  <2>5. call["input"] = "send" /\ "send" \notin After
    BY <1>0, <2>2, Words DEF CallInv, After
  <2>6. PttInv'
    BY <1>0, <2>1, <2>2, <2>4, <2>5 DEF PttInv, Keying, Releasing, KeyTold, OffTold, At
  <2>7. \A t \in Speakers : pc[t] \in Sending(t) => pc'[t] = pc[t]
    BY <1>0, <2>2, <2>4, Words
  <2>8. QED
    BY <2>1, <2>6, <2>7, CallFrame
<1>5. CASE MarkPtt
  <2>1. /\ PTT_state' = TRUE /\ radio' = radio /\ astray' = astray /\ call' = call
        /\ pc["input"] = "keyed"
    BY <1>1, <1>5, Zenon DEF MarkPtt, At
  <2>2. pc'["input"] = "getchar" /\ \A t \in Threads \ {"input"} : pc'[t] = pc[t]
    BY <1>0, <1>5, GotoPc DEF MarkPtt
  <2>3. PttInv'
    BY <1>0, <2>1, <2>2 DEF PttInv, Keying, Releasing, KeyTold, OffTold, At
  <2>4. \A t \in Speakers : pc[t] \in Sending(t) => pc'[t] = pc[t]
    BY <1>0, <2>1, <2>2, Words
  <2>5. QED
    BY <2>1, <2>3, <2>4, CallFrame
<1>6. CASE HandOver
  <2>1. ptt' = ptt /\ wire' = wire
    BY <1>6, Zenon DEF HandOver
  <2>2. pc["input"] \in {"getchar", "finish"} /\ (pc' = pc \/ Goto("input", "exit"))
    BY <1>6, Zenon DEF HandOver
  <2>3. /\ pc'["input"] \in {pc["input"], "exit"}
        /\ \A t \in Threads \ {"input"} : pc'[t] = pc[t]
    BY <1>0, <2>2, GotoPc
  <2>4. PttInv'
    BY <1>0, <1>1, <1>2, <2>1, <2>2, <2>3, PttFrame DEF Keying
  <2>5. \A t \in Speakers : pc[t] \in Sending(t) => pc'[t] = pc[t]
    BY <1>0, <2>2, <2>3, Words
  <2>6. QED
    BY <1>1, <2>1, <2>4, <2>5, CallFrame
<1>7. CASE Play \/ Jack \/ OpenPort \/ OpenSocket \/ Leave \/ Idling \/ UNCHANGED vars
  <2>1. ptt' = ptt /\ radio' = radio /\ astray' = astray /\ call' = call
    BY <1>1, <1>7, Zenon DEF Play, Ask, Receive, MakeSamples, SendSound, WriteLeft, WriteRight,
      Drained, Jack, PlaySilence, PlayLeft, PlayRight, OpenPort, OpenSocket, Leave, Idling,
      Radio, Crash, Ended, vars, port
  <2>2. \/ pc' = pc
        \/ \E t \in {"play", "jack"} : \E l : Goto(t, l)
        \/ pc["main"] # "tune" /\ \E l : Goto("main", l)
    BY <1>7, Zenon DEF Play, Ask, Receive, MakeSamples, SendSound, WriteLeft, WriteRight,
      Drained, Jack, PlaySilence, PlayLeft, PlayRight, OpenPort, OpenSocket, Leave, Idling,
      Radio, Crash, Ended, vars, At
  <2>3. /\ pc'["input"] = pc["input"] /\ pc'["timer"] = pc["timer"]
        /\ pc["main"] = "tune" => pc'["main"] = pc["main"]
    BY <1>0, <2>2, GotoPc
  <2>4. PttInv'
    BY <1>2, <2>1, <2>3, PttFrame
  <2>5. \A t \in Speakers : pc[t] \in Sending(t) => pc'[t] = pc[t]
    BY <1>0, <2>3, Words
  <2>6. QED
    BY <2>1, <2>4, <2>5, CallFrame
<1>8. CASE TimerLoad \/ TimerCount
  <2>1. PTT_state' = PTT_state /\ radio' = radio /\ astray' = astray /\ call' = call
    BY <1>1, <1>8, Zenon DEF TimerLoad, TimerCount
  <2>2. \/ pc["timer"] = "sleep" /\ PTT_state /\ Goto("timer", "count")
        \/ pc["timer"] = "count" /\ \E l \in {"release", "sleep"} : Goto("timer", l)
    BY <1>8, Zenon DEF TimerLoad, TimerCount, At
  <2>3. /\ \/ pc["timer"] = "sleep" /\ PTT_state /\ pc'["timer"] = "count"
           \/ pc["timer"] = "count" /\ pc'["timer"] \in {"release", "sleep"}
        /\ \A t \in Threads \ {"timer"} : pc'[t] = pc[t]
    BY <1>0, <2>2, GotoPc
  <2>4. call["timer"] = "send" /\ "send" \notin After
    BY <1>0, <2>3, Words DEF CallInv, After
  <2>5. PttInv'
    BY <1>0, <2>1, <2>3, <2>4 DEF PttInv, Keying, Releasing, KeyTold, OffTold, At
  <2>6. \A t \in Speakers : pc[t] \in Sending(t) => pc'[t] = pc[t]
    BY <1>0, <2>3, Words
  <2>7. QED
    BY <2>1, <2>5, <2>6, CallFrame
<1>9. CASE TimerReleased
  <2>1. /\ PTT_state' = FALSE /\ radio' = radio /\ astray' = astray /\ call' = call
        /\ pc["timer"] = "released"
    BY <1>1, <1>9, Zenon DEF TimerReleased, At
  <2>2. pc'["timer"] = "sleep" /\ \A t \in Threads \ {"timer"} : pc'[t] = pc[t]
    BY <1>0, <1>9, GotoPc DEF TimerReleased
  <2>3. PttInv'
    BY <1>0, <2>1, <2>2 DEF PttInv, Keying, Releasing, KeyTold, OffTold, At
  <2>4. \A t \in Speakers : pc[t] \in Sending(t) => pc'[t] = pc[t]
    BY <1>0, <2>1, <2>2, Words
  <2>5. QED
    BY <2>1, <2>3, <2>4, CallFrame
<1>10. CASE \E t \in Speakers : SendCommand(t)
  BY <1>10, PttSend, CallSend
<1>11. QED
  BY <1>3, <1>4, <1>5, <1>6, <1>7, <1>8, <1>9, <1>10
  DEF Next, Step, Main, Timer, Speakers, Idling

LEMMA InitPtt == Init => PlaceInv /\ CallInv /\ PttInv
<1> SUFFICES ASSUME Init PROVE PlaceInv /\ CallInv /\ PttInv
  OBVIOUS
<1>1. DOMAIN pc = Threads
  BY DEF Init
<1>2. \A t \in Threads : pc[t] \in Places(t)
  <2>1. /\ pc["input"] = "getchar" /\ pc["play"] = "ask" /\ pc["jack"] = "idle"
        /\ pc["timer"] = "sleep" /\ pc["main"] \in {"open", "join"}
    BY DEF Init, Threads
  <2>2. QED
    BY <2>1, PlaceNames DEF Threads
<1>3. pc["input"] = "getchar" /\ pc["timer"] = "sleep"
  BY DEF Init, Threads
<1>4. CallInv
  BY DEF Init, CallInv
<1>5. QED
  BY <1>1, <1>2, <1>3, <1>4 DEF Init, PlaceInv, PttInv, Keying, Releasing, KeyTold, OffTold, At

(* PTT_state, which reader_thread and PTT_timer_thread of                  *)
(* keyboard-keyer-for-SR.c test and set without a lock, is what the        *)
(* transmitter was told, whatever the interleaving, except while one of    *)
(* the two is telling it and after a command was lost.                     *)
THEOREM PttKept == Spec => []PttAgrees
<1>1. PlaceInv /\ PttInv => PttAgrees
  BY DEF PttInv, PttAgrees, Keying, Releasing, KeyTold, OffTold, At
<1>2. QED
  BY <1>1, InitPtt, PlaceStep, PttStep, PTL DEF Spec

-----------------------------------------------------------------------------
(* The rings.                                                              *)
SoundInv == CountInv /\ TokenInv /\ FillInv /\ Together

(* The actions that leave the semaphores, the samples and the rings alone. *)
Quiet ==
  \/ Input \/ TestPtt \/ MarkPtt \/ PlaySilence \/ Timer \/ OpenPort \/ OpenSocket \/ Leave \/ Idling
  \/ UNCHANGED vars
  \/ \E t \in Speakers : SendCommand(t)

LEMMA StepKinds ==
  ASSUME [Next]_vars
  PROVE  Quiet \/ HandOver \/ Play \/ PlayLeft \/ PlayRight
  BY Zenon DEF Next, Step, Quiet, Main, Jack, Speakers, Idling

LEMMA QuietFrame ==
  ASSUME PlaceInv, Quiet
  PROVE  /\ sems' = sems /\ sound' = sound /\ rings' = rings /\ morsel' = morsel
         /\ pc'["play"] = pc["play"] /\ pc'["jack"] = pc["jack"]
<1>0. /\ "input" \in Threads /\ "play" \in Threads /\ "jack" \in Threads
      /\ "timer" \in Threads /\ "main" \in Threads
  BY DEF Threads
<1>1. CASE \E t \in Speakers : SendCommand(t)
  <2>1. PICK t \in Speakers : SendCommand(t)
    BY <1>1
  <2>2. pc' = pc \/ \E to : Goto(t, to)
    BY <2>1, SendMoves
  <2>3. sems' = sems /\ sound' = sound /\ rings' = rings /\ morsel' = morsel
    BY <2>1, SendMoves
  <2>4. QED
    BY <1>0, <2>2, <2>3, GotoPc DEF Speakers
<1>2. CASE ~ \E t \in Speakers : SendCommand(t)
  <2>1. sems' = sems /\ sound' = sound /\ rings' = rings /\ morsel' = morsel
    BY <1>2, Zenon DEF Quiet, Input, ReadCharacter, ReadBlank, ReadSpeed, ReadTone, ReadEnd,
      TestPtt, MarkPtt, PlaySilence, Timer, TimerLoad, TimerCount, TimerReleased, OpenPort, OpenSocket,
      Leave, Idling, Radio, Crash, Ended, vars, port
  <2>2. pc' = pc \/ \E t \in {"input", "timer", "main"} : \E l : Goto(t, l)
    BY <1>2, Zenon DEF Quiet, Input, ReadCharacter, ReadBlank, ReadSpeed, ReadTone, ReadEnd,
      TestPtt, MarkPtt, PlaySilence, Timer, TimerLoad, TimerCount, TimerReleased, OpenPort, OpenSocket,
      Leave, Idling, Radio, Crash, Ended, vars, port
  <2>3. QED
    BY <1>0, <2>1, <2>2, GotoPc
<1>3. QED
  BY <1>1, <1>2

LEMMA InitSound == Init => SoundInv
<1> SUFFICES ASSUME Init PROVE SoundInv
  OBVIOUS
<1>1. pc["play"] = "ask" /\ pc["jack"] = "idle"
  BY DEF Init, Threads
<1>2. /\ reader = 0 /\ writer = 0 /\ ready = 0 /\ left = 0 /\ k = 0 /\ out = 0
      /\ lring = Size /\ rring = Size /\ since = Size /\ Size \in Nat \ {0}
  BY KeyboardAssumption DEF Init
<1>3. CountInv /\ TokenInv
  BY <1>1, <1>2 DEF CountInv, TokenInv, At, Ending
<1>4. Ahead = 0 /\ Written = 0 /\ Rest = Size
  BY <1>1, <1>2 DEF Ahead, Written, Rest, At
<1>5. FillInv
  BY <1>1, <1>2, <1>4 DEF FillInv, At
<1>6. Together
  BY <1>1, <1>2 DEF Together, At
<1>7. QED
  BY <1>3, <1>5, <1>6 DEF SoundInv

LEMMA SoundQuiet == ASSUME PlaceInv, SoundInv, Quiet PROVE SoundInv'
<1>1. /\ reader' = reader /\ writer' = writer /\ ready' = ready
      /\ left' = left /\ k' = k /\ since' = since
      /\ out' = out /\ lring' = lring /\ rring' = rring
      /\ pc'["play"] = pc["play"] /\ pc'["jack"] = pc["jack"]
  BY QuietFrame DEF sems, sound, rings
<1>2. Ahead' = Ahead /\ Written' = Written
  BY <1>1 DEF Ahead, Written, At
<1>3. QED
  BY <1>1, <1>2 DEF SoundInv, CountInv, TokenInv, FillInv, Together, Rest, At

LEMMA SoundHandOver == ASSUME PlaceInv, SoundInv, HandOver PROVE SoundInv'
<1>1. /\ reader > 0 /\ reader' = reader - 1 /\ writer' = writer + 1 /\ ready' = ready
      /\ left' = left /\ k' = k /\ since' = since
      /\ out' = out /\ lring' = lring /\ rring' = rring
  BY DEF HandOver, sound, rings
<1>2. pc'["play"] = pc["play"] /\ pc'["jack"] = pc["jack"]
  <2>1. pc' = pc \/ Goto("input", "exit")
    BY Zenon DEF HandOver
  <2>2. QED
    BY <2>1, GotoPc DEF Threads
<1>3. Ahead' = Ahead /\ Written' = Written
  BY <1>1, <1>2 DEF Ahead, Written, At
<1>4. QED
  BY <1>1, <1>2, <1>3 DEF SoundInv, CountInv, TokenInv, FillInv, Together, Rest, At

LEMMA SoundTypes ==
  ASSUME SoundInv
  PROVE  /\ k \in Nat /\ k <= Size /\ out \in Nat /\ lring \in Nat /\ rring \in Nat
         /\ Ahead \in Int /\ Written \in Int /\ Rest \in Int /\ Written <= k
<1>1. Size \in Nat
  BY KeyboardAssumption
<1>2. k \in Nat /\ k <= Size /\ out \in Nat /\ lring \in Nat /\ rring \in Nat /\ ready \in Nat
  BY <1>1 DEF SoundInv, CountInv
<1>3. Ahead \in Int /\ Rest \in Int
  BY <1>1, <1>2 DEF Ahead, Rest
<1>4. Written \in Int /\ Written <= k
  BY <1>1, <1>2 DEF SoundInv, FillInv, Written
<1>5. QED
  BY <1>2, <1>3, <1>4

(* send_sound finds room: the rings hold what is being played at most.     *)
LEMMA SoundRoom == ASSUME SoundInv PROVE RoomToSend
<1>1. Size \in Nat \ {0} /\ RingSize \in Nat /\ RingSize > 2 * Size
  BY KeyboardAssumption
<1> SUFFICES ASSUME pc["play"] \in {"send", "last"} PROVE WriteSpace(lring) >= k
  BY DEF RoomToSend
<1>2. lring = Rest /\ k <= Size
  BY SoundTypes DEF SoundInv, FillInv, Written
<1>3. Rest <= Size
  BY <1>1 DEF Rest
<1>4. QED
  BY <1>1, <1>2, <1>3, SoundTypes DEF WriteSpace

(* The playing thread.                                                     *)
LEMMA SoundPlay == ASSUME PlaceInv, SoundInv, morsel \in Segment, Play PROVE SoundInv'
<1>0. "play" \in Threads /\ "jack" \in Threads
  BY DEF Threads
<1>1. Size \in Nat \ {0} /\ RingSize \in Nat /\ RingSize > 2 * Size
  BY KeyboardAssumption
<1> USE DEF SoundInv, At
<1>2. CASE Ask
  <2>1. /\ pc["play"] = "ask" /\ pc'["play"] = "wait" /\ pc'["jack"] = pc["jack"]
        /\ reader' = reader + 1 /\ writer' = writer /\ ready' = ready
        /\ left' = left /\ k' = k /\ since' = since
        /\ out' = out /\ lring' = lring /\ rring' = rring
    BY <1>0, <1>2, GotoPc DEF Ask, sound, rings
  <2>2. Ahead' = Ahead /\ Written' = Written
    BY <2>1 DEF Ahead, Written
  <2>3. CountInv' /\ TokenInv'
    BY <2>1 DEF CountInv, TokenInv, Ending
  <2>4. FillInv' /\ Together'
    BY <1>1, <2>1, <2>2 DEF FillInv, Together, Rest
  <2>5. QED
    BY <2>3, <2>4
<1>3. CASE Receive
  <2>1. /\ pc["play"] = "wait" /\ pc'["jack"] = pc["jack"]
        /\ writer > 0 /\ writer' = writer - 1 /\ reader' = reader /\ ready' = ready
        /\ k' = k /\ since' = since
        /\ out' = out /\ lring' = lring /\ rring' = rring
        /\ \/ pc'["play"] = (IF k > 0 THEN "last" ELSE "exit") /\ left' = left
           \/ pc'["play"] = "make" /\ left' = (IF morsel.size > 0 THEN morsel.size ELSE 0)
    BY <1>0, <1>3, GotoPc DEF Receive, rings
  <2>2. Ahead' = Ahead /\ Written = 0 /\ Written' = 0 /\ Rest' = Rest
    BY <2>1 DEF Ahead, Written, CountInv, Rest
  <2>3. left = 0 /\ left' \in Nat
    BY <2>1 DEF TokenInv, CountInv, Segment, Ending
  <2>4. CountInv' /\ TokenInv'
    BY <2>1, <2>3 DEF CountInv, TokenInv, Ending
  <2>5. FillInv'
    BY <1>1, <2>1, <2>2 DEF FillInv, CountInv
  <2>6. Together'
    BY <2>1 DEF Together
  <2>7. QED
    BY <2>4, <2>5, <2>6
<1>4. CASE MakeSamples
  <2> DEFINE n == Least(left, Size - k)
  <2>1. /\ pc["play"] = "make" /\ pc'["jack"] = pc["jack"]
        /\ pc'["play"] = (IF k + n = Size THEN "send" ELSE "ask")
        /\ left' = left - n /\ k' = k + n
        /\ since' \in {since + n, 0, since}
        /\ reader' = reader /\ writer' = writer /\ ready' = ready
        /\ out' = out /\ lring' = lring /\ rring' = rring
    BY <1>0, <1>4, GotoPc DEF MakeSamples, rings, sems
  <2>2. Ahead' = Ahead /\ Written = 0 /\ Written' = 0 /\ Rest' = Rest
    BY <2>1 DEF Ahead, Written, CountInv, Rest
  <2>3. k < Size
    BY <1>1, <2>1 DEF FillInv, CountInv
  <2>4. /\ n \in Nat /\ n <= left /\ k + n <= Size
        /\ k + n < Size => left = n
    BY <1>1, <2>3 DEF CountInv, Least
  <2> HIDE DEF n
  <2>5. CountInv' /\ TokenInv'
    BY <1>1, <2>1, <2>4 DEF CountInv, TokenInv, Ending
  <2>6. FillInv'
    BY <1>1, <2>1, <2>2, <2>4 DEF FillInv, CountInv
  <2>7. Together'
    BY <2>1 DEF Together
  <2>8. QED
    BY <2>5, <2>6, <2>7
<1>5. CASE SendSound
  <2>1. WriteSpace(lring) >= k
    BY <1>1, <1>5, SoundRoom DEF SendSound, RoomToSend, SoundInv
  <2>2. /\ \/ pc["play"] = "send" /\ pc'["play"] = "left"
           \/ pc["play"] = "last" /\ pc'["play"] = "left*"
        /\ pc'["jack"] = pc["jack"]
        /\ reader' = reader /\ writer' = writer /\ ready' = ready
        /\ left' = left /\ k' = k /\ since' = since
        /\ out' = k /\ lring' = lring /\ rring' = rring
    BY <1>0, <1>1, <1>5, <2>1, GotoPc DEF SendSound, sems, sound, WriteSpace, CountInv
  <2>3. Ahead' = Ahead /\ Written = 0 /\ Written' = 0 /\ Rest' = Rest
    BY <2>2 DEF Ahead, Written, CountInv, Rest
  <2>4. CountInv' /\ TokenInv'
    BY <2>2 DEF CountInv, TokenInv, Ending
  <2>5. FillInv'
    BY <1>1, <2>2, <2>3 DEF FillInv, CountInv
  <2>6. Together'
    BY <2>2 DEF Together
  <2>7. QED
    BY <2>4, <2>5, <2>6
<1>6. CASE WriteLeft
  <2>1. /\ \/ pc["play"] = "left" /\ pc'["play"] = "right"
           \/ pc["play"] = "left*" /\ pc'["play"] = "right*"
        /\ pc'["jack"] = pc["jack"]
        /\ reader' = reader /\ writer' = writer /\ ready' = ready
        /\ left' = left /\ k' = k /\ since' = since
        /\ out' = out /\ lring' = lring + 1 /\ rring' = rring
    BY <1>0, <1>6, GotoPc DEF WriteLeft, sems, sound
  <2>2. Ahead' = Ahead /\ Written' = Written + 1
    BY <2>1 DEF Ahead, Written, CountInv
  <2>3. CountInv' /\ TokenInv'
    BY <2>1 DEF CountInv, TokenInv, Ending
  <2>4. Rest' = Rest
    BY <2>2 DEF Rest
  <2>5. FillInv'
    BY <2>1, <2>2, <2>4, SoundTypes DEF FillInv, CountInv
  <2>6. Together'
    BY <1>1, <2>1 DEF Together, CountInv
  <2>7. QED
    BY <2>3, <2>5, <2>6
<1>7. CASE WriteRight
  <2>1. /\ \/ pc["play"] = "right" /\ pc'["play"] = (IF out = 1 THEN "drain" ELSE "left")
           \/ pc["play"] = "right*" /\ pc'["play"] = (IF out = 1 THEN "exit" ELSE "left*")
        /\ pc'["jack"] = pc["jack"]
        /\ reader' = reader /\ writer' = writer /\ ready' = ready
        /\ left' = left /\ k' = k /\ since' = since
        /\ out' = out - 1 /\ lring' = lring /\ rring' = rring + 1
    BY <1>0, <1>7, GotoPc DEF WriteRight, sems, sound
  <2>2. Ahead' = Ahead /\ Written' = Written
    BY <2>1 DEF Ahead, Written, CountInv
  <2>3. out \in 1 .. k
    BY <2>1 DEF FillInv
  <2>4. CountInv' /\ TokenInv'
    BY <1>1, <2>1, <2>3 DEF CountInv, TokenInv, Ending
  <2>5. Rest' = Rest
    BY <2>2 DEF Rest
  <2>6. FillInv'
    BY <1>1, <2>1, <2>2, <2>3, <2>5 DEF FillInv, CountInv
  <2>7. Together'
    BY <1>1, <2>1 DEF Together, CountInv
  <2>8. QED
    BY <2>4, <2>6, <2>7
<1>8. CASE Drained
  <2>1. /\ pc["play"] = "drain" /\ pc'["play"] = "make" /\ pc'["jack"] = pc["jack"]
        /\ reader' = reader /\ writer' = writer /\ ready > 0 /\ ready' = ready - 1
        /\ left' = left /\ k' = 0 /\ since' = since
        /\ out' = out /\ lring' = lring /\ rring' = rring
    BY <1>0, <1>8, GotoPc DEF Drained, rings
  <2>2. Ahead' = Ahead - 1 /\ Written = k /\ Written' = 0
    BY <2>1 DEF Ahead, Written, CountInv
  <2>3. CountInv' /\ TokenInv'
    BY <1>1, <2>1 DEF CountInv, TokenInv, Ending
  <2>4. k = Size /\ Ahead \in 1 .. 2
    BY <2>1 DEF FillInv, CountInv, Ahead
  <2>5. Rest' = Rest + Size
    BY <1>1, <2>2, <2>4 DEF Rest
  <2>6. FillInv'
    BY <1>1, <2>1, <2>2, <2>4, <2>5, SoundTypes DEF FillInv, CountInv
  <2>7. Together'
    BY <2>1 DEF Together
  <2>8. QED
    BY <2>3, <2>6, <2>7
<1>9. QED
  BY <1>2, <1>3, <1>4, <1>5, <1>6, <1>7, <1>8 DEF Play

LEMMA SoundJack == ASSUME PlaceInv, SoundInv, PlayLeft \/ PlayRight PROVE SoundInv'
<1>0. "play" \in Threads /\ "jack" \in Threads
  BY DEF Threads
<1>1. Size \in Nat \ {0} /\ RingSize \in Nat /\ RingSize > 2 * Size
  BY KeyboardAssumption
<1> USE DEF SoundInv, At
<1>2. CASE PlayLeft
  <2>1. /\ pc["jack"] = "idle" /\ pc'["jack"] = "right" /\ pc'["play"] = pc["play"]
        /\ reader' = reader /\ writer' = writer /\ ready' = ready
        /\ left' = left /\ k' = k /\ since' = since
        /\ out' = out /\ lring >= Size /\ lring' = lring - Size /\ rring' = rring
    BY <1>0, <1>2, GotoPc DEF PlayLeft, sems, sound
  <2>2. Ahead' = Ahead + 1 /\ Written' = Written
    BY <2>1 DEF Ahead, Written, CountInv
  <2>3. CountInv' /\ TokenInv'
    BY <1>1, <2>1 DEF CountInv, TokenInv, Ending
  <2>4. Written \in Int /\ Written <= k
    BY SoundTypes
  <2>5. Ahead \in 0 .. 1
    <3>1. Ahead \in 0 .. 2 /\ lring = Rest + Written /\ k <= Size /\ lring >= Size
      BY <2>1 DEF FillInv, CountInv
    <3>2. CASE Ahead = 2
      <4>1. Rest = -Size
        BY <3>2 DEF Rest
      <4>2. QED
        BY <1>1, <2>4, <3>1, <4>1, SoundTypes
    <3>3. QED
      BY <3>1, <3>2
  <2>6. Rest' = Rest - Size
    BY <1>1, <2>2, <2>5 DEF Rest
  <2>7. FillInv'
    BY <1>1, <2>1, <2>2, <2>5, <2>6, SoundTypes DEF FillInv
  <2>8. Together'
    BY <1>1, <2>1 DEF Together, CountInv
  <2>9. QED
    BY <2>3, <2>7, <2>8
<1>3. CASE PlayRight
  <2>1. /\ pc["jack"] = "right" /\ pc'["jack"] = "idle" /\ pc'["play"] = pc["play"]
        /\ reader' = reader /\ writer' = writer /\ ready' = ready + 1
        /\ left' = left /\ k' = k /\ since' = since
        /\ out' = out /\ lring' = lring
        /\ rring' = rring - (IF rring < Size THEN rring ELSE Size)
    BY <1>0, <1>3, GotoPc DEF PlayRight, sound, Least
  <2>2. Ahead' = Ahead /\ Written' = Written
    BY <2>1 DEF Ahead, Written, CountInv
  <2>3. CountInv' /\ TokenInv'
    BY <1>1, <2>1 DEF CountInv, TokenInv, Ending
  <2>4. FillInv'
    BY <1>1, <2>1, <2>2 DEF FillInv, Rest, CountInv
  <2>5. Together'
    BY <1>1, <2>1 DEF Together, CountInv
  <2>6. QED
    BY <2>3, <2>4, <2>5
<1>4. QED
  BY <1>2, <1>3

-----------------------------------------------------------------------------
(* The segments.                                                           *)

LEMMA SpeedIs == Speeds \subseteq Nat \ {0} /\ Ramp \in Nat \ {0} /\ Size \in Nat \ {0}
  BY KeyboardAssumption

LEMMA SegmentIs ==
  ASSUME NEW s \in Segment
  PROVE  s.type \in {"ZERO", "RAMP", "STDY", "EOF"} /\ s.size \in Int /\ s.gap \in Int
  BY DEF Segment

LEMMA ElementIs ==
  ASSUME NEW e, NEW g \in Int, NEW d \in Nat, NEW i \in 1 .. 4
  PROVE  /\ i = 1 => Element(e, g, d)[i] = Rise(g)
         /\ i = 2 => Element(e, g, d)[i] = Steady(StdySize(e, d))
         /\ i = 3 => Element(e, g, d)[i] = Fall
         /\ i = 4 => Element(e, g, d)[i] = Zero(d)
  BY DEF Element

LEMMA KindsOfSegment ==
  ASSUME NEW g \in Int, NEW n \in Int
  PROVE  /\ Rise(g) \in Segment /\ Fall \in Segment /\ Zero(n) \in Segment
         /\ Steady(n) \in Segment /\ EndOfText \in Segment
         /\ Rise(g).type = "RAMP" /\ Rise(g).size = Ramp /\ Rise(g).gap = g
         /\ Fall.type = "RAMP" /\ Fall.size = Ramp /\ Fall.gap = -1
         /\ Zero(n).type = "ZERO" /\ Zero(n).size = n /\ Zero(n).gap = -1
         /\ Steady(n).type = "STDY" /\ Steady(n).gap = -1
         /\ EndOfText.type = "EOF" /\ EndOfText.gap = -1
<1>1. Ramp \in Int /\ n \in Int /\ g \in Int /\ -1 \in Int
  BY SpeedIs
<1>2. QED
  BY <1>1 DEF Segment, Rise, Fall, Zero, Steady, EndOfText

(* Where in which element the j-th segment is.                             *)
LEMMA Places4 ==
  ASSUME NEW n \in Nat, NEW j \in 1 .. 4 * n
  PROVE  /\ (j + 3) \div 4 \in 1 .. n /\ 1 + ((j + 3) % 4) \in 1 .. 4
         /\ 1 + ((j + 3) % 4) = 1 => j = 1 \/ j > 4
         /\ 1 + ((j + 3) % 4) = 1 /\ j > 4 =>
              1 + ((j - 1 + 3) % 4) = 4 /\ 1 + ((j - 2 + 3) % 4) = 3
         /\ j = 4 * n => 1 + ((j + 3) % 4) = 4 /\ 1 + ((j - 1 + 3) % 4) = 3
  OBVIOUS

LEMMA SegmentsAre ==
  ASSUME NEW c \in Characters, NEW g \in Int, NEW d \in Nat \ {0}
  PROVE  /\ Segments(c, g, d) \in Seq(Segment)
         /\ Len(Segments(c, g, d)) = 4 * Len(c) + 1
         /\ Len(c) \in Nat \ {0}
         /\ Segments(c, g, d)[1] = Rise(g)
         /\ \A j \in 1 .. 4 * Len(c) + 1 :
              \/ j = 1 /\ Segments(c, g, d)[j] = Rise(g)
              \/ /\ j > 4 /\ j < 4 * Len(c) + 1 /\ Segments(c, g, d)[j] = Rise(1)
                 /\ Segments(c, g, d)[j - 1] = Zero(d) /\ Segments(c, g, d)[j - 2] = Fall
              \/ Segments(c, g, d)[j] = Fall
              \/ \E n \in Int : Segments(c, g, d)[j] = Steady(n)
              \/ Segments(c, g, d)[j] = Zero(d)
              \/ Segments(c, g, d)[j] = Zero(2 * d)
         /\ Segments(c, g, d)[4 * Len(c) + 1] = Zero(2 * d)
         /\ Segments(c, g, d)[4 * Len(c)] = Zero(d)
         /\ Segments(c, g, d)[4 * Len(c) - 1] = Fall
<1> DEFINE s == Segments(c, g, d)
           n == Len(c)
           at(j) == 1 + ((j + 3) % 4)
           e(j) == c[(j + 3) \div 4]
           h(j) == IF j <= 4 THEN g ELSE 1
<1>1. c \in Seq({"dit", "dah"}) /\ c # <<>>
  BY KeyboardAssumption
<1>2. n \in Nat \ {0}
  BY <1>1
<1>3. CharSpace(d) - d = 2 * d
  BY DEF CharSpace
<1>4. \A j \in 1 .. 4 * n : s[j] = Element(e(j), h(j), d)[at(j)]
  BY <1>2 DEF Segments
<1>5. s[4 * n + 1] = Zero(2 * d)
  BY <1>2, <1>3 DEF Segments
<1>6. DOMAIN s = 1 .. 4 * n + 1
  BY DEF Segments
<1>7. \A j \in 1 .. 4 * n :
        /\ at(j) \in 1 .. 4
        /\ at(j) = 1 => s[j] = Rise(h(j))
        /\ at(j) = 2 => s[j] = Steady(StdySize(e(j), d))
        /\ at(j) = 3 => s[j] = Fall
        /\ at(j) = 4 => s[j] = Zero(d)
  <2> SUFFICES ASSUME NEW j \in 1 .. 4 * n
               PROVE  /\ at(j) \in 1 .. 4
                      /\ at(j) = 1 => s[j] = Rise(h(j))
                      /\ at(j) = 2 => s[j] = Steady(StdySize(e(j), d))
                      /\ at(j) = 3 => s[j] = Fall
                      /\ at(j) = 4 => s[j] = Zero(d)
    OBVIOUS
  <2>1. at(j) \in 1 .. 4
    BY <1>2, Places4
  <2>2. h(j) \in Int
    OBVIOUS
  <2>3. s[j] = Element(e(j), h(j), d)[at(j)]
    BY <1>4
  <2> HIDE DEF s, at, e, h
  <2>4. QED
    BY <2>1, <2>2, <2>3, ElementIs
<1> HIDE DEF s, e
<1>8. \A j \in 1 .. 4 * n + 1 :
              \/ j = 1 /\ s[j] = Rise(g)
              \/ /\ j > 4 /\ j < 4 * n + 1 /\ s[j] = Rise(1)
                 /\ s[j - 1] = Zero(d) /\ s[j - 2] = Fall
              \/ s[j] = Fall
              \/ \E m \in Int : s[j] = Steady(m)
              \/ s[j] = Zero(d)
              \/ s[j] = Zero(2 * d)
  <2> SUFFICES ASSUME NEW j \in 1 .. 4 * n + 1
               PROVE  \/ j = 1 /\ s[j] = Rise(g)
                      \/ /\ j > 4 /\ j < 4 * n + 1 /\ s[j] = Rise(1)
                         /\ s[j - 1] = Zero(d) /\ s[j - 2] = Fall
                      \/ s[j] = Fall
                      \/ \E m \in Int : s[j] = Steady(m)
                      \/ s[j] = Zero(d)
                      \/ s[j] = Zero(2 * d)
    OBVIOUS
  <2>1. CASE j = 4 * n + 1
    BY <1>5, <2>1
  <2>2. CASE j \in 1 .. 4 * n /\ at(j) = 1
    <3>1. j = 1 \/ j > 4
      BY <1>2, <2>2, Places4
    <3>2. CASE j = 1
      BY <1>7, <2>2, <3>2
    <3>3. CASE j > 4
      <4>1. j - 1 \in 1 .. 4 * n /\ j - 2 \in 1 .. 4 * n /\ at(j - 1) = 4 /\ at(j - 2) = 3
        BY <1>2, <2>2, <3>3, Places4
      <4>2. h(j) = 1
        BY <3>3
      <4>3. QED
        BY <1>2, <1>7, <2>2, <3>3, <4>1, <4>2
    <3>4. QED
      BY <3>1, <3>2, <3>3
  <2>3. CASE j \in 1 .. 4 * n /\ at(j) = 2
    <3>1. StdySize(e(j), d) \in Int
      BY SpeedIs DEF StdySize
    <3>2. QED
      BY <1>7, <2>3, <3>1
  <2>4. CASE j \in 1 .. 4 * n /\ at(j) \in {3, 4}
    BY <1>7, <2>4
  <2>5. QED
    BY <1>2, <1>7, <2>1, <2>2, <2>3, <2>4
<1>9. s[4 * n] = Zero(d) /\ s[4 * n - 1] = Fall
  <2>1. 4 * n \in 1 .. 4 * n /\ 4 * n - 1 \in 1 .. 4 * n
    BY <1>2
  <2>2. at(4 * n) = 4 /\ at(4 * n - 1) = 3
    BY <1>2, <2>1, Places4
  <2>3. QED
    BY <1>7, <2>1, <2>2
<1>10. s[1] = Rise(g)
  <2>1. 1 \in 1 .. 4 * n /\ at(1) = 1 /\ h(1) = g
    BY <1>2
  <2>2. QED
    BY <1>7, <2>1
<1>11. \A j \in 1 .. 4 * n + 1 : s[j] \in Segment
  <2> SUFFICES ASSUME NEW j \in 1 .. 4 * n + 1 PROVE s[j] \in Segment
    OBVIOUS
  <2>1. 1 \in Int /\ d \in Int /\ 2 * d \in Int
    OBVIOUS
  <2>2. QED
    BY <1>8, <2>1, KindsOfSegment
<1>12. s \in Seq(Segment) /\ Len(s) = 4 * n + 1
  <2>1. s \in [1 .. 4 * n + 1 -> Segment]
    BY <1>6, <1>11 DEF s, Segments
  <2>2. 4 * n + 1 \in Nat
    BY <1>2
  <2>3. QED
    BY <2>1, <2>2
<1>13. QED
  BY <1>2, <1>5, <1>8, <1>9, <1>10, <1>12 DEF s

LEMMA TailIs ==
  ASSUME NEW s \in Seq(Segment), s # <<>>
  PROVE  /\ Head(s) = s[1] /\ Head(s) \in Segment
         /\ Tail(s) \in Seq(Segment) /\ Len(Tail(s)) = Len(s) - 1 /\ Len(s) \in Nat \ {0}
         /\ \A j \in 1 .. Len(s) - 1 : Tail(s)[j] = s[j + 1]
  BY HeadTailProperties

LEMMA MarkedIs ==
  ASSUME NEW s \in Seq(Segment), s # <<>>, NEW x \in Segment, NEW y \in Segment
  PROVE  /\ <<x, y>> \o Tail(s) \in Seq(Segment)
         /\ Len(<<x, y>> \o Tail(s)) = Len(s) + 1
         /\ (<<x, y>> \o Tail(s))[1] = x /\ (<<x, y>> \o Tail(s))[2] = y
         /\ \A j \in 3 .. Len(s) + 1 : (<<x, y>> \o Tail(s))[j] = s[j - 1]
<1>1. <<x, y>> \in Seq(Segment) /\ Len(<<x, y>>) = 2
  OBVIOUS
<1>2. Tail(s) \in Seq(Segment) /\ Len(Tail(s)) = Len(s) - 1 /\ Len(s) \in Nat \ {0}
  BY TailIs
<1>3. \A j \in 1 .. Len(s) - 1 : Tail(s)[j] = s[j + 1]
  BY TailIs
<1> DEFINE t == Tail(s)
           p == <<x, y>>
<1>4. p[1] = x /\ p[2] = y
  OBVIOUS
<1> HIDE DEF t, p
<1>5. /\ p \o t \in Seq(Segment)
      /\ Len(p \o t) = Len(p) + Len(t)
      /\ \A i \in 1 .. Len(p) + Len(t) :
           (p \o t)[i] = IF i <= Len(p) THEN p[i] ELSE t[i - Len(p)]
  BY <1>1, <1>2, ConcatProperties DEF p, t
<1>6. Len(p) = 2 /\ Len(t) = Len(s) - 1
  BY <1>1, <1>2 DEF p, t
<1>7. \A j \in 3 .. Len(s) + 1 : (p \o t)[j] = s[j - 1]
  <2> SUFFICES ASSUME NEW j \in 3 .. Len(s) + 1 PROVE (p \o t)[j] = s[j - 1]
    OBVIOUS
  <2>1. (p \o t)[j] = t[j - 2]
    BY <1>2, <1>5, <1>6
  <2>2. t[j - 2] = s[j - 2 + 1]
    BY <1>2, <1>3 DEF t
  <2>3. j - 2 + 1 = j - 1
    OBVIOUS
  <2>4. QED
    BY <2>1, <2>2, <2>3
<1>8. (p \o t)[1] = x /\ (p \o t)[2] = y
  BY <1>2, <1>4, <1>5, <1>6
<1>9. QED
  BY <1>2, <1>5, <1>6, <1>7, <1>8 DEF p, t

-----------------------------------------------------------------------------
(* The text.                                                               *)
Still ==
  \/ ReadTone \/ TestPtt \/ PlaySilence \/ Timer \/ OpenPort \/ OpenSocket \/ Leave \/ Idling
  \/ UNCHANGED vars
  \/ \E t \in Speakers : SendCommand(t)
  \/ Play \/ PlayLeft \/ PlayRight

LEMMA TextKinds ==
  ASSUME [Next]_vars
  PROVE  \/ Still \/ ReadBlank \/ ReadEnd \/ MarkPtt \/ HandOver
         \/ \E c \in Characters : ReadCharacter(c)
         \/ \E d \in Speeds : ReadSpeed(d)
  BY Zenon DEF Next, Step, Still, Input, Main, Jack, Speakers, Idling

LEMMA StillFrame ==
  ASSUME PlaceInv, Still
  PROVE  /\ todo' = todo /\ morsel' = morsel /\ dit' = dit /\ b' = b /\ owed' = owed
         /\ pc'["input"] = "finish" <=> pc["input"] = "finish"
         /\ pc'["input"] = "exit" <=> pc["input"] = "exit"
         /\ pc'["input"] \in Marking => pc["input"] \in Marking
         /\ pc'["input"] = "tone" => pc["input"] = "tone" \/ todo = <<>>
<1>0. /\ "input" \in Threads /\ "play" \in Threads /\ "jack" \in Threads
      /\ "timer" \in Threads /\ "main" \in Threads
  BY DEF Threads
<1>1. CASE \E t \in Speakers : SendCommand(t)
  <2>1. PICK t \in Speakers : SendCommand(t)
    BY <1>1
  <2>2. UNCHANGED text /\ morsel' = morsel
    BY <2>1, SendMoves
  <2>3. /\ pc[t] \in Sending(t)
        /\ pc' = pc \/ pc'[t] = Sent(pc[t])
        /\ \A s \in Threads \ {t} : pc'[s] = pc[s]
    BY <2>1, SendPc
  <2>4. CASE t = "input"
    BY <2>2, <2>3, <2>4, Words DEF Marking, text
  <2>5. CASE t # "input"
    BY <1>0, <2>2, <2>3, <2>5 DEF text
  <2>6. QED
    BY <2>4, <2>5
<1>2. CASE ReadTone
  <2>1. todo' = todo /\ morsel' = morsel /\ dit' = dit /\ b' = b /\ owed' = owed
    BY <1>2 DEF ReadTone
  <2>2. pc["input"] = "getchar" /\ todo = <<>> /\ pc'["input"] = "tone"
    BY <1>0, <1>2, GotoPc DEF ReadTone, Type, At
  <2>3. QED
    BY <2>1, <2>2 DEF Marking
<1>3. CASE TestPtt
  <2>1. todo' = todo /\ morsel' = morsel /\ dit' = dit /\ b' = b /\ owed' = owed
    BY <1>3 DEF TestPtt, text
  <2>2. pc["input"] = "ptt" /\ \E l \in {"getchar", "key"} : Goto("input", l)
    BY <1>3, Zenon DEF TestPtt, At
  <2>3. pc'["input"] \in {"getchar", "key"}
    BY <1>0, <2>2, GotoPc
  <2>4. QED
    BY <2>1, <2>2, <2>3 DEF Marking
<1>4. CASE \/ PlaySilence \/ Timer \/ OpenPort \/ OpenSocket \/ Leave \/ Idling \/ UNCHANGED vars
          \/ Play \/ PlayLeft \/ PlayRight
  <2>1. text' = text /\ morsel' = morsel
    BY <1>4, Zenon DEF PlaySilence, Timer, TimerLoad, TimerCount, TimerReleased, OpenPort, OpenSocket,
      Leave, Idling, Radio, Crash, Ended, vars, port, Play, Ask, Receive, MakeSamples, SendSound, WriteLeft, WriteRight, Drained,
      PlayLeft, PlayRight
  <2>2. pc' = pc \/ \E t \in {"timer", "main", "play", "jack"} : \E l : Goto(t, l)
    BY <1>4, Zenon DEF PlaySilence, Timer, TimerLoad, TimerCount, TimerReleased, OpenPort, OpenSocket,
      Leave, Idling, Radio, Crash, Ended, vars, port, Play, Ask, Receive, MakeSamples, SendSound, WriteLeft, WriteRight, Drained,
      PlayLeft, PlayRight
  <2>3. pc'["input"] = pc["input"]
    BY <1>0, <2>2, GotoPc
  <2>4. QED
    BY <2>1, <2>3 DEF text
<1>5. QED
  BY <1>1, <1>2, <1>3, <1>4, Zenon DEF Still

LEMMA InitTodo == Init => TodoInv /\ EndInv
<1> SUFFICES ASSUME Init PROVE TodoInv /\ EndInv
  OBVIOUS
<1>1. pc["input"] = "getchar" /\ pc["play"] = "ask" /\ pc["main"] \in {"open", "join"}
  BY DEF Init, Threads
<1>2. todo = <<>> /\ morsel = Zero(0) /\ dit \in Speeds
  BY KeyboardAssumption DEF Init
<1>3. 0 \in Int
  OBVIOUS
<1>4. morsel \in Segment /\ morsel.type = "ZERO"
  BY <1>2, <1>3, KindsOfSegment
<1>5. todo \in Seq(Segment) /\ Len(todo) = 0
  BY <1>2
<1>6. TodoInv
  BY <1>1, <1>2, <1>4, <1>5 DEF TodoInv, At, Marking
<1>7. EndInv
  BY <1>1, <1>4 DEF EndInv, At, Ending
<1>8. QED
  BY <1>6, <1>7

LEMMA TodoAt ==
  ASSUME TodoInv, NEW j \in 1 .. Len(todo)
  PROVE  /\ todo[j] \in Segment /\ todo[j].size \in Int /\ todo[j].gap \in Int
         /\ todo[j].type \in {"ZERO", "RAMP", "STDY", "EOF"}
         /\ todo[j].type = "RAMP" => todo[j].size = Ramp
         /\ todo[j].type = "ZERO" => todo[j].size >= 0
         /\ todo[j].type = "EOF" <=> pc["input"] = "finish"
<1>1. todo \in Seq(Segment)
  BY DEF TodoInv
<1>2. todo[j] \in Segment
  BY <1>1
<1>3. /\ todo[j].type = "RAMP" => todo[j].size = Ramp
      /\ todo[j].type = "ZERO" => todo[j].size >= 0
      /\ todo[j].type = "EOF" <=> pc["input"] = "finish"
  BY DEF TodoInv, At
<1>4. QED
  BY <1>2, <1>3, SegmentIs

LEMMA TodoStill == ASSUME PlaceInv, TodoInv, Still PROVE TodoInv'
<1>1. todo' = todo /\ morsel' = morsel /\ dit' = dit
  BY StillFrame
<1>2. /\ pc'["input"] = "finish" <=> pc["input"] = "finish"
      /\ pc'["input"] = "exit" <=> pc["input"] = "exit"
      /\ pc'["input"] \in Marking => pc["input"] \in Marking
      /\ pc'["input"] = "tone" => pc["input"] = "tone" \/ todo = <<>>
  BY StillFrame
<1>3. QED
  BY <1>1, <1>2 DEF TodoInv, At

LEMMA TodoCharacter ==
  ASSUME PlaceInv, TodoInv, NEW c \in Characters, ReadCharacter(c), owed \in Int
  PROVE  TodoInv'
<1>1. /\ todo' = Segments(c, owed, dit) /\ morsel' = morsel /\ dit' = dit
      /\ pc["input"] = "getchar" /\ (pc' = pc \/ Goto("input", "ptt"))
  BY Zenon DEF ReadCharacter, Type, At
<1>2. pc'["input"] \in {"getchar", "ptt"}
  BY <1>1, GotoPc DEF Threads
<1>3. dit \in Nat \ {0}
  BY SpeedIs DEF TodoInv
<1>4. todo' \in Seq(Segment) /\ Len(todo') >= 5 /\ todo'[1].type = "RAMP"
  <2>1. /\ todo' \in Seq(Segment) /\ Len(todo') >= 5 /\ todo'[1] = Rise(owed)
    BY <1>1, <1>3, SegmentsAre
  <2>2. Rise(owed).type = "RAMP"
    BY DEF Rise
  <2>3. QED
    BY <2>1, <2>2
<1>5. \A j \in 1 .. Len(todo') :
        /\ todo'[j].type \in {"RAMP", "ZERO", "STDY"}
        /\ todo'[j].type = "RAMP" => todo'[j].size = Ramp
        /\ todo'[j].type = "ZERO" => todo'[j].size >= 0
  <2> SUFFICES ASSUME NEW j \in 1 .. Len(todo')
               PROVE  /\ todo'[j].type \in {"RAMP", "ZERO", "STDY"}
                      /\ todo'[j].type = "RAMP" => todo'[j].size = Ramp
                      /\ todo'[j].type = "ZERO" => todo'[j].size >= 0
    OBVIOUS
  <2>1. \/ \E g \in Int : todo'[j] = Rise(g)
        \/ todo'[j] = Fall
        \/ \E n \in Int : todo'[j] = Steady(n)
        \/ todo'[j] = Zero(dit)
        \/ todo'[j] = Zero(2 * dit)
    BY <1>1, <1>3, SegmentsAre
  <2>2. dit \in Int /\ 2 * dit \in Int /\ dit >= 0 /\ 2 * dit >= 0
    BY <1>3
  <2>3. CASE \E g \in Int : todo'[j] = Rise(g)
    BY <2>3, KindsOfSegment
  <2>4. CASE todo'[j] = Fall
    BY <2>2, <2>4, KindsOfSegment
  <2>5. CASE \E n \in Int : todo'[j] = Steady(n)
    BY <2>5, KindsOfSegment
  <2>6. CASE todo'[j] = Zero(dit)
    BY <2>2, <2>6, KindsOfSegment
  <2>7. CASE todo'[j] = Zero(2 * dit)
    BY <2>2, <2>7, KindsOfSegment
  <2>8. QED
    BY <2>1, <2>3, <2>4, <2>5, <2>6, <2>7, Zenon
<1>6. QED
  BY <1>1, <1>2, <1>4, <1>5 DEF TodoInv, At, Marking

LEMMA BlankIs ==
  ASSUME TodoInv, ReadBlank
  PROVE  LET n == IF b THEN 7 * dit ELSE 4 * dit IN
         /\ n \in Nat /\ todo' = <<Zero(n)>> /\ todo' \in Seq(Segment) /\ Len(todo') = 1
         /\ todo'[1] = Zero(n) /\ Zero(n).type = "ZERO" /\ Zero(n).size = n /\ Zero(n).gap = -1
         /\ todo = <<>> /\ morsel' = morsel /\ dit' = dit /\ pc' = pc
         /\ pc["input"] = "getchar"
<1> DEFINE n == IF b THEN 7 * dit ELSE 4 * dit
<1>1. dit \in Nat
  BY SpeedIs DEF TodoInv
<1>2. n \in Nat
  BY <1>1
<1>3. (IF b THEN WordSpace(dit) ELSE WordSpace(dit) - CharSpace(dit)) = n
  BY <1>1 DEF WordSpace, CharSpace
<1>4. /\ todo' = <<Zero(IF b THEN WordSpace(dit) ELSE WordSpace(dit) - CharSpace(dit))>>
      /\ todo = <<>> /\ morsel' = morsel /\ dit' = dit /\ pc' = pc
      /\ pc["input"] = "getchar"
  BY DEF ReadBlank, Type, At
<1> HIDE DEF n
<1>5. Zero(n) \in Segment /\ Zero(n).type = "ZERO" /\ Zero(n).size = n /\ Zero(n).gap = -1
  BY <1>2, KindsOfSegment
<1>6. todo' = <<Zero(n)>>
  BY <1>3, <1>4
<1>7. todo' \in Seq(Segment) /\ Len(todo') = 1 /\ todo'[1] = Zero(n)
  BY <1>5, <1>6
<1>8. QED
  BY <1>2, <1>4, <1>5, <1>6, <1>7 DEF n

LEMMA TodoBlank == ASSUME PlaceInv, TodoInv, ReadBlank PROVE TodoInv'
<1> DEFINE n == IF b THEN 7 * dit ELSE 4 * dit
<1>1. /\ n \in Nat /\ todo' \in Seq(Segment) /\ Len(todo') = 1
      /\ todo'[1] = Zero(n) /\ Zero(n).type = "ZERO" /\ Zero(n).size = n
      /\ morsel' = morsel /\ dit' = dit /\ pc' = pc
      /\ pc["input"] = "getchar"
  BY BlankIs
<1> HIDE DEF n
<1>2. QED
  BY <1>1 DEF TodoInv, At, Marking

LEMMA TodoEnd == ASSUME PlaceInv, TodoInv, ReadEnd PROVE TodoInv'
<1>1. /\ todo' = <<EndOfText>> /\ morsel' = morsel /\ dit' = dit /\ pc'["input"] = "finish"
  BY GotoPc DEF ReadEnd, Threads
<1>2. EndOfText \in Segment /\ EndOfText.type = "EOF"
  <2>1. 0 \in Int
    OBVIOUS
  <2>2. QED
    BY <2>1, KindsOfSegment
<1>3. todo' \in Seq(Segment) /\ Len(todo') = 1 /\ todo'[1].type = "EOF"
  BY <1>1, <1>2
<1>4. morsel' = morsel /\ dit' = dit /\ pc'["input"] = "finish"
  BY <1>1
<1>5. \A j \in 1 .. Len(todo') : todo'[j].type = "EOF"
  BY <1>3
<1>6. morsel' \in Segment /\ dit' \in Speeds
  BY <1>4 DEF TodoInv
<1>7. (\A j \in 1 .. Len(todo) :
        /\ todo[j].type = "RAMP" => todo[j].size = Ramp
        /\ todo[j].type = "ZERO" => todo[j].size >= 0
        /\ todo[j].type = "EOF" <=> At("input", "finish"))'
  BY <1>4, <1>5 DEF At
<1>8. QED
  BY <1>3, <1>4, <1>6, <1>7 DEF TodoInv, At, Marking

LEMMA MarkIs ==
  ASSUME PlaceInv, TodoInv, MarkPtt
  PROVE  LET z == Zero(3 * dit)
             g == IF todo[1].gap = -1 THEN -1 ELSE todo[1].gap + 3
             m == Len(todo)
         IN
         /\ m \in Nat /\ m >= 5 /\ todo[1].type = "RAMP" /\ dit \in Nat \ {0} /\ g \in Int
         /\ todo' \in Seq(Segment) /\ Len(todo') = m + 1 /\ todo'[1] = z /\ todo'[2] = Rise(g)
         /\ \A j \in 3 .. m + 1 : todo'[j] = todo[j - 1]
         /\ z.type = "ZERO" /\ z.size = 3 * dit /\ z.gap = -1
         /\ Rise(g).type = "RAMP" /\ Rise(g).size = Ramp /\ Rise(g).gap = g
         /\ morsel' = morsel /\ dit' = dit /\ b' = b /\ owed' = owed
         /\ sems' = sems /\ sound' = sound
         /\ pc["input"] = "keyed" /\ pc'["input"] = "getchar" /\ pc'["play"] = pc["play"]
         /\ pc'["main"] = pc["main"]
<1> DEFINE z == Zero(3 * dit)
           g == IF todo[1].gap = -1 THEN -1 ELSE todo[1].gap + 3
           m == Len(todo)
<1>1. dit \in Nat \ {0} /\ 3 * dit \in Int
  <2>1. dit \in Speeds
    BY DEF TodoInv
  <2>2. dit \in Nat \ {0}
    BY <2>1, SpeedIs
  <2>3. QED
    BY <2>2
<1>2. /\ morsel' = morsel /\ dit' = dit /\ b' = b /\ owed' = owed /\ sems' = sems /\ sound' = sound
      /\ pc["input"] = "keyed" /\ pc'["input"] = "getchar" /\ pc'["play"] = pc["play"]
      /\ pc'["main"] = pc["main"]
  BY GotoPc DEF MarkPtt, At, Threads
<1>3. m \in Nat /\ m >= 5 /\ todo[1].type = "RAMP" /\ todo[1] \in Segment /\ todo # <<>>
  BY <1>2 DEF TodoInv, Marking
<1>4. g \in Int
  BY <1>3, SegmentIs
<1>5. todo' = <<Zero(CharSpace(dit)), Rise(g)>> \o Tail(todo)
  BY DEF MarkPtt
<1>6. CharSpace(dit) = 3 * dit
  BY DEF CharSpace
<1> HIDE DEF g
<1>7. todo' = <<z, Rise(g)>> \o Tail(todo)
  BY <1>5, <1>6
<1>8. /\ z \in Segment /\ Rise(g) \in Segment
      /\ z.type = "ZERO" /\ z.size = 3 * dit /\ z.gap = -1
      /\ Rise(g).type = "RAMP" /\ Rise(g).size = Ramp /\ Rise(g).gap = g
  BY <1>1, <1>4, KindsOfSegment
<1>9. todo \in Seq(Segment)
  BY DEF TodoInv
<1> HIDE DEF z
<1>10. /\ todo' \in Seq(Segment) /\ Len(todo') = m + 1 /\ todo'[1] = z /\ todo'[2] = Rise(g)
       /\ \A j \in 3 .. m + 1 : todo'[j] = todo[j - 1]
  BY <1>3, <1>7, <1>8, <1>9, MarkedIs
<1>11. QED
  BY <1>1, <1>2, <1>3, <1>4, <1>8, <1>10 DEF z, g

LEMMA TodoMark == ASSUME PlaceInv, TodoInv, MarkPtt PROVE TodoInv'
<1> DEFINE z == Zero(3 * dit)
           g == IF todo[1].gap = -1 THEN -1 ELSE todo[1].gap + 3
           m == Len(todo)
<1>1. /\ m \in Nat /\ m >= 5 /\ todo[1].type = "RAMP" /\ dit \in Nat \ {0}
      /\ todo' \in Seq(Segment) /\ Len(todo') = m + 1 /\ todo'[1] = z /\ todo'[2] = Rise(g)
      /\ \A j \in 3 .. m + 1 : todo'[j] = todo[j - 1]
      /\ z.type = "ZERO" /\ z.size = 3 * dit
      /\ Rise(g).type = "RAMP" /\ Rise(g).size = Ramp
      /\ morsel' = morsel /\ dit' = dit
      /\ pc["input"] = "keyed" /\ pc'["input"] = "getchar"
  BY MarkIs
<1> HIDE DEF z, g
<1>2. \A j \in 1 .. Len(todo') :
        /\ todo'[j].type = "RAMP" => todo'[j].size = Ramp
        /\ todo'[j].type = "ZERO" => todo'[j].size >= 0
        /\ todo'[j].type # "EOF"
  <2> SUFFICES ASSUME NEW j \in 1 .. m + 1
               PROVE  /\ todo'[j].type = "RAMP" => todo'[j].size = Ramp
                      /\ todo'[j].type = "ZERO" => todo'[j].size >= 0
                      /\ todo'[j].type # "EOF"
    BY <1>1
  <2>1. CASE j = 1
    BY <1>1, <2>1
  <2>2. CASE j = 2
    BY <1>1, <2>2
  <2>3. CASE j > 2
    <3>1. todo'[j] = todo[j - 1] /\ j - 1 \in 1 .. m
      BY <1>1, <2>3
    <3>2. QED
      BY <1>1, <3>1 DEF TodoInv, At
  <2>4. QED
    BY <1>1, <2>1, <2>2, <2>3
<1>3. QED
  BY <1>1, <1>2 DEF TodoInv, At, Marking

(* The next segment is handed over.                                        *)
LEMMA HandIs ==
  ASSUME PlaceInv, TodoInv, SoundInv, HandOver
  PROVE  LET n == Len(todo) IN
         /\ n \in Nat \ {0} /\ morsel' = todo[1] /\ morsel' \in Segment
         /\ todo' \in Seq(Segment) /\ Len(todo') = n - 1
         /\ \A j \in 1 .. n - 1 : todo'[j] = todo[j + 1]
         /\ dit' = dit /\ b' = b /\ owed' = owed /\ k' = k /\ since' = since
         /\ reader = 1 /\ writer = 0 /\ writer' = 1 /\ left = 0 /\ left' = 0
         /\ pc["play"] = "wait" /\ pc'["play"] = "wait" /\ pc'["main"] = pc["main"]
         /\ pc["input"] \in {"getchar", "finish"}
         /\ pc'["input"] = IF pc["input"] = "finish" THEN "exit" ELSE "getchar"
<1>1. /\ todo # <<>> /\ reader > 0 /\ reader' = reader - 1 /\ morsel' = Head(todo)
      /\ todo' = Tail(todo) /\ writer' = writer + 1
      /\ dit' = dit /\ b' = b /\ owed' = owed /\ left' = left /\ k' = k /\ since' = since
      /\ pc["input"] \in {"getchar", "finish"}
  BY DEF HandOver, sound
<1>2. IF pc["input"] = "finish" THEN Goto("input", "exit") ELSE pc' = pc
  BY Zenon DEF HandOver, At
<1>3. /\ pc'["input"] = IF pc["input"] = "finish" THEN "exit" ELSE "getchar"
      /\ pc'["play"] = pc["play"] /\ pc'["main"] = pc["main"]
  BY <1>1, <1>2, GotoPc DEF Threads
<1>4. reader = 1 /\ writer = 0 /\ pc["play"] = "wait" /\ left = 0
  BY <1>1 DEF SoundInv, CountInv, TokenInv, At
<1>5. todo \in Seq(Segment)
  BY DEF TodoInv
<1>6. QED
  BY <1>1, <1>3, <1>4, <1>5, TailIs

LEMMA TodoHand == ASSUME PlaceInv, TodoInv, SoundInv, HandOver PROVE TodoInv'
<1> DEFINE n == Len(todo)
<1>1. /\ n \in Nat \ {0} /\ morsel' \in Segment
      /\ todo' \in Seq(Segment) /\ Len(todo') = n - 1
      /\ \A j \in 1 .. n - 1 : todo'[j] = todo[j + 1]
      /\ dit' = dit
      /\ pc["input"] \in {"getchar", "finish"}
      /\ pc'["input"] = IF pc["input"] = "finish" THEN "exit" ELSE "getchar"
  BY HandIs
<1>2. \A j \in 1 .. n - 1 :
        /\ todo'[j].type = "RAMP" => todo'[j].size = Ramp
        /\ todo'[j].type = "ZERO" => todo'[j].size >= 0
        /\ pc["input"] # "finish" => todo'[j].type # "EOF"
  <2> SUFFICES ASSUME NEW j \in 1 .. n - 1
               PROVE  /\ todo'[j].type = "RAMP" => todo'[j].size = Ramp
                      /\ todo'[j].type = "ZERO" => todo'[j].size >= 0
                      /\ pc["input"] # "finish" => todo'[j].type # "EOF"
    OBVIOUS
  <2>1. todo'[j] = todo[j + 1] /\ j + 1 \in 1 .. n
    BY <1>1
  <2>2. QED
    BY <2>1 DEF TodoInv, At
<1>3. pc["input"] = "finish" => n = 1
  BY DEF TodoInv, At
<1>4. \/ pc'["input"] = "getchar" /\ pc["input"] # "finish"
      \/ pc'["input"] = "exit" /\ Len(todo') = 0
  BY <1>1, <1>3
<1>5. dit' \in Speeds
  BY <1>1 DEF TodoInv
<1> HIDE DEF n
<1>6. /\ \A j \in 1 .. Len(todo') :
           /\ todo'[j].type = "RAMP" => todo'[j].size = Ramp
           /\ todo'[j].type = "ZERO" => todo'[j].size >= 0
           /\ todo'[j].type = "EOF" <=> pc'["input"] = "finish"
  BY <1>1, <1>2, <1>4
<1>7. QED
  BY <1>1, <1>4, <1>5, <1>6 DEF TodoInv, At, Marking

LEMMA TodoStep ==
  ASSUME PlaceInv, SoundInv, TodoInv, owed \in Int, [Next]_vars
  PROVE  TodoInv'
<1>1. CASE \E d \in Speeds : ReadSpeed(d)
  <2>1. dit' \in Speeds /\ pc' = pc /\ todo' = todo /\ morsel' = morsel
    BY <1>1 DEF ReadSpeed
  <2>2. QED
    BY <2>1 DEF TodoInv, At
<1>2. QED
  BY <1>1, TextKinds, TodoStill, TodoCharacter, TodoBlank, TodoEnd, TodoMark, TodoHand

-----------------------------------------------------------------------------
(* The end of the text.                                                    *)

LEMMA PlayMoves ==
  ASSUME PlaceInv, Play
  PROVE  /\ pc'["input"] = pc["input"] /\ pc'["main"] = pc["main"]
         /\ morsel' = morsel
         /\ \/ pc["play"] = "wait" /\ writer > 0 /\ morsel.type # "EOF" /\ pc'["play"] = "make"
            \/ pc["play"] = "wait" /\ writer > 0 /\ morsel.type = "EOF" /\ pc'["play"] \in Ending
            \/ pc["play"] = "ask" /\ pc'["play"] = "wait"
            \/ pc["play"] \in {"make", "send", "left", "right", "drain"}
               /\ pc'["play"] \in {"ask", "make", "send", "left", "right", "drain"}
            \/ pc["play"] \in Ending \ {"exit"} /\ pc'["play"] \in Ending
<1>0. "play" \in Threads /\ "input" \in Threads /\ "main" \in Threads
  BY DEF Threads
<1>1. morsel' = morsel /\ \E l : Goto("play", l)
  BY Zenon DEF Play, Ask, Receive, MakeSamples, SendSound, WriteLeft, WriteRight, Drained
<1>2. pc'["input"] = pc["input"] /\ pc'["main"] = pc["main"]
  BY <1>0, <1>1, GotoPc
<1> USE GotoPc DEF At, Ending
<1>3. CASE Ask
  BY <1>0, <1>1, <1>2, <1>3 DEF Ask
<1>4. CASE Receive
  BY <1>0, <1>1, <1>2, <1>4 DEF Receive
<1>5. CASE MakeSamples
  BY <1>0, <1>1, <1>2, <1>5 DEF MakeSamples
<1>6. CASE SendSound
  BY <1>0, <1>1, <1>2, <1>6 DEF SendSound
<1>7. CASE WriteLeft \/ WriteRight
  BY <1>0, <1>1, <1>2, <1>7 DEF WriteLeft, WriteRight
<1>8. CASE Drained
  BY <1>0, <1>1, <1>2, <1>8 DEF Drained
<1>9. QED
  BY <1>3, <1>4, <1>5, <1>6, <1>7, <1>8 DEF Play

LEMMA EndStep ==
  ASSUME PlaceInv, SoundInv, TodoInv, EndInv, [Next]_vars
  PROVE  EndInv'
<1>0. "play" \in Threads /\ "input" \in Threads /\ "main" \in Threads /\ "jack" \in Threads
  BY DEF Threads
<1>1. CASE Play
  BY <1>1, PlayMoves DEF EndInv, At, Ending, SoundInv, CountInv, TokenInv
<1>2. CASE HandOver
  <2>1. /\ morsel' = todo[1] /\ Len(todo) \in Nat \ {0} /\ writer' = 1
        /\ pc["play"] = "wait" /\ pc'["play"] = "wait" /\ pc'["main"] = pc["main"]
        /\ pc["input"] \in {"getchar", "finish"}
        /\ pc'["input"] = IF pc["input"] = "finish" THEN "exit" ELSE "getchar"
    BY <1>2, HandIs
  <2>2. todo[1].type = "EOF" <=> pc["input"] = "finish"
    <3>1. 1 \in 1 .. Len(todo)
      BY <2>1
    <3>2. QED
      BY <3>1, TodoAt
  <2>3. QED
    BY <2>1, <2>2 DEF EndInv, At, Ending
<1>3. CASE PlayLeft \/ PlayRight
  <2>1. /\ pc'["play"] = pc["play"] /\ pc'["input"] = pc["input"] /\ pc'["main"] = pc["main"]
        /\ morsel' = morsel /\ writer' = writer
    BY <1>0, <1>3, GotoPc DEF PlayLeft, PlayRight, sems
  <2>2. QED
    BY <2>1 DEF EndInv, At, Ending
<1>4. CASE Leave
  <2>1. /\ pc'["play"] = pc["play"] /\ pc'["input"] = pc["input"] /\ pc["play"] = "exit"
        /\ morsel' = morsel /\ writer' = writer
    BY <1>0, <1>4, GotoPc DEF Leave, At, sems
  <2>2. QED
    BY <2>1 DEF EndInv, At, Ending
<1>5. CASE Quiet /\ ~Leave
  <2>1. /\ pc'["play"] = pc["play"] /\ morsel' = morsel /\ writer' = writer
    BY <1>5, QuietFrame DEF sems
  <2>2. pc'["main"] = "exit" => pc["main"] = "exit"
    <3>1. CASE \E t \in Speakers : SendCommand(t)
      <4>1. PICK t \in Speakers : SendCommand(t)
        BY <3>1
      <4>2. /\ pc[t] \in Sending(t)
            /\ pc' = pc \/ pc'[t] = Sent(pc[t])
            /\ \A s \in Threads \ {t} : pc'[s] = pc[s]
        BY <4>1, SendPc
      <4>3. QED
        BY <1>0, <4>2, Words
    <3>2. CASE ~ \E t \in Speakers : SendCommand(t)
      <4>1. pc' = pc \/ (\E t \in {"input", "timer"} : \E l : Goto(t, l))
              \/ \E l \in {"socket", "tune"} : Goto("main", l)
        BY <1>5, <3>2, Zenon DEF Quiet, Input, ReadCharacter, ReadBlank, ReadSpeed, ReadTone,
          ReadEnd, TestPtt, MarkPtt, PlaySilence, Timer, TimerLoad, TimerCount, TimerReleased,
          OpenPort, OpenSocket, Idling, Radio, Crash, Ended, vars
      <4>2. QED
        BY <1>0, <4>1, GotoPc DEF Threads
    <3>3. QED
      BY <3>1, <3>2
  <2>3. pc'["input"] = "exit" <=> pc["input"] = "exit"
    <3>1. CASE Still
      BY <3>1, StillFrame
    <3>2. CASE Input \/ MarkPtt
      <4>1. /\ pc["input"] \in {"getchar", "keyed"}
            /\ pc' = pc \/ \E l \in {"ptt", "tone", "finish", "getchar"} : Goto("input", l)
        BY <3>2, Zenon DEF Input, Type, ReadCharacter, ReadBlank, ReadSpeed, ReadTone, ReadEnd,
          MarkPtt, At
      <4>2. QED
        BY <1>0, <4>1, GotoPc
    <3>3. QED
      BY <1>5, <3>1, <3>2, Zenon DEF Quiet, Still
  <2>4. QED
    BY <2>1, <2>2, <2>3 DEF EndInv, At, Ending
<1>6. QED
  BY <1>1, <1>2, <1>3, <1>4, <1>5, StepKinds, Zenon

-----------------------------------------------------------------------------
(* The silence before what is to come does not depend on how far the       *)
(* playing thread has got.                                                 *)
LEMMA SilenceTypes ==
  ASSUME SoundInv, TodoInv
  PROVE  /\ Pending \in Nat /\ Silence \in Nat /\ since \in Nat /\ k \in Nat /\ left \in Nat
         /\ writer \in Nat
<1>1. morsel.size \in Int
  BY SegmentIs DEF TodoInv
<1>2. left \in Nat /\ since \in Nat /\ writer \in Nat
  BY DEF SoundInv, CountInv
<1>3. k \in Nat
  BY SoundTypes
<1>4. Pending \in Nat
  BY <1>1, <1>2 DEF Pending
<1>5. QED
  BY <1>2, <1>3, <1>4 DEF Silence

(* What a step of the others leaves as it is.                              *)
LEMMA StillSound ==
  ASSUME PlaceInv, Still, ~Receive, ~MakeSamples, ~Drained
  PROVE  /\ writer' = writer /\ left' = left /\ since' = since /\ k' = k
<1>1. CASE Quiet
  BY <1>1, QuietFrame DEF sems, sound
<1>2. CASE Ask \/ SendSound \/ WriteLeft \/ WriteRight \/ PlayLeft \/ PlayRight
  BY <1>2 DEF Ask, SendSound, WriteLeft, WriteRight, PlayLeft, PlayRight, sems, sound
<1>3. QED
  BY <1>1, <1>2, Zenon DEF Still, Quiet, Play, Input

LEMMA SilenceKept ==
  ASSUME PlaceInv, SoundInv, TodoInv, EndInv, Still, pc["input"] # "exit"
  PROVE  /\ Silence' = Silence
         /\ \/ k' = k /\ since' = since
            \/ k' = 0 /\ since' = since
            \/ \E n \in Nat : k' = k + n /\ (morsel.type = "ZERO" => since' = since + n)
<1>1. morsel' = morsel
  BY StillFrame
<1>2. CASE Receive
  <2>1. /\ writer > 0 /\ writer' = writer - 1 /\ since' = since /\ k' = k
        /\ left' = IF morsel.size > 0 THEN morsel.size ELSE 0
    <3>1. morsel.type # "EOF"
      BY DEF EndInv, At
    <3>2. QED
      BY <1>2, <3>1 DEF Receive
  <2>2. writer = 1
    BY <2>1 DEF SoundInv, CountInv, TokenInv
  <2>3. Pending' = Pending
    BY <1>1, <2>1, <2>2 DEF Pending
  <2>4. QED
    BY <1>1, <2>1, <2>3 DEF Silence
<1>3. CASE MakeSamples
  <2> DEFINE n == Least(left, Size - k)
  <2>1. /\ pc["play"] = "make" /\ left' = left - n /\ k' = k + n /\ writer' = writer
        /\ since' = IF morsel.type = "ZERO" THEN since + n ELSE IF n > 0 THEN 0 ELSE since
    BY <1>3 DEF MakeSamples, At, sems
  <2>2. k < Size /\ k \in Nat /\ Size \in Nat
    BY <2>1, SpeedIs DEF SoundInv, FillInv, CountInv
  <2>3. n \in Nat /\ (left > 0 => n > 0) /\ (left = 0 => n = 0) /\ n <= left
    BY <2>2, SilenceTypes DEF Least
  <2>4. writer = 0
    BY <2>1 DEF SoundInv, CountInv, TokenInv, At
  <2> HIDE DEF n
  <2>5. Pending = left /\ Pending' = left - n
    BY <2>1, <2>4 DEF Pending
  <2>6. Silence' = Silence
    BY <1>1, <2>1, <2>3, <2>5, SilenceTypes DEF Silence
  <2>7. QED
    BY <2>1, <2>3, <2>6
<1>4. CASE Drained
  <2>1. /\ left' = left /\ since' = since /\ writer' = writer /\ k' = 0
    BY <1>4 DEF Drained
  <2>2. QED
    BY <1>1, <2>1 DEF Silence, Pending
<1>5. CASE ~Receive /\ ~MakeSamples /\ ~Drained
  <2>1. writer' = writer /\ left' = left /\ since' = since /\ k' = k
    BY <1>5, StillSound
  <2>2. QED
    BY <1>1, <2>1 DEF Silence, Pending
<1>6. QED
  BY <1>2, <1>3, <1>4, <1>5

(* ... nor on whether the next segment has been handed over.               *)
LEMMA SilenceHand ==
  ASSUME PlaceInv, SoundInv, TodoInv, HandOver
  PROVE  /\ Silence = since
         /\ todo[1].type = "ZERO" => Silence' = Silence + todo[1].size
         /\ todo[1].type = "RAMP" => Silence' = 0
<1>1. /\ Len(todo) \in Nat \ {0} /\ morsel' = todo[1] /\ since' = since
      /\ writer = 0 /\ writer' = 1 /\ left = 0 /\ left' = 0
  BY HandIs
<1>2. since \in Nat
  BY SilenceTypes
<1>3. /\ todo[1].type = "RAMP" => todo[1].size = Ramp
      /\ todo[1].type = "ZERO" => todo[1].size >= 0
      /\ todo[1].size \in Int
  <2>1. 1 \in 1 .. Len(todo)
    BY <1>1
  <2>2. QED
    BY <2>1, TodoAt
<1>4. Pending = 0 /\ Pending' = IF todo[1].size > 0 THEN todo[1].size ELSE 0
  BY <1>1 DEF Pending
<1>5. Silence = since
  BY <1>2, <1>4 DEF Silence
<1>6. QED
  BY <1>1, <1>2, <1>3, <1>4, <1>5, SpeedIs DEF Silence

-----------------------------------------------------------------------------
(* Enough silence at the end.                                              *)

LEMMA InitTail == Init => (SlowEnough => TailInv)
<1> SUFFICES ASSUME Init PROVE TailInv
  OBVIOUS
<1>1. pc["input"] = "getchar"
  BY DEF Init, Threads
<1>2. todo = <<>> /\ Len(todo) = 0 /\ morsel = Zero(0) /\ since = Size /\ k = 0
  BY DEF Init
<1>3. morsel.type = "ZERO"
  BY <1>2 DEF Zero
<1>4. Calm
  BY <1>2, <1>3, SpeedIs DEF Calm
<1>5. QED
  BY <1>1, <1>2, <1>4 DEF TailInv, At

LEMMA CalmKept ==
  ASSUME PlaceInv, SoundInv, TodoInv, EndInv, Still, pc["input"] # "exit", Calm
  PROVE  Calm'
<1>1. Silence' = Silence /\ morsel' = morsel
  BY SilenceKept, StillFrame
<1>2. CASE Silence >= 2 * Size - 1
  BY <1>1, <1>2 DEF Calm
<1>3. CASE morsel.type = "ZERO" /\ since >= Size + k
  <2>1. CASE k' = k /\ since' = since
    BY <1>1, <1>3, <2>1 DEF Calm
  <2>2. CASE k' = 0 /\ since' = since
    BY <1>1, <1>3, <2>2, SpeedIs, SilenceTypes DEF Calm
  <2>3. CASE \E n \in Nat : k' = k + n /\ (morsel.type = "ZERO" => since' = since + n)
    BY <1>1, <1>3, <2>3, SpeedIs, SilenceTypes DEF Calm
  <2>4. QED
    BY <2>1, <2>2, <2>3, SilenceKept
<1>4. QED
  BY <1>2, <1>3 DEF Calm

LEMMA TailStill ==
  ASSUME PlaceInv, SoundInv, TodoInv, EndInv, TailInv, Still
  PROVE  TailInv'
<1>1. /\ todo' = todo
      /\ pc'["input"] = "finish" <=> pc["input"] = "finish"
      /\ pc'["input"] = "exit" <=> pc["input"] = "exit"
  BY StillFrame
<1>2. CASE pc["input"] = "exit"
  <2>1. since >= Size + k
    BY <1>2 DEF TailInv, At
  <2>2. pc["play"] \in {"wait"} \cup Ending
    BY <1>2 DEF EndInv, At
  <2>3. since' = since /\ k' = k
    <3>1. CASE Receive
      BY <3>1 DEF Receive
    <3>2. CASE MakeSamples \/ Drained
      BY <2>2, <3>2 DEF MakeSamples, Drained, At, Ending
    <3>3. QED
      BY <3>1, <3>2, StillSound
  <2>4. QED
    BY <1>1, <1>2, <2>1, <2>3 DEF TailInv, At
<1>3. CASE pc["input"] # "exit"
  <2>1. Calm => Calm'
    BY <1>3, CalmKept
  <2>2. Silence' = Silence
    BY <1>3, SilenceKept
  <2>3. QED
    BY <1>1, <1>3, <2>1, <2>2 DEF TailInv, At
<1>4. QED
  BY <1>2, <1>3

LEMMA TailCharacter ==
  ASSUME PlaceInv, TodoInv, SlowEnough, owed \in Int, NEW c \in Characters, ReadCharacter(c)
  PROVE  TailInv'
<1> DEFINE n == 4 * Len(c) + 1
<1>1. todo' = Segments(c, owed, dit) /\ (pc' = pc \/ Goto("input", "ptt")) /\ pc["input"] = "getchar"
  BY Zenon DEF ReadCharacter, Type, At
<1>2. pc'["input"] \in {"getchar", "ptt"}
  BY <1>1, GotoPc DEF Threads
<1>3. dit \in Nat \ {0} /\ 3 * dit >= 2 * Size - 1
  <2>1. dit \in Speeds
    BY DEF TodoInv
  <2>2. QED
    BY <2>1, SpeedIs DEF SlowEnough, CharSpace
<1>4. /\ Len(todo') = n /\ n \in Nat /\ n > 4
      /\ todo'[n] = Zero(2 * dit) /\ todo'[n - 1] = Zero(dit)
  <2>1. Len(c) \in Nat \ {0} /\ n - 1 = 4 * Len(c)
    BY <1>3, SegmentsAre
  <2>2. QED
    BY <1>1, <1>3, <2>1, SegmentsAre
<1> HIDE DEF n
<1>5. /\ todo'[n].type = "ZERO" /\ todo'[n].size = 2 * dit
      /\ todo'[n - 1].type = "ZERO" /\ todo'[n - 1].size = dit
  BY <1>3, <1>4, KindsOfSegment
<1>6. todo'[n - 1].size + todo'[n].size >= 2 * Size - 1
  BY <1>3, <1>5, SpeedIs
<1>7. QED
  BY <1>2, <1>4, <1>5, <1>6 DEF TailInv, At

LEMMA TailBlank ==
  ASSUME PlaceInv, SoundInv, TodoInv, TailInv, ReadBlank
  PROVE  TailInv'
<1> DEFINE n == IF b THEN 7 * dit ELSE 4 * dit
<1>1. /\ n \in Nat /\ Len(todo') = 1
      /\ todo'[1] = Zero(n) /\ Zero(n).type = "ZERO" /\ Zero(n).size = n
      /\ morsel' = morsel /\ pc' = pc /\ todo = <<>>
      /\ pc["input"] = "getchar"
  BY BlankIs
<1> HIDE DEF n
<1>2. sems' = sems /\ sound' = sound
  BY DEF ReadBlank
<1>3. Calm
  BY <1>1 DEF TailInv, At
<1>4. Calm'
  BY <1>1, <1>2, <1>3 DEF Calm, Silence, Pending, sems, sound
<1>5. QED
  BY <1>1, <1>4 DEF TailInv, At

LEMMA TailMark ==
  ASSUME PlaceInv, SoundInv, TodoInv, TailInv, MarkPtt
  PROVE  TailInv'
<1> DEFINE m == Len(todo)
<1>1. /\ m \in Nat /\ m >= 5 /\ Len(todo') = m + 1
      /\ \A j \in 3 .. m + 1 : todo'[j] = todo[j - 1]
      /\ pc["input"] = "keyed" /\ pc'["input"] = "getchar"
  BY MarkIs
<1>2. todo'[m + 1] = todo[m] /\ todo'[m] = todo[m - 1]
  <2>1. m + 1 \in 3 .. m + 1 /\ m \in 3 .. m + 1
    BY <1>1
  <2>2. todo'[m + 1] = todo[m + 1 - 1] /\ m + 1 - 1 = m
    BY <1>1, <2>1
  <2>3. QED
    BY <1>1, <2>1, <2>2
<1>3. /\ todo[m].type = "ZERO" /\ todo[m - 1].type = "ZERO"
      /\ todo[m - 1].size + todo[m].size >= 2 * Size - 1
  BY <1>1 DEF TailInv, At
<1>4. m + 1 > 1 /\ m + 1 - 1 = m /\ m + 1 # 1 /\ m + 1 # 0
  BY <1>1
<1> HIDE DEF m
<1>5. QED
  BY <1>1, <1>2, <1>3, <1>4 DEF TailInv, At

LEMMA TailHand ==
  ASSUME PlaceInv, SoundInv, TodoInv, TailInv, HandOver
  PROVE  TailInv'
<1> DEFINE n == Len(todo)
<1>1. /\ n \in Nat \ {0} /\ morsel' = todo[1] /\ Len(todo') = n - 1
      /\ \A j \in 1 .. n - 1 : todo'[j] = todo[j + 1]
      /\ k' = k /\ since' = since /\ pc["play"] = "wait"
      /\ pc["input"] \in {"getchar", "finish"}
      /\ pc'["input"] = IF pc["input"] = "finish" THEN "exit" ELSE "getchar"
  BY HandIs
<1>2. Silence = since
  BY SilenceHand
<1>3. k \in Nat /\ k < Size /\ since \in Nat /\ Size \in Nat
  BY <1>1, SpeedIs, SilenceTypes DEF SoundInv, FillInv, CountInv
<1>4. CASE pc["input"] = "finish"
  <2>1. Calm
    BY <1>4 DEF TailInv, At
  <2>2. since >= Size + k
    BY <1>2, <1>3, <2>1 DEF Calm
  <2>3. QED
    BY <1>1, <1>4, <2>2 DEF TailInv, At
<1>5. CASE pc["input"] = "getchar" /\ n = 1
  <2>1. todo[1].type = "ZERO" /\ (Calm \/ Silence + todo[1].size >= 2 * Size - 1)
    BY <1>5 DEF TailInv, At
  <2>2. Silence' = Silence + todo[1].size
    BY <2>1, SilenceHand
  <2>3. todo[1].size \in Nat
    BY <1>5, <2>1, TodoAt
  <2>4. Calm'
    BY <1>1, <1>2, <1>3, <2>1, <2>2, <2>3 DEF Calm
  <2>5. QED
    BY <1>1, <1>5, <2>4 DEF TailInv, At
<1>6. CASE pc["input"] = "getchar" /\ n > 1
  <2>1. /\ todo[n].type = "ZERO" /\ todo[n - 1].type = "ZERO"
        /\ todo[n - 1].size + todo[n].size >= 2 * Size - 1
    BY <1>1, <1>6 DEF TailInv, At
  <2>2. todo'[n - 1] = todo[n]
    <3>1. n - 1 \in 1 .. n - 1 /\ n - 1 + 1 = n
      BY <1>1, <1>6
    <3>2. QED
      BY <1>1, <3>1
  <2>3. CASE n = 2
    <3>1. Silence' = since + todo[1].size
      BY <1>2, <2>1, <2>3, SilenceHand
    <3>2. todo[1].size \in Int /\ todo[2].size \in Int
      BY <2>3, TodoAt
    <3>3. Silence' + todo'[1].size >= 2 * Size - 1
      BY <1>3, <2>1, <2>2, <2>3, <3>1, <3>2
    <3>4. QED
      BY <1>1, <1>6, <2>1, <2>2, <2>3, <3>3 DEF TailInv, At
  <2>4. CASE n > 2
    <3>1. todo'[n - 2] = todo[n - 1]
      <4>1. n - 2 \in 1 .. n - 1 /\ n - 2 + 1 = n - 1
        BY <1>1, <2>4
      <4>2. QED
        BY <1>1, <4>1
    <3>2. n - 1 > 1 /\ n - 1 - 1 = n - 2 /\ n - 1 # 1 /\ n - 1 # 0
      BY <1>1, <2>4
    <3> HIDE DEF n
    <3>3. QED
      BY <1>1, <1>6, <2>1, <2>2, <3>1, <3>2 DEF TailInv, At
  <2>5. QED
    BY <1>1, <1>6, <2>3, <2>4
<1>7. QED
  BY <1>1, <1>4, <1>5, <1>6

LEMMA TailStep ==
  ASSUME PlaceInv, SoundInv, TodoInv, EndInv, SlowEnough, TailInv, owed \in Int, [Next]_vars
  PROVE  TailInv'
<1>1. CASE \E d \in Speeds : ReadSpeed(d)
  <2>1. pc' = pc /\ todo' = todo /\ morsel' = morsel /\ sems' = sems /\ sound' = sound
    BY <1>1 DEF ReadSpeed
  <2>2. Silence' = Silence /\ k' = k /\ since' = since
    BY <2>1 DEF Silence, Pending, sems, sound
  <2>3. QED
    BY <2>1, <2>2 DEF TailInv, Calm, At
<1>2. CASE ReadEnd
  <2>1. /\ pc["input"] = "getchar" /\ todo = <<>> /\ pc'["input"] = "finish"
        /\ morsel' = morsel /\ sems' = sems /\ sound' = sound
    BY <1>2, GotoPc DEF ReadEnd, Threads, At
  <2>2. Calm
    BY <2>1 DEF TailInv, At
  <2>3. Calm'
    BY <2>1, <2>2 DEF Calm, Silence, Pending, sems, sound
  <2>4. QED
    BY <2>1, <2>3 DEF TailInv, At
<1>3. QED
  BY <1>1, <1>2, TextKinds, TailStill, TailCharacter, TailBlank, TailMark, TailHand

-----------------------------------------------------------------------------
(* The spaces.                                                             *)

LEMMA Distribute ==
  ASSUME NEW x \in Int, NEW y \in Int, NEW d \in Int
  PROVE  (x + y) * d = x * d + y * d
  OBVIOUS

LEMMA OwedType == OwedInv => owed \in Int
  BY DEF OwedInv

LEMMA DitIs == TodoInv => dit \in Nat \ {0}
  BY SpeedIs DEF TodoInv

LEMMA InitGap == Init => GapInv /\ OwedInv
<1> SUFFICES ASSUME Init PROVE GapInv /\ OwedInv
  OBVIOUS
<1>1. todo = <<>> /\ Len(todo) = 0 /\ writer = 0 /\ owed = -1 /\ b = TRUE
  BY DEF Init
<1>2. GapInv
  BY <1>1 DEF GapInv
<1>3. OwedInv
  BY <1>1 DEF OwedInv
<1>4. QED
  BY <1>2, <1>3

LEMMA GapStill ==
  ASSUME PlaceInv, SoundInv, TodoInv, EndInv, GapInv, Still
  PROVE  GapInv'
<1>1. todo' = todo /\ morsel' = morsel /\ dit' = dit
  BY StillFrame
<1>2. writer' > 0 => writer' = writer /\ since' = since
  <2>1. CASE Receive
    <3>1. writer' = writer - 1
      BY <2>1 DEF Receive
    <3>2. writer <= 1 /\ writer \in Nat
      BY DEF SoundInv, CountInv, TokenInv
    <3>3. QED
      BY <3>1, <3>2
  <2>2. CASE MakeSamples
    <3>1. writer' = writer /\ pc["play"] = "make"
      BY <2>2 DEF MakeSamples, sems, At
    <3>2. writer = 0
      BY <3>1 DEF SoundInv, CountInv, TokenInv, At
    <3>3. QED
      BY <3>1, <3>2
  <2>3. CASE Drained
    BY <2>3 DEF Drained
  <2>4. QED
    BY <2>1, <2>2, <2>3, StillSound
<1>3. writer > 0 /\ morsel.gap # -1 => since = morsel.gap * dit /\ todo # <<>>
  BY DEF GapInv
<1>4. (writer > 0 /\ morsel.gap # -1 => since = morsel.gap * dit /\ todo # <<>>)'
  BY <1>1, <1>2, <1>3
<1>5. CASE pc["input"] = "exit"
  <2>1. Len(todo') = 0
    BY <1>1, <1>5 DEF TodoInv
  <2>2. QED
    BY <1>4, <2>1 DEF GapInv
<1>6. CASE pc["input"] # "exit"
  <2>1. Silence' = Silence
    BY <1>6, SilenceKept
  <2>2. QED
    BY <1>1, <1>4, <2>1 DEF GapInv
<1>7. QED
  BY <1>5, <1>6

(* What a step that types something leaves alone.                          *)
LEMMA TypedFrame ==
  ASSUME todo = <<>>, GapInv, morsel' = morsel, sems' = sems, sound' = sound
  PROVE  /\ Silence' = Silence
         /\ (writer > 0 /\ morsel.gap # -1 => since = morsel.gap * dit /\ todo # <<>>)'
<1>1. writer' = writer /\ left' = left /\ since' = since
  BY DEF sems, sound
<1>2. ~(writer > 0 /\ morsel.gap # -1)
  BY DEF GapInv
<1>3. QED
  BY <1>1, <1>2 DEF Silence, Pending

LEMMA GapCharacter ==
  ASSUME PlaceInv, SoundInv, TodoInv, GapInv, OwedInv, NEW c \in Characters, ReadCharacter(c)
  PROVE  GapInv'
<1> DEFINE n == 4 * Len(c) + 1
<1>1. /\ todo' = Segments(c, owed, dit) /\ pc["input"] = "getchar" /\ todo = <<>>
      /\ morsel' = morsel /\ sems' = sems /\ sound' = sound /\ dit' = dit
  BY Zenon DEF ReadCharacter, Type, At
<1>2. dit \in Nat \ {0} /\ owed \in Int
  BY DitIs, OwedType
<1>3. Silence' = Silence
  BY <1>1, TypedFrame
<1>4. owed # -1 => owed \in Nat /\ owed * dit = Silence
  <2>1. Len(todo) = 0
    BY <1>1
  <2>2. owed # -1 => owed * dit = 0 + 0 + Silence
    BY <1>1, <2>1 DEF OwedInv
  <2>3. Silence \in Int
    BY SilenceTypes
  <2>4. QED
    BY <2>2, <2>3 DEF OwedInv
<1>5. Len(todo') = n /\ n \in Nat /\ n > 4
  BY <1>1, <1>2, SegmentsAre
<1>6. ASSUME NEW j \in 1 .. n, todo'[j].gap # -1
      PROVE  /\ todo'[j].type = "RAMP" /\ todo'[j].gap \in Nat /\ j < n
             /\ j > 1 => todo'[j - 1].type = "ZERO"
             /\ j > 2 => todo'[j - 2].type = "RAMP"
             /\ todo'[j].gap * dit = (IF j = 1 THEN Silence ELSE todo'[j - 1].size
                                        + (IF j = 2 THEN Silence ELSE 0))
  <2>1. \/ j = 1 /\ todo'[j] = Rise(owed)
        \/ /\ j > 4 /\ j < n /\ todo'[j] = Rise(1)
           /\ todo'[j - 1] = Zero(dit) /\ todo'[j - 2] = Fall
        \/ todo'[j] = Fall
        \/ \E m \in Int : todo'[j] = Steady(m)
        \/ todo'[j] = Zero(dit)
        \/ todo'[j] = Zero(2 * dit)
    BY <1>1, <1>2, SegmentsAre, SMTT(60)
  <2>2. CASE j = 1 /\ todo'[j] = Rise(owed)
    BY <1>2, <1>4, <1>5, <1>6, <2>2, KindsOfSegment
  <2>3. CASE /\ j > 4 /\ j < n /\ todo'[j] = Rise(1)
             /\ todo'[j - 1] = Zero(dit) /\ todo'[j - 2] = Fall
    <3>1. /\ todo'[j].type = "RAMP" /\ todo'[j].gap = 1
          /\ todo'[j - 1].type = "ZERO" /\ todo'[j - 1].size = dit
          /\ todo'[j - 2].type = "RAMP"
      BY <1>2, <2>3, KindsOfSegment
    <3>2. QED
      BY <1>2, <2>3, <3>1
  <2>4. CASE todo'[j] = Fall
    BY <1>2, <1>6, <2>4, KindsOfSegment
  <2>5. CASE \E m \in Int : todo'[j] = Steady(m)
    BY <1>2, <1>6, <2>5, KindsOfSegment
  <2>6. CASE todo'[j] = Zero(dit)
    BY <1>2, <1>6, <2>6, KindsOfSegment
  <2>7. CASE todo'[j] = Zero(2 * dit)
    <3>1. 2 * dit \in Int
      BY <1>2
    <3>2. QED
      BY <1>2, <1>6, <2>7, <3>1, KindsOfSegment
  <2>8. QED
    BY <2>1, <2>2, <2>3, <2>4, <2>5, <2>6, <2>7, Zenon
<1>7. (writer > 0 /\ morsel.gap # -1 => since = morsel.gap * dit /\ todo # <<>>)'
  BY <1>1, TypedFrame
<1> HIDE DEF n
<1>8. QED
  BY <1>1, <1>3, <1>5, <1>6, <1>7 DEF GapInv

LEMMA GapMark ==
  ASSUME PlaceInv, SoundInv, TodoInv, GapInv, MarkPtt
  PROVE  GapInv'
<1> DEFINE z == Zero(3 * dit)
           g == IF todo[1].gap = -1 THEN -1 ELSE todo[1].gap + 3
           m == Len(todo)
<1>1. /\ m \in Nat /\ m >= 5 /\ todo[1].type = "RAMP" /\ dit \in Nat \ {0} /\ g \in Int
      /\ Len(todo') = m + 1 /\ todo'[1] = z /\ todo'[2] = Rise(g)
      /\ \A j \in 3 .. m + 1 : todo'[j] = todo[j - 1]
      /\ z.type = "ZERO" /\ z.size = 3 * dit /\ z.gap = -1
      /\ Rise(g).type = "RAMP" /\ Rise(g).gap = g
      /\ morsel' = morsel /\ dit' = dit /\ sems' = sems /\ sound' = sound
  BY MarkIs
<1>2. writer' = writer /\ left' = left /\ since' = since
  BY <1>1 DEF sems, sound
<1>3. Silence' = Silence
  BY <1>1, <1>2 DEF Silence, Pending
<1>4. Silence \in Nat
  BY SilenceTypes
<1>5. 1 \in 1 .. m
  BY <1>1
<1>6. g # -1 => g \in Nat /\ g * dit = 3 * dit + Silence
  <2> SUFFICES ASSUME g # -1 PROVE g \in Nat /\ g * dit = 3 * dit + Silence
    OBVIOUS
  <2>1. todo[1].gap # -1 /\ g = todo[1].gap + 3
    OBVIOUS
  <2>2. todo[1].gap \in Nat /\ todo[1].gap * dit = Silence
    BY <1>5, <2>1 DEF GapInv
  <2>3. (todo[1].gap + 3) * dit = todo[1].gap * dit + 3 * dit
    BY <1>1, <2>2, Distribute
  <2> HIDE DEF g
  <2>4. g * dit = (todo[1].gap + 3) * dit
    BY <2>1
  <2>5. g \in Nat
    BY <2>1, <2>2
  <2>6. 3 * dit \in Int
    BY <1>1
  <2>7. QED
    BY <1>4, <2>2, <2>3, <2>4, <2>5, <2>6
<1> HIDE DEF z, g
<1>7. ASSUME NEW j \in 1 .. m + 1, todo'[j].gap # -1
      PROVE  /\ todo'[j].type = "RAMP" /\ todo'[j].gap \in Nat /\ j < m + 1
             /\ j > 1 => todo'[j - 1].type = "ZERO"
             /\ j > 2 => todo'[j - 2].type = "RAMP"
             /\ todo'[j].gap * dit = (IF j = 1 THEN Silence ELSE todo'[j - 1].size
                                        + (IF j = 2 THEN Silence ELSE 0))
  <2>1. j # 1
    BY <1>1, <1>7
  <2>2. CASE j = 2
    BY <1>1, <1>6, <1>7, <2>2
  <2>3. CASE j > 2
    <3>1. /\ j - 1 \in 2 .. m /\ j - 1 > 1 /\ todo'[j] = todo[j - 1] /\ todo[j - 1].gap # -1
          /\ j - 1 - 1 = j - 2 /\ j - 1 - 2 = j - 3
      BY <1>1, <1>7, <2>3
    <3>2. /\ todo[j - 1].type = "RAMP" /\ todo[j - 1].gap \in Nat /\ j - 1 < m
          /\ todo[j - 2].type = "ZERO"
          /\ j - 1 > 2 => todo[j - 3].type = "RAMP"
          /\ todo[j - 1].gap * dit = todo[j - 2].size + (IF j - 1 = 2 THEN Silence ELSE 0)
      BY <1>1, <3>1 DEF GapInv
    <3>3. j # 3
      BY <1>1, <3>2
    <3>4. j > 3 /\ j - 1 \in 3 .. m + 1 /\ todo'[j - 1] = todo[j - 2]
      BY <1>1, <2>3, <3>1, <3>3
    <3>5. todo'[j - 2].type = "RAMP"
      <4>1. CASE j = 4
        BY <1>1, <4>1
      <4>2. CASE j > 4
        <5>1. j - 2 \in 3 .. m + 1 /\ j - 2 - 1 = j - 3
          BY <1>1, <4>2
        <5>2. todo'[j - 2] = todo[j - 3]
          BY <1>1, <5>1
        <5>3. QED
          BY <3>2, <4>2, <5>2
      <4>3. QED
        BY <3>4, <4>1, <4>2
    <3>6. QED
      BY <1>1, <3>1, <3>2, <3>4, <3>5
  <2>4. QED
    BY <2>1, <2>2, <2>3
<1>8. (writer > 0 /\ morsel.gap # -1 => since = morsel.gap * dit /\ todo # <<>>)'
  <2>1. todo' # <<>>
    BY <1>1
  <2>2. QED
    BY <1>1, <1>2, <2>1 DEF GapInv
<1> HIDE DEF m
<1>9. QED
  BY <1>1, <1>3, <1>7, <1>8 DEF GapInv

LEMMA GapHand ==
  ASSUME PlaceInv, SoundInv, TodoInv, GapInv, HandOver
  PROVE  GapInv'
<1> DEFINE n == Len(todo)
<1>1. /\ n \in Nat \ {0} /\ morsel' = todo[1] /\ Len(todo') = n - 1
      /\ \A j \in 1 .. n - 1 : todo'[j] = todo[j + 1]
      /\ dit' = dit /\ since' = since
  BY HandIs
<1>2. /\ Silence = since
      /\ todo[1].type = "ZERO" => Silence' = Silence + todo[1].size
      /\ todo[1].type = "RAMP" => Silence' = 0
  BY SilenceHand
<1>3. Silence \in Nat /\ 1 \in 1 .. n
  BY <1>1, SilenceTypes
<1>4. (writer > 0 /\ morsel.gap # -1 => since = morsel.gap * dit /\ todo # <<>>)'
  <2> SUFFICES ASSUME todo[1].gap # -1 PROVE since = todo[1].gap * dit /\ todo' # <<>>
    BY <1>1
  <2>1. 1 < n /\ todo[1].gap * dit = Silence
    BY <1>3 DEF GapInv
  <2>2. QED
    BY <1>1, <1>2, <2>1
<1>5. ASSUME NEW j \in 1 .. n - 1, todo'[j].gap # -1
      PROVE  /\ todo'[j].type = "RAMP" /\ todo'[j].gap \in Nat /\ j < n - 1
             /\ j > 1 => todo'[j - 1].type = "ZERO"
             /\ j > 2 => todo'[j - 2].type = "RAMP"
             /\ todo'[j].gap * dit = (IF j = 1 THEN Silence' ELSE todo'[j - 1].size
                                        + (IF j = 2 THEN Silence' ELSE 0))
  <2>1. /\ j + 1 \in 2 .. n /\ todo'[j] = todo[j + 1] /\ j + 1 - 1 = j /\ j + 1 - 2 = j - 1
        /\ j + 1 > 1
    BY <1>1
  <2>2. /\ todo[j + 1].type = "RAMP" /\ todo[j + 1].gap \in Nat /\ j + 1 < n
        /\ todo[j].type = "ZERO"
        /\ j + 1 > 2 => todo[j - 1].type = "RAMP"
        /\ todo[j + 1].gap * dit = todo[j].size + (IF j + 1 = 2 THEN Silence ELSE 0)
    BY <1>1, <1>5, <2>1 DEF GapInv
  <2>3. todo[j].size \in Int
    BY <1>1, TodoAt
  <2>4. CASE j = 1
    BY <1>1, <1>2, <1>3, <2>1, <2>2, <2>3, <2>4
  <2>5. CASE j = 2
    <3>1. Silence' = 0
      BY <1>2, <2>2, <2>5
    <3>2. todo'[1] = todo[2]
      BY <1>1, <2>5
    <3>3. QED
      BY <1>1, <2>1, <2>2, <2>3, <2>5, <3>1, <3>2
  <2>6. CASE j > 2
    <3>1. /\ j - 1 \in 1 .. n - 1 /\ j - 1 + 1 = j /\ j - 2 \in 1 .. n - 1 /\ j - 2 + 1 = j - 1
      BY <1>1, <2>6
    <3>2. todo'[j - 1] = todo[j] /\ todo'[j - 2] = todo[j - 1]
      BY <1>1, <3>1
    <3>3. QED
      BY <1>1, <2>1, <2>2, <2>3, <2>6, <3>2
  <2>7. QED
    BY <1>1, <2>4, <2>5, <2>6
<1> HIDE DEF n
<1>6. QED
  BY <1>1, <1>4, <1>5 DEF GapInv

LEMMA GapStep ==
  ASSUME PlaceInv, SoundInv, TodoInv, EndInv, GapInv, OwedInv, [Next]_vars
  PROVE  GapInv'
<1>1. CASE \E d \in Speeds : ReadSpeed(d)
  <2>1. todo = <<>> /\ todo' = todo /\ morsel' = morsel /\ sems' = sems /\ sound' = sound
    BY <1>1 DEF ReadSpeed, Type
  <2>2. Len(todo') = 0
    BY <2>1
  <2>3. QED
    BY <2>1, <2>2, TypedFrame DEF GapInv
<1>2. CASE ReadBlank
  <2> DEFINE n == IF b THEN 7 * dit ELSE 4 * dit
  <2>1. /\ Len(todo') = 1 /\ todo'[1] = Zero(n) /\ Zero(n).gap = -1
        /\ morsel' = morsel /\ todo = <<>>
    BY <1>2, BlankIs
  <2>2. sems' = sems /\ sound' = sound
    BY <1>2 DEF ReadBlank
  <2> HIDE DEF n
  <2>3. QED
    BY <2>1, <2>2, TypedFrame DEF GapInv
<1>3. CASE ReadEnd
  <2>1. todo = <<>> /\ todo' = <<EndOfText>> /\ morsel' = morsel /\ sems' = sems /\ sound' = sound
    BY <1>3 DEF ReadEnd
  <2>2. Len(todo') = 1 /\ todo'[1].gap = -1
    BY <2>1 DEF EndOfText
  <2>3. (writer > 0 /\ morsel.gap # -1 => since = morsel.gap * dit /\ todo # <<>>)'
    BY <2>1, TypedFrame
  <2>4. QED
    BY <2>2, <2>3 DEF GapInv
<1>4. QED
  BY <1>1, <1>2, <1>3, TextKinds, GapStill, GapCharacter, GapMark, GapHand

(* Up to two spaces, and what comes before them is a mark or the silence   *)
(* in hand.                                                                *)
LEMMA OwedWhere ==
  ASSUME b' \in BOOLEAN,
         owed' = -1 \/ (owed' = 3 /\ ~b') \/ (owed' \in Nat /\ owed' >= 7 /\ b'),
         NEW n, n = Len(todo'),
         n > 0 => todo'[n].type = "ZERO",
         n > 1 => todo'[n - 1].type = "ZERO",
         n > 2 => todo'[n - 2].type = "RAMP",
         owed' * dit' = (IF n > 0 THEN todo'[n].size ELSE 0)
                          + (IF n > 1 THEN todo'[n - 1].size ELSE 0)
                          + (IF n > 2 THEN 0 ELSE Silence')
  PROVE  OwedInv'
  BY DEF OwedInv

LEMMA OwedNone ==
  ASSUME b' \in BOOLEAN, Len(todo') = 0, Silence' \in Int, owed' * dit' = Silence',
         owed' = -1 \/ (owed' = 3 /\ ~b') \/ (owed' \in Nat /\ owed' >= 7 /\ b')
  PROVE  OwedInv'
<1> DEFINE p == owed' * dit'
<1>1. p = (IF 0 > 0 THEN todo'[0].size ELSE 0) + (IF 0 > 1 THEN todo'[0 - 1].size ELSE 0)
            + (IF 0 > 2 THEN 0 ELSE Silence')
  <2>1. p = Silence'
    OBVIOUS
  <2> HIDE DEF p
  <2>2. ~(0 > 0) /\ ~(0 > 1) /\ ~(0 > 2)
    OBVIOUS
  <2> DEFINE u == IF 0 > 0 THEN todo'[0].size ELSE 0
             v == IF 0 > 1 THEN todo'[0 - 1].size ELSE 0
             w == IF 0 > 2 THEN 0 ELSE Silence'
  <2>3. u = 0 /\ v = 0 /\ w = Silence'
    BY <2>2, Zenon
  <2> HIDE DEF u, v, w
  <2>4. Silence' \in Int
    OBVIOUS
  <2>5. p \in Int /\ u = 0 /\ v = 0 /\ w = p
    BY <2>1, <2>3, <2>4, Zenon
  <2>6. p = u + v + w
    BY ONLY <2>5
  <2>7. QED
    BY <2>6 DEF u, v, w
<1>2. QED
  BY <1>1, OwedWhere

LEMMA OwedOne ==
  ASSUME b' \in BOOLEAN, Len(todo') = 1, Silence' \in Int, todo'[1].size \in Int,
         todo'[1].type = "ZERO", owed' * dit' = todo'[1].size + Silence',
         owed' = -1 \/ (owed' = 3 /\ ~b') \/ (owed' \in Nat /\ owed' >= 7 /\ b')
  PROVE  OwedInv'
<1> DEFINE p == owed' * dit'
<1>1. p = (IF 1 > 0 THEN todo'[1].size ELSE 0) + (IF 1 > 1 THEN todo'[1 - 1].size ELSE 0)
            + (IF 1 > 2 THEN 0 ELSE Silence')
  <2>1. p = todo'[1].size + Silence'
    OBVIOUS
  <2> HIDE DEF p
  <2>2. QED
    BY <2>1
<1>2. QED
  BY <1>1, OwedWhere

LEMMA OwedTwo ==
  ASSUME b' \in BOOLEAN, Len(todo') = 2, Silence' = 0,
         todo'[1].size \in Int, todo'[2].size \in Int,
         todo'[1].type = "ZERO", todo'[2].type = "ZERO",
         owed' * dit' = todo'[2].size + todo'[1].size + Silence',
         owed' = -1 \/ (owed' = 3 /\ ~b') \/ (owed' \in Nat /\ owed' >= 7 /\ b')
  PROVE  OwedInv'
<1> DEFINE p == owed' * dit'
<1>1. p = (IF 2 > 0 THEN todo'[2].size ELSE 0) + (IF 2 > 1 THEN todo'[2 - 1].size ELSE 0)
            + (IF 2 > 2 THEN 0 ELSE Silence')
  <2>1. p = todo'[2].size + todo'[1].size + Silence'
    OBVIOUS
  <2> HIDE DEF p
  <2>2. QED
    BY <2>1
<1>2. QED
  BY <1>1, OwedWhere

LEMMA OwedStep ==
  ASSUME PlaceInv, SoundInv, TodoInv, EndInv, OwedInv, [Next]_vars
  PROVE  OwedInv'
<1>0. dit \in Nat \ {0} /\ owed \in Int /\ Silence \in Nat /\ b \in BOOLEAN
  BY DitIs, OwedType, SilenceTypes DEF OwedInv
<1>1. CASE Still
  <2>1. /\ todo' = todo /\ dit' = dit /\ b' = b /\ owed' = owed
        /\ pc'["input"] = "finish" <=> pc["input"] = "finish"
        /\ pc'["input"] = "exit" <=> pc["input"] = "exit"
    BY <1>1, StillFrame
  <2>2. pc["input"] # "exit" => Silence' = Silence
    BY <1>1, SilenceKept
  <2>3. QED
    BY <2>1, <2>2 DEF OwedInv
<1>2. CASE \E d \in Speeds : ReadSpeed(d)
  <2>1. owed' = -1 /\ b' = b
    BY <1>2 DEF ReadSpeed
  <2>2. QED
    BY <1>0, <2>1 DEF OwedInv
<1>3. CASE ReadEnd
  <2>1. owed' = owed /\ b' = b /\ pc'["input"] = "finish"
    BY <1>3, GotoPc DEF ReadEnd, Threads
  <2>2. QED
    BY <2>1 DEF OwedInv
<1>4. CASE ReadBlank
  <2> DEFINE n == IF b THEN 7 * dit ELSE 4 * dit
  <2>1. /\ n \in Nat /\ Len(todo') = 1 /\ todo'[1] = Zero(n) /\ Zero(n).type = "ZERO"
        /\ Zero(n).size = n /\ morsel' = morsel /\ dit' = dit /\ todo = <<>>
        /\ pc["input"] = "getchar" /\ pc' = pc
    BY <1>4, BlankIs
  <2>2. sems' = sems /\ sound' = sound /\ b' = TRUE
    BY <1>4 DEF ReadBlank
  <2>3. Silence' = Silence
    BY <2>1, <2>2 DEF Silence, Pending, sems, sound
  <2>4. owed' = IF owed = -1 THEN -1 ELSE IF owed = 3 THEN 7 ELSE owed + 7
    BY <1>0, <1>4 DEF ReadBlank
  <2>5. owed # -1 => owed * dit = Silence
    <3>1. Len(todo) = 0
      BY <2>1
    <3>2. owed # -1 => owed * dit = 0 + 0 + Silence
      BY <2>1, <3>1 DEF OwedInv
    <3>3. QED
      BY <1>0, <3>2
  <2>6. CASE owed = -1
    BY <2>2, <2>4, <2>6 DEF OwedInv
  <2>7. CASE owed = 3
    <3>1. n = 4 * dit
      BY <2>7 DEF OwedInv
    <3> HIDE DEF n
    <3>2. owed' * dit' = n + Silence'
      BY <1>0, <2>1, <2>3, <2>4, <2>5, <2>7, <3>1
    <3>3. owed' = 7
      BY <2>4, <2>7
    <3>4. todo'[1].type = "ZERO" /\ todo'[1].size = n /\ n \in Int /\ Silence' \in Int
      BY <1>0, <2>1, <2>3
    <3>5. QED
      BY <2>1, <2>2, <3>2, <3>3, <3>4, OwedOne
  <2>8. CASE owed \notin {-1, 3}
    <3>1. n = 7 * dit /\ owed \in Nat /\ owed >= 7
      BY <2>8 DEF OwedInv
    <3> HIDE DEF n
    <3>2. owed' = owed + 7
      BY <2>4, <2>8
    <3>3. (owed + 7) * dit = owed * dit + 7 * dit
      BY <1>0, Distribute
    <3>4. owed' * dit' = n + Silence'
      BY <1>0, <2>1, <2>3, <2>5, <2>8, <3>1, <3>2, <3>3
    <3>5. owed' \in Nat /\ owed' >= 7
      BY <3>1, <3>2
    <3>6. todo'[1].type = "ZERO" /\ todo'[1].size = n /\ n \in Int /\ Silence' \in Int
      BY <1>0, <2>1, <2>3
    <3>7. QED
      BY <2>1, <2>2, <3>4, <3>5, <3>6, OwedOne
  <2>9. QED
    BY <2>6, <2>7, <2>8
<1>5. CASE \E c \in Characters : ReadCharacter(c)
  <2>1. PICK c \in Characters : ReadCharacter(c)
    BY <1>5
  <2> DEFINE n == 4 * Len(c) + 1
  <2>2. /\ todo' = Segments(c, owed, dit) /\ dit' = dit /\ owed' = 3 /\ b' = FALSE
    BY <2>1 DEF ReadCharacter
  <2>3. Len(c) \in Nat \ {0} /\ n - 1 = 4 * Len(c) /\ n - 2 = 4 * Len(c) - 1
    BY <1>0, SegmentsAre
  <2>4. /\ Len(todo') = n /\ n \in Nat /\ n > 4
        /\ todo'[n] = Zero(2 * dit) /\ todo'[n - 1] = Zero(dit) /\ todo'[n - 2] = Fall
    BY <1>0, <2>2, <2>3, SegmentsAre
  <2> HIDE DEF n
  <2>5. 2 * dit \in Int
    BY <1>0
  <2>6. /\ todo'[n].type = "ZERO" /\ todo'[n].size = 2 * dit
        /\ todo'[n - 1].type = "ZERO" /\ todo'[n - 1].size = dit
        /\ todo'[n - 2].type = "RAMP"
    BY <1>0, <2>4, <2>5, KindsOfSegment
  <2>7. owed' * dit' = todo'[n].size + todo'[n - 1].size + 0
    BY <1>0, <2>2, <2>6
  <2>8. todo'[n].size \in Int /\ todo'[n - 1].size \in Int /\ n > 0 /\ n > 1 /\ n > 2
    BY <1>0, <2>4, <2>5, <2>6
  <2>9. owed' * dit' = (IF n > 0 THEN todo'[n].size ELSE 0)
                         + (IF n > 1 THEN todo'[n - 1].size ELSE 0)
                         + (IF n > 2 THEN 0 ELSE Silence')
    BY <2>7, <2>8
  <2>10. b' \in BOOLEAN /\ owed' = 3 /\ ~b'
    BY <2>2
  <2>11. n = Len(todo')
    BY <2>4
  <2>12. QED
    BY <2>6, <2>9, <2>10, <2>11, OwedWhere
<1>6. CASE MarkPtt
  <2> DEFINE m == Len(todo)
  <2>1. /\ m \in Nat /\ m >= 5 /\ Len(todo') = m + 1
        /\ \A j \in 3 .. m + 1 : todo'[j] = todo[j - 1]
        /\ dit' = dit /\ b' = b /\ owed' = owed
        /\ pc["input"] = "keyed"
    BY <1>6, MarkIs
  <2>2. todo'[m + 1] = todo[m] /\ todo'[m] = todo[m - 1] /\ todo'[m - 1] = todo[m - 2]
    <3>1. /\ m + 1 \in 3 .. m + 1 /\ m \in 3 .. m + 1 /\ m - 1 \in 3 .. m + 1
          /\ m + 1 - 1 = m /\ m - 1 - 1 = m - 2
      BY <2>1
    <3>2. QED
      BY <2>1, <3>1
  <2>3. owed # -1 =>
          /\ todo[m].type = "ZERO" /\ todo[m - 1].type = "ZERO" /\ todo[m - 2].type = "RAMP"
          /\ owed * dit = todo[m].size + todo[m - 1].size + 0
    BY <2>1 DEF OwedInv
  <2>4. m + 1 > 2 /\ m + 1 > 1 /\ m + 1 > 0 /\ m + 1 - 1 = m /\ m + 1 - 2 = m - 1
    BY <2>1
  <2>5. owed = -1 \/ (owed = 3 /\ ~b) \/ (owed \in Nat /\ owed >= 7 /\ b)
    BY DEF OwedInv
  <2> HIDE DEF m
  <2>6. QED
    BY <1>0, <2>1, <2>2, <2>3, <2>4, <2>5 DEF OwedInv
<1>7. CASE HandOver
  <2> DEFINE n == Len(todo)
  <2>1. /\ n \in Nat \ {0} /\ Len(todo') = n - 1
        /\ \A j \in 1 .. n - 1 : todo'[j] = todo[j + 1]
        /\ dit' = dit /\ b' = b /\ owed' = owed
        /\ pc["input"] \in {"getchar", "finish"}
        /\ pc'["input"] = IF pc["input"] = "finish" THEN "exit" ELSE "getchar"
    BY <1>7, HandIs
  <2>2. /\ todo[1].type = "ZERO" => Silence' = Silence + todo[1].size
        /\ todo[1].type = "RAMP" => Silence' = 0
    BY <1>7, SilenceHand
  <2>3. owed = -1 \/ (owed = 3 /\ ~b) \/ (owed \in Nat /\ owed >= 7 /\ b)
    BY DEF OwedInv
  <2>4. CASE pc["input"] = "finish" \/ owed = -1
    BY <1>0, <2>1, <2>3, <2>4 DEF OwedInv
  <2>5. CASE pc["input"] = "getchar" /\ owed # -1
    <3>1. /\ todo[n].type = "ZERO"
          /\ n > 1 => todo[n - 1].type = "ZERO"
          /\ n > 2 => todo[n - 2].type = "RAMP"
          /\ owed * dit = todo[n].size + (IF n > 1 THEN todo[n - 1].size ELSE 0)
                            + (IF n > 2 THEN 0 ELSE Silence)
      BY <2>1, <2>5 DEF OwedInv
    <3>2. \A j \in 1 .. n : todo[j].size \in Int
      BY TodoAt
    <3>3. CASE n = 1
      <4>1. owed * dit = Silence'
        BY <1>0, <2>1, <2>2, <3>1, <3>2, <3>3
      <4>2. Silence' \in Int
        BY <1>0, <2>2, <3>1, <3>2, <3>3
      <4>3. Len(todo') = 0
        BY <2>1, <3>3
      <4>4. b' \in BOOLEAN /\ owed' * dit' = Silence'
        BY <1>0, <2>1, <4>1
      <4>5. owed' = -1 \/ (owed' = 3 /\ ~b') \/ (owed' \in Nat /\ owed' >= 7 /\ b')
        BY <2>1, <2>3
      <4> HIDE DEF n
      <4>6. QED
        BY <4>2, <4>3, <4>4, <4>5, OwedNone
    <3>4. CASE n = 2
      <4>1. Len(todo') = 1 /\ todo'[1] = todo[2]
        BY <2>1, <3>4
      <4>2. todo'[1].type = "ZERO" /\ todo'[1].size \in Int /\ Silence' \in Int
        BY <1>0, <2>2, <3>1, <3>2, <3>4, <4>1
      <4>3. owed * dit = todo'[1].size + Silence'
        BY <1>0, <2>2, <3>1, <3>2, <3>4, <4>1
      <4>4. b' \in BOOLEAN /\ owed' * dit' = todo'[1].size + Silence'
        BY <1>0, <2>1, <4>3
      <4>5. owed' = -1 \/ (owed' = 3 /\ ~b') \/ (owed' \in Nat /\ owed' >= 7 /\ b')
        BY <2>1, <2>3
      <4> HIDE DEF n
      <4>6. QED
        BY <4>1, <4>2, <4>4, <4>5, OwedOne
    <3>5. CASE n = 3
      <4>1. Len(todo') = 2 /\ todo'[2] = todo[3] /\ todo'[1] = todo[2] /\ Silence' = 0
        BY <2>1, <2>2, <3>1, <3>5
      <4>2. /\ todo'[2].type = "ZERO" /\ todo'[1].type = "ZERO"
            /\ todo'[1].size \in Int /\ todo'[2].size \in Int
        BY <3>1, <3>2, <3>5, <4>1
      <4>3. owed * dit = todo'[2].size + todo'[1].size + Silence'
        BY <1>0, <3>1, <3>2, <3>5, <4>1
      <4>4. b' \in BOOLEAN /\ owed' * dit' = todo'[2].size + todo'[1].size + Silence'
        BY <1>0, <2>1, <4>3
      <4>5. owed' = -1 \/ (owed' = 3 /\ ~b') \/ (owed' \in Nat /\ owed' >= 7 /\ b')
        BY <2>1, <2>3
      <4> HIDE DEF n
      <4>6. QED
        BY <4>1, <4>2, <4>4, <4>5, OwedTwo
    <3>6. CASE n > 3
      <4>1. /\ n - 1 \in 1 .. n - 1 /\ n - 2 \in 1 .. n - 1 /\ n - 3 \in 1 .. n - 1
            /\ n - 1 + 1 = n /\ n - 2 + 1 = n - 1 /\ n - 3 + 1 = n - 2
            /\ n - 1 - 1 = n - 2 /\ n - 1 - 2 = n - 3
            /\ n - 1 > 0 /\ n - 1 > 1 /\ n - 1 > 2
        BY <2>1, <3>6
      <4>2. todo'[n - 1] = todo[n] /\ todo'[n - 2] = todo[n - 1] /\ todo'[n - 3] = todo[n - 2]
        BY <2>1, <4>1
      <4>3. /\ todo[n - 1].type = "ZERO" /\ todo[n - 2].type = "RAMP"
            /\ owed * dit = todo[n].size + todo[n - 1].size + 0
        BY <2>1, <3>1, <3>6
      <4> HIDE DEF n
      <4>4. QED
        BY <1>0, <2>1, <2>3, <3>1, <4>1, <4>2, <4>3 DEF OwedInv
    <3>7. QED
      BY <2>1, <3>3, <3>4, <3>5, <3>6
  <2>6. QED
    BY <2>1, <2>4, <2>5
<1>8. QED
  BY <1>1, <1>2, <1>3, <1>4, <1>5, <1>6, <1>7, TextKinds

-----------------------------------------------------------------------------
IInv ==
  /\ PlaceInv /\ SoundInv /\ TodoInv /\ EndInv /\ GapInv /\ OwedInv
  /\ SlowEnough => TailInv

LEMMA IInvStep == ASSUME IInv, [Next]_vars PROVE IInv'
<1>1. PlaceInv /\ SoundInv /\ TodoInv /\ EndInv /\ GapInv /\ OwedInv /\ owed \in Int
  BY OwedType DEF IInv
<1>2. PlaceInv' /\ TodoInv' /\ EndInv' /\ GapInv' /\ OwedInv'
  BY <1>1, PlaceStep, TodoStep, EndStep, GapStep, OwedStep
<1>3. SoundInv'
  BY <1>1, StepKinds, SoundQuiet, SoundHandOver, SoundPlay, SoundJack DEF TodoInv
<1>4. SlowEnough => TailInv'
  BY <1>1, TailStep DEF IInv
<1>5. SlowEnough' <=> SlowEnough
  BY DEF SlowEnough, CharSpace
<1>6. QED
  BY <1>2, <1>3, <1>4, <1>5 DEF IInv

LEMMA Heard == IInv => SoundArrives
<1> SUFFICES ASSUME IInv PROVE SoundArrives
  OBVIOUS
<1>1. RoomToSend /\ Together
  BY SoundRoom DEF IInv, SoundInv
<1>2. ASSUME At("main", "exit"), \A d \in Speeds : CharSpace(d) >= 2 * Size - 1
      PROVE  lring <= since
  <2>1. pc["play"] = "exit" /\ pc["input"] = "exit"
    BY <1>2 DEF IInv, EndInv, At, Ending
  <2>2. since >= Size + k
    BY <1>2, <2>1 DEF IInv, TailInv, SlowEnough, At
  <2>3. lring = Rest + k
    BY <2>1 DEF IInv, SoundInv, FillInv, Written
  <2>4. Rest <= Size
    BY SpeedIs DEF Rest
  <2>5. /\ since \in Nat /\ Size \in Nat /\ Rest \in Int /\ k \in Nat
    BY SpeedIs, SoundTypes, SilenceTypes DEF IInv
  <2>6. QED
    BY <2>2, <2>3, <2>4, <2>5
<1>3. TailIsSilent
  BY <1>2 DEF TailIsSilent
<1>4. QED
  BY <1>1, <1>3 DEF SoundArrives

LEMMA InvHolds == Spec => []IInv
<1>1. Init => IInv
  BY InitPtt, InitSound, InitTodo, InitGap, InitTail DEF IInv
<1>2. QED
  BY <1>1, IInvStep, PTL DEF Spec

(* What is typed is heard: the two sides never drift apart, send_sound     *)
(* never finds the rings full, and what is still in them when main closes  *)
(* the client is silence, if a character space lasts two buffers.          *)
THEOREM AllIsHeard == Spec => []SoundArrives
  BY InvHolds, Heard, PTL

(* Elements, characters and words keep the spaces that Morse code puts     *)
(* between them, through the semaphores that hand a segment over, through  *)
(* changes of speed and while the transmitter switches over.               *)
THEOREM SpacesKept == Spec => Spacing
<1>1. IInv => (Receive /\ morsel.gap # -1 => since = morsel.gap * dit)
  BY DEF IInv, GapInv, Receive
<1>2. QED
  BY <1>1, InvHolds, PTL DEF Spacing
=============================================================================
