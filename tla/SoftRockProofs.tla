--------------------------- MODULE SoftRockProofs ---------------------------
(***************************************************************************)
(* Proofs about SoftRock: the threads that share the socket, for any hang  *)
(* time, any queue of readings shorter than it, and whatever the keyer's   *)
(* logic makes of the paddles.                                             *)
(***************************************************************************)
EXTENDS SoftRock, FiniteSetTheorems, SequenceTheorems, TLAPS

USE SoftRockAssumption

(* Where each thread can be; the end comes to all of them at once.         *)
Places(t) ==
  Sending \cup (CASE t = "poll" -> {"sleep"} [] t = "key" -> {"tick", "sound"}
                  [] t = "timer" -> {"sleep"} [] t = "update" -> {"read"})

Ended == At("update", "gone")

PlaceInv ==
  /\ DOMAIN pc = Threads
  /\ IF Ended THEN \A t \in Threads : At(t, "gone")
              ELSE \A t \in Threads : pc[t] \in Places(t)

(* Who has sent and will, as far as is known, wait for an answer.          *)
AtWait == {"check", "select", "recv", "blocked"}
Awaiting == {t \in Threads : pc[t] \in AtWait}

(* A datagram for everybody who waits, or is about to.                     *)
Answered ==
  link = "open" /\ ~Ended => Cardinality(Awaiting) <= Len(requests) + Len(replies)

Said     == {"", "ok", "get keys", "ptt on", "ptt off", "tone", "cut"}
Datagram == [from : Threads, what : Said]
Answer   == [from : Threads, what : Said, param : Positions]

WireInv ==
  /\ paddles \in Positions /\ buff \in Said /\ link \in {"open", "closed"}
  /\ used \in Said /\ passed \in [Threads -> Said]
  /\ requests \in Seq(Datagram) /\ replies \in Seq(Answer)
  /\ Answered

-----------------------------------------------------------------------------
(* The readings.  How many ticks ago reading n of the queue was made:      *)
(* before the latest has been sounded the index is still at it.            *)
Behind(n) == IF n <= i THEN i - n ELSE i - n + FIFO
Since(n) ==
  IF At("key", "tick") THEN (IF n = i THEN FIFO - 1 ELSE Behind(n) - 1) ELSE Behind(n)
ToneSince == IF At("key", "tick") THEN FIFO - 1 ELSE FIFO
Once == IF counted THEN 1 ELSE 0

(* While a reading that closed the key is in the queue, or sounds, the     *)
(* timer has counted at most once for each tick after it.                  *)
HangInv ==
  /\ i \in 0 .. FIFO - 1 /\ key_FIFO \in [0 .. FIFO - 1 -> BOOLEAN] /\ tone \in BOOLEAN
  /\ hang_time \in Nat /\ counted \in BOOLEAN
  /\ late \in BOOLEAN
  /\ ~late => /\ \A n \in 0 .. FIFO - 1 : key_FIFO[n] => hang_time <= Since(n) + Once
              /\ tone => hang_time <= ToneSince + Once
  /\ At("key", "tick") => (tone <=> key_FIFO[i])

(* The key thread keys while PTT_state is off, the timer lets go while it  *)
(* is on; who hears a tone, or will, has the state on.                     *)
Keying == pc["key"] \in Sending

PttInv ==
  /\ PTT_state \in BOOLEAN /\ raced \in BOOLEAN
  /\ Keying => ~PTT_state
  /\ Releasing => PTT_state
  /\ ~raced /\ ~late =>
               /\ tone => PTT_state /\ ~Releasing
               /\ \A n \in 0 .. FIFO - 1 : key_FIFO[n] => (PTT_state \/ Keying) /\ ~Releasing

-----------------------------------------------------------------------------
(* The datagrams.  Of the key thread there is at most one under way.       *)
Own(q) == {j \in 1 .. Len(q) : q[j].from = "key"}

OwnInv ==
  /\ \A j \in Own(requests) : requests[j].what = "ptt on"
  /\ \A j, l \in Own(requests) : j = l
  /\ \A j, l \in Own(replies) : j = l
  /\ Own(requests) = {} \/ Own(replies) = {}
  /\ "key" \notin Awaiting => Own(requests) = {} /\ Own(replies) = {}

(* The key thread's command is in the buffer.                              *)
Composed == pc["key"] \in {"measure", "blast"}

(* From when the key thread has told the radio until the timer tells it.   *)
Telling == pc["timer"] \in Sending \ {"send"}
On == "key" \in Awaiting \/ At("key", "sent") \/ (PTT_state /\ ~Telling)

(* Until then nothing is behind the key thread's command that lets go.     *)
OnInv ==
  /\ Composed \/ On => buff # "ptt off"
  /\ On => /\ \A j \in 1 .. Len(requests) :
                requests[j].what = "ptt off" => \E l \in Own(requests) : j < l
           /\ radio \/ Own(requests) # {}

KeyedInv == ~astray => OwnInv /\ OnInv

(* What is under way when the program ends.                                *)
EndInv ==
  Ended /\ tone /\ ~astray /\ ~raced /\ ~late =>
    radio /\ \A j \in 1 .. Len(requests) : requests[j].what # "ptt off"

IInv == PlaceInv /\ WireInv /\ (~Ended => HangInv /\ PttInv /\ KeyedInv) /\ EndInv

-----------------------------------------------------------------------------
(* What the steps have in common.                                          *)

LEMMA PlaceNames ==
  /\ Threads = {"poll", "key", "timer", "update"}
  /\ \A t \in Threads : Sending \subseteq Places(t) /\ "gone" \notin Places(t)
  /\ "sleep" \in Places("poll") /\ "tick" \in Places("key") /\ "sound" \in Places("key")
  /\ "sleep" \in Places("timer") /\ "read" \in Places("update")
  BY DEF Threads, Places, Sending

(* A step moves one thread, and only that; the end has not come.           *)
LEMMA Moves ==
  ASSUME PlaceInv, NEW t \in Threads, pc[t] # "gone", NEW l \in Places(t), Goto(t, l)
  PROVE  /\ PlaceInv' /\ ~Ended /\ ~Ended'
         /\ pc'[t] = l /\ \A s \in Threads \ {t} : pc'[s] = pc[s]
<1>1. ~Ended /\ \A s \in Threads : pc[s] \in Places(s)
  BY DEF PlaceInv, Ended, At
<1>2. /\ DOMAIN pc' = Threads /\ pc'[t] = l
      /\ \A s \in Threads \ {t} : pc'[s] = pc[s]
  BY DEF PlaceInv, Goto
<1>3. \A s \in Threads : pc'[s] \in Places(s)
  BY <1>1, <1>2
<1>4. "update" \in Threads /\ "gone" \notin Places("update")
  BY PlaceNames
<1>5. ~Ended'
  BY <1>3, <1>4 DEF Ended, At
<1>6. QED
  BY <1>1, <1>2, <1>3, <1>5 DEF PlaceInv

(* send_command moves its thread about and touches nothing of the keyer.   *)
LEMMA SendMoves ==
  ASSUME PlaceInv, NEW t \in Threads, SendCommand(t)
  PROVE  /\ PlaceInv' /\ ~Ended /\ ~Ended'
         /\ pc[t] \in Sending /\ pc'[t] \in Sending
         /\ \A s \in Threads \ {t} : pc'[s] = pc[s]
<1>1. PICK l \in Sending : pc[t] \in Sending /\ Goto(t, l)
  BY Zenon DEF SendCommand, NoPort, Compose, Measure, Transmit, SendError, Check, Select,
    SelectTimeout, Block, RecvError, Receive, Receiving, Lost, Return, At, Sending
<1>2. Sending \subseteq Places(t) /\ "gone" \notin Sending
  BY PlaceNames DEF Sending
<1>3. QED
  BY <1>1, <1>2, Moves

LEMMA SendFrame ==
  ASSUME NEW t \in Threads, SendCommand(t)
  PROVE  /\ UNCHANGED <<world, keys, ptt, tones, raced, late>>
         /\ astray => astray'
         /\ link' = link \/ link' = "closed"
<1>1. UNCHANGED <<world, keys, ptt, tones, raced, late>>
  BY Zenon DEF SendCommand, NoPort, Compose, Measure, Transmit, SendError, Check, Select,
    SelectTimeout, Block, RecvError, Receive, Receiving, Lost, notes, port
<1>2. astray => astray'
  BY Zenon DEF SendCommand, NoPort, Compose, Measure, Transmit, SendError, Check, Select,
    SelectTimeout, Block, RecvError, Receive, Receiving, Lost, notes, port
<1>3. link' = link \/ link' = "closed"
  BY Zenon DEF SendCommand, NoPort, Compose, Measure, Transmit, SendError, Check, Select,
    SelectTimeout, Block, RecvError, Receive, Receiving, Lost, notes, port
<1>4. QED
  BY <1>1, <1>2, <1>3

(* The steps of the threads between two commands.                          *)
Other == PollSleep \/ Polled \/ KeyTick \/ KeyKeyed \/ KeySound \/ TimerCount \/ TimerReleased
          \/ ReadFreq \/ FreqSet

LEMMA OtherMoves ==
  ASSUME PlaceInv, Other
  PROVE  /\ PlaceInv' /\ ~Ended /\ ~Ended'
         /\ \E t \in Threads :
              /\ pc[t] \notin {"gone", "measure", "blast", "check", "select", "recv", "blocked"}
              /\ pc'[t] \notin {"gone", "measure", "blast", "check", "select", "recv", "blocked", "sent"}
              /\ \A s \in Threads \ {t} : pc'[s] = pc[s]
<1>1. \E t \in Threads : \E l \in Places(t) :
        /\ pc[t] \in {"sleep", "sent", "tick", "sound", "read"}
        /\ l \in {"send", "sleep", "tick", "sound", "read"} /\ Goto(t, l)
  <2>0. "send" \in Sending
    BY DEF Sending
  <2>1. CASE PollSleep \/ Polled
    BY <2>0, <2>1, PlaceNames DEF PollSleep, Polled, At
  <2>2. CASE KeyTick \/ KeyKeyed \/ KeySound
    BY <2>0, <2>2, PlaceNames, Zenon DEF KeyTick, KeyKeyed, KeySound, At
  <2>3. CASE TimerCount \/ TimerReleased
    BY <2>0, <2>3, PlaceNames, Zenon DEF TimerCount, TimerReleased, At
  <2>4. CASE ReadFreq \/ FreqSet
    BY <2>0, <2>4, PlaceNames DEF ReadFreq, FreqSet, At
  <2>5. QED
    BY <2>1, <2>2, <2>3, <2>4 DEF Other
<1>2. PICK t \in Threads : \E l \in Places(t) :
        /\ pc[t] \in {"sleep", "sent", "tick", "sound", "read"}
        /\ l \in {"send", "sleep", "tick", "sound", "read"} /\ Goto(t, l)
  BY <1>1
<1>3. PICK l \in Places(t) :
        /\ pc[t] \in {"sleep", "sent", "tick", "sound", "read"}
        /\ l \in {"send", "sleep", "tick", "sound", "read"} /\ Goto(t, l)
  BY <1>2
<1>4. /\ PlaceInv' /\ ~Ended /\ ~Ended' /\ pc'[t] = l
      /\ \A s \in Threads \ {t} : pc'[s] = pc[s]
  BY <1>3, Moves
<1>5. QED
  BY <1>3, <1>4

LEMMA PlaceStep == ASSUME PlaceInv, [Next]_vars PROVE PlaceInv'
<1>1. CASE MovePaddles \/ Radio \/ UNCHANGED vars
  BY <1>1 DEF MovePaddles, Radio, vars, PlaceInv, Ended, At
<1>2. CASE \E t \in Threads : SendCommand(t)
  BY <1>2, SendMoves
<1>3. CASE Other
  BY <1>3, OtherMoves
<1>4. CASE Quit \/ Crash
  BY <1>4 DEF Quit, Crash, PlaceInv, Ended, At, Threads
<1>5. CASE Gone
  BY <1>5 DEF Gone, vars, PlaceInv, Ended, At
<1>6. QED
  BY <1>1, <1>2, <1>3, <1>4, <1>5 DEF Next, Other

-----------------------------------------------------------------------------
(* Who waits, and for how many datagrams.                                  *)

LEMMA WaitFinite == IsFiniteSet(Awaiting) /\ Cardinality(Awaiting) \in Nat
<1>1. IsFiniteSet(Threads)
  <2>1. IsFiniteSet({} \cup {"poll"})
    BY FS_EmptySet, FS_AddElement
  <2>2. IsFiniteSet(({} \cup {"poll"}) \cup {"key"})
    BY <2>1, FS_AddElement
  <2>3. IsFiniteSet((({} \cup {"poll"}) \cup {"key"}) \cup {"timer"})
    BY <2>2, FS_AddElement
  <2>4. IsFiniteSet(((({} \cup {"poll"}) \cup {"key"}) \cup {"timer"}) \cup {"update"})
    BY <2>3, FS_AddElement
  <2>5. Threads = ((({} \cup {"poll"}) \cup {"key"}) \cup {"timer"}) \cup {"update"}
    BY DEF Threads
  <2>6. QED
    BY <2>4, <2>5
<1>2. QED
  BY <1>1, FS_Subset, FS_CardinalityType DEF Awaiting, AtWait

(* A step after which as many wait, and as many datagrams are under way.   *)
LEMMA HangFrame ==
  ASSUME Answered, Awaiting' = Awaiting, link' = "open" => link = "open", Ended => Ended',
         Len(requests') + Len(replies') = Len(requests) + Len(replies)
  PROVE  Answered'
  BY DEF Answered, Ended, At

(* Who is in select or recvfrom after thread t has moved.                  *)
LEMMA WaitMoves ==
  ASSUME NEW t \in Threads, \A s \in Threads \ {t} : pc'[s] = pc[s]
  PROVE  Awaiting' = IF pc'[t] \in AtWait THEN Awaiting \cup {t}
                    ELSE Awaiting \ {t}
<1>1. \A s \in Threads : s \in Awaiting <=> pc[s] \in AtWait
  BY DEF Awaiting, AtWait
<1>2. \A s \in Threads : s \in Awaiting' <=> pc'[s] \in AtWait
  BY DEF Awaiting, AtWait
<1>3. Awaiting \subseteq Threads /\ Awaiting' \subseteq Threads
  BY DEF Awaiting, AtWait
<1>4. QED
  BY <1>1, <1>2, <1>3

LEMMA KeptIs ==
  ASSUME NEW t, NEW what \in Said
  PROVE  Kept(t, what) \in Said /\ Kept(t, what) \in {"", what}
  BY DEF Kept, Said

LEMMA CommandIs ==
  ASSUME NEW t \in Threads
  PROVE  /\ Command(t) \in Said
         /\ Command(t) = "ptt off" <=> t = "timer"
         /\ Command(t) = "ptt on" <=> t = "key"
<1>1. /\ Command("poll") = "get keys" /\ Command("key") = "ptt on"
      /\ Command("timer") = "ptt off" /\ Command("update") = "tone"
  BY DEF Command
<1>2. t = "poll" \/ t = "key" \/ t = "timer" \/ t = "update"
  BY DEF Threads
<1>3. QED
  BY <1>1, <1>2 DEF Said

(* The radio hands a request on as an answer.                              *)
LEMMA WireRadio == ASSUME WireInv, Radio PROVE WireInv'
<1> DEFINE h == Head(requests)
           a == [from |-> h.from, what |-> h.what,
                 param |-> IF h.what = "get keys" THEN paddles ELSE {}]
<1>1. /\ requests # <<>> /\ requests' = Tail(requests)
      /\ replies' = IF link = "open" \/ \E t \in Threads : At(t, "blocked")
                    THEN Append(replies, a) ELSE replies
      /\ link' = link /\ buff' = buff /\ paddles' = paddles /\ pc' = pc
      /\ used' = used /\ passed' = passed
  BY DEF Radio, port, world
<1>2. requests \in Seq(Datagram) /\ replies \in Seq(Answer)
  BY DEF WireInv
<1>3. /\ h \in Datagram /\ requests' \in Seq(Datagram)
      /\ Len(requests') = Len(requests) - 1
  BY <1>1, <1>2, HeadTailProperties
<1>4. a \in Answer
  BY <1>3, SoftRockAssumption DEF WireInv, Datagram, Answer
<1> HIDE DEF a
<1>5. /\ replies' \in Seq(Answer)
      /\ link = "open" => Len(replies') = Len(replies) + 1
  BY <1>1, <1>2, <1>4, AppendProperties
<1>6. Len(requests) \in Nat /\ Len(replies) \in Nat
  BY <1>2, LenProperties
<1>7. Awaiting' = Awaiting
  BY <1>1 DEF Awaiting, AtWait
<1>8. Answered'
  <2> SUFFICES ASSUME link = "open" PROVE Answered'
    BY <1>1 DEF Answered
  <2>1. Len(requests') + Len(replies') = Len(requests) + Len(replies)
    BY <1>3, <1>5, <1>6
  <2>2. QED
    BY <1>1, <1>7, <2>1, HangFrame DEF WireInv, Ended, At
<1>9. QED
  BY <1>1, <1>3, <1>5, <1>8 DEF WireInv

(* What goes out is what the buffer holds, or a part of it.                *)
LEMMA BlastedIs ==
  ASSUME buff \in Said, NEW what \in Blasted
  PROVE  what \in Said /\ what \in {buff, "cut"} /\ (used = buff => what = buff)
  BY DEF Blasted, Said

(* sendto: one more waits, and one more datagram is under way.             *)
LEMMA WireTransmit ==
  ASSUME PlaceInv, WireInv, NEW t \in Threads, Transmit(t)
  PROVE  WireInv'
<1>1. PICK what \in Blasted : requests' = Append(requests, [from |-> t, what |-> what])
  BY DEF Transmit
<1> DEFINE d == [from |-> t, what |-> what]
<1>2. /\ pc[t] = "blast" /\ replies' = replies /\ link = "open" /\ link' = link
      /\ paddles' = paddles /\ buff' = Kept(t, buff) /\ used' = used
      /\ passed' = [passed EXCEPT ![t] = used] /\ Goto(t, "check")
  BY DEF Transmit, At, world
<1>3. requests \in Seq(Datagram) /\ buff \in Said /\ d \in Datagram
  BY BlastedIs DEF WireInv, Datagram
<1>4. buff' \in Said /\ used' \in Said /\ passed' \in [Threads -> Said]
  BY <1>2, <1>3, KeptIs DEF WireInv
<1> HIDE DEF d
<1>5. requests' = Append(requests, d)
  BY <1>1 DEF d
<1>6. requests' \in Seq(Datagram) /\ Len(requests') = Len(requests) + 1
  BY <1>3, <1>5, AppendProperties
<1>7. SendCommand(t)
  BY DEF SendCommand
<1>8. t \notin Awaiting /\ Awaiting' = Awaiting \cup {t}
  <2>1. pc'[t] = "check"
    BY <1>2 DEF PlaceInv, Goto
  <2>2. QED
    BY <1>2, <1>7, <2>1, SendMoves, WaitMoves DEF Awaiting, AtWait
<1>9. Cardinality(Awaiting') = Cardinality(Awaiting) + 1
  BY <1>8, WaitFinite, FS_AddElement
<1>10. ~Ended /\ ~Ended'
  BY <1>7, SendMoves
<1>11. Cardinality(Awaiting) <= Len(requests) + Len(replies) /\ Cardinality(Awaiting) \in Nat
  BY <1>2, <1>10, WaitFinite DEF WireInv, Answered
<1>12. Len(requests) \in Nat /\ Len(replies) \in Nat /\ Len(replies') = Len(replies)
  BY <1>2, LenProperties DEF WireInv
<1>13. Cardinality(Awaiting') <= Len(requests') + Len(replies')
  BY <1>6, <1>9, <1>11, <1>12
<1>14. QED
  BY <1>2, <1>4, <1>6, <1>13 DEF WireInv, Answered

(* recvfrom: one fewer of both.                                            *)
LEMMA WireReceive ==
  ASSUME PlaceInv, WireInv, NEW t \in Threads, Receive(t)
  PROVE  WireInv'
<1>1. /\ pc[t] \in {"recv", "blocked"} /\ replies # <<>>
      /\ replies' = Tail(replies) /\ requests' = requests /\ link' = link
      /\ paddles' = paddles /\ buff' = Kept(t, "ok") /\ Goto(t, "sent")
      /\ used' = used /\ passed' = passed
  BY DEF Receive, Receiving, At, Return, world
<1>2. SendCommand(t)
  BY DEF SendCommand
<1>3. ~Ended /\ pc'[t] = "sent"
  BY <1>1, <1>2, SendMoves DEF PlaceInv, Goto
<1>4. t \in Awaiting /\ Awaiting' = Awaiting \ {t}
  BY <1>1, <1>2, <1>3, SendMoves, WaitMoves DEF Awaiting, AtWait
<1>5. Cardinality(Awaiting') = Cardinality(Awaiting) - 1
  BY <1>4, WaitFinite, FS_RemoveElement
<1>6. replies' \in Seq(Answer) /\ Len(replies') = Len(replies) - 1
  BY <1>1, HeadTailProperties DEF WireInv
<1>7. Len(requests) \in Nat /\ Len(replies) \in Nat
  BY LenProperties DEF WireInv
<1>8. ASSUME link = "open" PROVE Cardinality(Awaiting') <= Len(requests') + Len(replies')
  <2>1. Cardinality(Awaiting) <= Len(requests) + Len(replies) /\ Cardinality(Awaiting) \in Nat
    BY <1>3, <1>8, WaitFinite DEF WireInv, Answered
  <2>2. QED
    BY <1>1, <1>5, <1>6, <1>7, <2>1
<1>9. Answered'
  BY <1>1, <1>8 DEF Answered
<1>10. buff' \in Said
  BY <1>1, KeptIs DEF Said
<1>11. QED
  BY <1>1, <1>6, <1>9, <1>10 DEF WireInv

(* Fewer wait, and as many datagrams are under way.                        *)
LEMMA FewerWait ==
  ASSUME Answered, ~Ended, NEW t \in Threads, Awaiting' \in {Awaiting, Awaiting \ {t}},
         link' = link, UNCHANGED <<requests, replies>>, requests \in Seq(Datagram),
         replies \in Seq(Answer)
  PROVE  Answered'
<1>1. Cardinality(Awaiting') <= Cardinality(Awaiting) /\ Cardinality(Awaiting') \in Nat
  BY WaitFinite, FS_Subset, FS_CardinalityType
<1>2. Len(requests) \in Nat /\ Len(replies) \in Nat /\ Cardinality(Awaiting) \in Nat
  BY LenProperties, WaitFinite
<1>3. QED
  BY <1>1, <1>2 DEF Answered

(* The rest of send_command: the port is closed, or no more wait than did. *)
LEMMA WireSend ==
  ASSUME PlaceInv, WireInv, NEW t \in Threads, SendCommand(t)
  PROVE  WireInv'
<1>1. ~Ended /\ ~Ended' /\ \A s \in Threads \ {t} : pc'[s] = pc[s]
  BY SendMoves
<1>2. CASE Transmit(t)
  BY <1>2, WireTransmit
<1>3. CASE Receive(t)
  BY <1>3, WireReceive
<1>4. CASE NoPort(t) \/ SelectTimeout(t) \/ RecvError(t)
  <2>1. link' = "closed" /\ UNCHANGED <<world, wire, buff, used, passed>>
    BY <1>4 DEF NoPort, SelectTimeout, RecvError, port
  <2>2. QED
    BY <2>1 DEF WireInv, Answered, world, wire
<1>5. CASE Compose(t) \/ Measure(t) \/ Select(t) \/ Block(t)
  <2>1. /\ link' = link /\ UNCHANGED <<world, wire, passed>> /\ buff' \in {buff, Command(t)}
        /\ used' \in {used, buff}
    BY <1>5 DEF Compose, Measure, Select, Block, port
  <2>2. pc'[t] \in AtWait <=> pc[t] \in AtWait
    BY <1>5 DEF Compose, Measure, Select, Block, At, Goto, PlaceInv, AtWait
  <2>3. Awaiting' = Awaiting
    BY <1>1, <2>2, WaitMoves DEF Awaiting
  <2>4. Answered'
    BY <1>1, <2>1, <2>3, HangFrame DEF WireInv, wire
  <2>5. buff' \in Said /\ used' \in Said
    BY <2>1, CommandIs DEF WireInv
  <2>6. QED
    BY <2>1, <2>4, <2>5 DEF WireInv, world, wire
<1>6. CASE SendError(t) \/ Check(t)
  <2>1. /\ link' = link /\ UNCHANGED <<world, wire>> /\ buff' \in {buff, Kept(t, buff)}
        /\ used' = Kept(t, used)
    BY <1>6 DEF SendError, Check
  <2>2. passed' = passed \/ passed' = [passed EXCEPT ![t] = ""]
    BY <1>6 DEF SendError, Check
  <2>3. buff' \in Said /\ used' \in Said /\ passed' \in [Threads -> Said]
    <3>1. buff \in Said /\ used \in Said /\ passed \in [Threads -> Said]
      BY DEF WireInv
    <3>2. Kept(t, buff) \in Said /\ Kept(t, used) \in Said /\ "" \in Said
      BY <3>1, KeptIs DEF Said
    <3>3. QED
      BY <2>1, <2>2, <3>1, <3>2
  <2>4. Awaiting' \in {Awaiting, Awaiting \ {t}}
    <3>1. \/ pc[t] = "blast" /\ pc'[t] = "sent"
          \/ pc[t] = "check" /\ pc'[t] \in {"select", "sent"}
      BY <1>6, Zenon DEF SendError, Check, Return, At, Goto, PlaceInv
    <3>2. Awaiting' = IF pc'[t] \in AtWait THEN Awaiting \cup {t} ELSE Awaiting \ {t}
      BY <1>1, WaitMoves
    <3>3. pc'[t] \in AtWait => t \in Awaiting
      BY <3>1 DEF Awaiting, AtWait
    <3>4. QED
      BY <3>2, <3>3
  <2>5. Answered'
    BY <1>1, <2>1, <2>4, FewerWait DEF WireInv, wire
  <2>6. QED
    BY <2>1, <2>3, <2>5 DEF WireInv, world, wire
<1>7. QED
  BY <1>2, <1>3, <1>4, <1>5, <1>6 DEF SendCommand

LEMMA OtherFrame ==
  ASSUME Other
  PROVE  UNCHANGED <<world, wire, port, astray>>
  BY DEF Other, PollSleep, Polled, KeyTick, KeyKeyed, KeySound, TimerCount, TimerReleased, ReadFreq,
    FreqSet, notes

LEMMA WireStep == ASSUME PlaceInv, WireInv, [Next]_vars PROVE WireInv'
<1>1. CASE MovePaddles
  BY <1>1 DEF MovePaddles, WireInv, Answered, Awaiting, Ended, wire, port, At
<1>2. CASE Radio
  BY <1>2, WireRadio
<1>3. CASE \E t \in Threads : SendCommand(t)
  BY <1>3, WireSend
<1>4. CASE Other
  <2>1. Awaiting' = Awaiting /\ ~Ended /\ ~Ended'
    BY <1>4, OtherMoves, WaitMoves DEF Awaiting, AtWait
  <2>2. UNCHANGED <<world, wire, port>>
    BY <1>4, OtherFrame
  <2>3. QED
    BY <2>1, <2>2, HangFrame DEF WireInv, world, wire, port
<1>5. CASE Quit \/ Crash
  <2>1. Ended' /\ UNCHANGED <<world, wire, port>>
    BY <1>5 DEF Quit, Crash, Ended, At, Threads
  <2>2. QED
    BY <2>1 DEF WireInv, Answered, Ended, world, wire, port
<1>6. CASE Gone \/ UNCHANGED vars
  BY <1>6 DEF Gone, WireInv, Answered, Awaiting, Ended, vars, world, wire, port, At
<1>7. QED
  BY <1>1, <1>2, <1>3, <1>4, <1>5, <1>6 DEF Next, Other

-----------------------------------------------------------------------------
(* The age of the readings.                                                *)

LEMMA BehindRange ==
  ASSUME i \in 0 .. FIFO - 1, NEW n \in 0 .. FIFO - 1
  PROVE  /\ Behind(n) \in 0 .. FIFO - 1 /\ Since(n) \in 0 .. FIFO - 1
         /\ Behind(n) = 0 <=> n = i
  BY DEF Behind, Since

(* The closed key is read: a tick goes by for the others.                  *)
LEMMA TickSince ==
  ASSUME i \in 0 .. FIFO - 1, NEW n \in 0 .. FIFO - 1, i' = i,
         At("key", "tick"), ~At("key", "tick")'
  PROVE  IF n = i THEN Since(n)' = 0 ELSE Since(n)' = Since(n) + 1
  BY DEF Behind, Since

(* The index moves on to the oldest reading, and no tick goes by.          *)
LEMMA SoundSince ==
  ASSUME i \in 0 .. FIFO - 1, NEW n \in 0 .. FIFO - 1,
         i' = IF i >= FIFO - 1 THEN 0 ELSE i + 1, ~At("key", "tick"), At("key", "tick")'
  PROVE  Since(n)' = Since(n) /\ i' \in 0 .. FIFO - 1 /\ Since(i') = FIFO - 1
  BY DEF Behind, Since

(* What is read is one of two values, whatever the keyer's logic does.     *)
LEMMA KeyTickIs ==
  ASSUME KeyTick
  PROVE  /\ At("key", "tick")
         /\ UNCHANGED <<world, wire, port, i, tone, PTT_state, tones, astray, late>>
         /\ counted' = FALSE
         /\ \E down \in BOOLEAN :
              /\ key_FIFO' = [key_FIFO EXCEPT ![i] = down]
              /\ hang_time' = IF down THEN 0 ELSE hang_time
              /\ Goto("key", IF down /\ ~PTT_state THEN "send" ELSE "sound")
              /\ raced' = (raced \/ (down /\ PTT_state /\ Releasing))
<1> DEFINE keydown == IF iambic THEN Keyer!KeyDown(kl') ELSE ReadStraight(poll_status)
<1>1. keydown \in BOOLEAN
  BY Zenon DEF Keyer!KeyDown, ReadStraight
<1>2. /\ At("key", "tick") /\ counted' = FALSE
      /\ UNCHANGED <<world, wire, port, i, tone, PTT_state, tones, astray, late>>
      /\ key_FIFO' = [key_FIFO EXCEPT ![i] = keydown]
      /\ hang_time' = IF keydown THEN 0 ELSE hang_time
      /\ Goto("key", IF keydown /\ ~PTT_state THEN "send" ELSE "sound")
      /\ raced' = (raced \/ (keydown /\ PTT_state /\ Releasing))
  BY Zenon DEF KeyTick
<1> HIDE DEF keydown
<1>3. QED
  BY <1>1, <1>2, Zenon

(* What leaves the readings as they are.                                   *)
LEMMA HangSame ==
  ASSUME HangInv, UNCHANGED <<key_FIFO, i, tone, hang_time, counted, late>>,
         At("key", "tick")' <=> At("key", "tick")
  PROVE  HangInv'
<1>1. \A n \in 0 .. FIFO - 1 : Since(n)' = Since(n)
  BY DEF Since, Behind
<1>2. ToneSince' = ToneSince /\ Once' = Once
  BY DEF ToneSince, Once
<1>3. QED
  BY <1>1, <1>2 DEF HangInv

LEMMA HangTick == ASSUME PlaceInv, HangInv, KeyTick PROVE HangInv'
<1>1. PICK down \in BOOLEAN :
        /\ At("key", "tick") /\ i' = i /\ tone' = tone /\ counted' = FALSE /\ late' = late
        /\ key_FIFO' = [key_FIFO EXCEPT ![i] = down]
        /\ hang_time' = IF down THEN 0 ELSE hang_time
        /\ Goto("key", IF down /\ ~PTT_state THEN "send" ELSE "sound")
  BY KeyTickIs
<1>2. ~At("key", "tick")'
  BY <1>1 DEF At, Goto, PlaceInv, Threads
<1>3. i \in 0 .. FIFO - 1 /\ key_FIFO \in [0 .. FIFO - 1 -> BOOLEAN] /\ hang_time \in Nat
  BY DEF HangInv
<1>4. hang_time' \in Nat /\ hang_time' <= hang_time /\ key_FIFO' \in [0 .. FIFO - 1 -> BOOLEAN]
  BY <1>1, <1>3
<1>5. Once' = 0 /\ Once \in {0, 1}
  BY <1>1 DEF Once
<1>6. ASSUME ~late, NEW n \in 0 .. FIFO - 1, key_FIFO'[n]
      PROVE  hang_time' <= Since(n)' + Once'
  <2>1. Since(n) \in 0 .. FIFO - 1
    BY <1>3, BehindRange
  <2>2. CASE n = i
    <3>1. down /\ hang_time' = 0
      BY <1>1, <1>3, <1>6, <2>2
    <3>2. Since(n)' = 0
      BY <1>1, <1>2, <1>3, <2>2, TickSince
    <3>3. QED
      BY <1>5, <3>1, <3>2
  <2>3. CASE n # i
    <3>1. hang_time <= Since(n) + Once
      BY <1>1, <1>3, <1>6, <2>3 DEF HangInv
    <3>2. Since(n)' = Since(n) + 1
      BY <1>1, <1>2, <1>3, <2>3, TickSince
    <3>3. QED
      BY <1>3, <1>4, <1>5, <2>1, <3>1, <3>2
  <2>4. QED
    BY <2>2, <2>3
<1>7. ~late /\ tone' => hang_time' <= ToneSince' + Once'
  <2>1. ~late /\ tone => hang_time <= FIFO - 1 + Once
    BY <1>1 DEF HangInv, ToneSince
  <2>2. ToneSince' = FIFO
    BY <1>2 DEF ToneSince
  <2>3. QED
    BY <1>1, <1>3, <1>4, <1>5, <2>1, <2>2
<1>8. QED
  BY <1>1, <1>2, <1>3, <1>4, <1>6, <1>7 DEF HangInv

LEMMA HangSound == ASSUME PlaceInv, HangInv, KeySound PROVE HangInv'
<1>1. /\ ~At("key", "tick") /\ i' = (IF i >= FIFO - 1 THEN 0 ELSE i + 1)
      /\ tone' = key_FIFO[i'] /\ key_FIFO' = key_FIFO
      /\ hang_time' = hang_time /\ counted' = counted /\ Goto("key", "tick")
      /\ late' = (late /\ (tone' \/ \E n \in DOMAIN key_FIFO : key_FIFO[n]))
  BY DEF KeySound, At, ptt, Queued
<1>2. At("key", "tick")'
  BY <1>1 DEF At, Goto, PlaceInv, Threads
<1>3. i \in 0 .. FIFO - 1
  BY DEF HangInv
<1>4. \A n \in 0 .. FIFO - 1 :
        Since(n)' = Since(n) /\ i' \in 0 .. FIFO - 1 /\ Since(i') = FIFO - 1
  BY <1>1, <1>2, <1>3, SoundSince
<1>5. 0 \in 0 .. FIFO - 1
  OBVIOUS
<1>6. i' \in 0 .. FIFO - 1 /\ Since(i') = FIFO - 1
  BY <1>4, <1>5
<1>7. Once' = Once /\ ToneSince' = FIFO - 1
  BY <1>1, <1>2 DEF Once, ToneSince
<1>8. tone' \in BOOLEAN /\ (~late /\ tone' => hang_time <= FIFO - 1 + Once)
  BY <1>1, <1>6 DEF HangInv
<1>9. ~late' => ~late \/ (~tone' /\ \A n \in 0 .. FIFO - 1 : ~key_FIFO[n])
  BY <1>1 DEF HangInv
<1>10. late' \in BOOLEAN
  BY <1>1, Zenon DEF HangInv
<1>11. QED
  BY <1>1, <1>4, <1>6, <1>7, <1>8, <1>9, <1>10 DEF HangInv

LEMMA HangCount == ASSUME HangInv, TimerCount PROVE HangInv'
<1>1. /\ counted' = TRUE /\ hang_time' = hang_time + 1
      /\ key_FIFO' = key_FIFO /\ i' = i /\ tone' = tone
      /\ late' = (late \/ (counted /\ (tone \/ \E n \in DOMAIN key_FIFO : key_FIFO[n])))
  BY DEF TimerCount, keys, Queued
<1>2. Once' = 1 /\ (~counted => Once = 0)
  BY <1>1 DEF Once
<1>3. pc'["key"] = pc["key"]
  BY DEF TimerCount, Goto
<1>4. \A n \in 0 .. FIFO - 1 : Since(n)' = Since(n) /\ Since(n) \in 0 .. FIFO - 1
  BY <1>1, <1>3, BehindRange DEF HangInv, Since, Behind, At
<1>5. ToneSince' = ToneSince /\ ToneSince \in Nat
  BY <1>3 DEF ToneSince, At
<1>6. late' \in BOOLEAN
  BY <1>1, Zenon DEF HangInv
<1>7. ~late' => /\ ~late
                /\ ~counted \/ (~tone /\ \A n \in 0 .. FIFO - 1 : ~key_FIFO[n])
  BY <1>1 DEF HangInv
<1>8. QED
  BY <1>1, <1>2, <1>3, <1>4, <1>5, <1>6, <1>7 DEF HangInv, At

LEMMA HangStep ==
  ASSUME PlaceInv, HangInv, [Next]_vars, ~Ended, ~Ended'
  PROVE  HangInv'
<1>1. CASE MovePaddles \/ Radio \/ UNCHANGED vars \/ Gone
  <2>1. UNCHANGED <<pc, key_FIFO, i, tone, hang_time, counted, late>>
    BY <1>1 DEF MovePaddles, Radio, Gone, vars, keys, ptt, notes
  <2>2. QED
    BY <2>1, HangSame DEF At
<1>2. CASE \E t \in Threads : SendCommand(t)
  <2>1. PICK t \in Threads : SendCommand(t)
    BY <1>2
  <2>2. UNCHANGED <<key_FIFO, i, tone, hang_time, counted, late>>
    BY <2>1, SendFrame DEF keys, ptt
  <2>3. At("key", "tick")' <=> At("key", "tick")
    BY <2>1, SendMoves DEF At, Sending, Threads
  <2>4. QED
    BY <2>2, <2>3, HangSame
<1>3. CASE KeyTick
  BY <1>3, HangTick
<1>4. CASE KeySound
  BY <1>4, HangSound
<1>5. CASE TimerCount
  BY <1>5, HangCount
<1>6. CASE PollSleep \/ Polled \/ KeyKeyed \/ ReadFreq \/ FreqSet
  <2>1. UNCHANGED <<key_FIFO, i, tone, hang_time, counted, late>>
    BY <1>6 DEF PollSleep, Polled, KeyKeyed, ReadFreq, FreqSet, keys, ptt, notes
  <2>2. At("key", "tick")' <=> At("key", "tick")
    BY <1>6 DEF PollSleep, Polled, KeyKeyed, ReadFreq, FreqSet, At, Goto, PlaceInv, Threads
  <2>3. QED
    BY <2>1, <2>2, HangSame
<1>7. CASE TimerReleased
  <2>1. /\ UNCHANGED <<key_FIFO, i, tone, counted, late>> /\ hang_time' = 0
        /\ pc'["key"] = pc["key"]
    BY <1>7 DEF TimerReleased, keys, notes, Goto
  <2>2. \A n \in 0 .. FIFO - 1 : Since(n)' = Since(n) /\ Since(n) \in 0 .. FIFO - 1
    BY <2>1, BehindRange DEF HangInv, Since, Behind, At
  <2>3. ToneSince' \in Nat /\ Once' \in Nat
    <3>1. ToneSince' = FIFO - 1 \/ ToneSince' = FIFO
      BY DEF ToneSince
    <3>2. Once' = 0 \/ Once' = 1
      BY DEF Once
    <3>3. QED
      BY <3>1, <3>2
  <2>4. \A n \in 0 .. FIFO - 1 : hang_time' <= Since(n)' + Once'
    BY <2>1, <2>2, <2>3
  <2>5. hang_time' \in Nat /\ hang_time' <= ToneSince' + Once'
    <3> DEFINE u == ToneSince'
               v == Once'
    <3>1. u \in Nat /\ v \in Nat /\ hang_time' = 0
      BY <2>1, <2>3
    <3> HIDE DEF u, v
    <3>2. 0 <= u + v
      BY ONLY <3>1
    <3>3. hang_time' <= u + v
      BY <3>1, <3>2
    <3>4. QED
      BY <3>1, <3>3 DEF u, v
  <2>6. QED
    BY <2>1, <2>4, <2>5 DEF HangInv, At
<1>8. CASE Quit \/ Crash
  BY <1>8 DEF Quit, Crash, Ended, At, Threads
<1>9. QED
  BY <1>1, <1>2, <1>3, <1>4, <1>5, <1>6, <1>7, <1>8 DEF Next

-----------------------------------------------------------------------------
(* The state of the transmitter, as the two threads have it.               *)

(* A count beyond the hang time: nothing closed is left to be heard.       *)
LEMMA CountedOut ==
  HangInv /\ ~late /\ hang_time > Threshold =>
    ~tone /\ \A n \in 0 .. FIFO - 1 : ~key_FIFO[n]
<1> SUFFICES ASSUME HangInv, ~late, hang_time > Threshold
             PROVE  ~tone /\ \A n \in 0 .. FIFO - 1 : ~key_FIFO[n]
  OBVIOUS
<1>1. Once \in {0, 1} /\ ToneSince \in 0 .. FIFO
  BY DEF Once, ToneSince
<1>2. \A n \in 0 .. FIFO - 1 : Since(n) \in 0 .. FIFO - 1
  BY BehindRange DEF HangInv
<1>3. QED
  BY <1>1, <1>2 DEF HangInv

LEMMA CountedOutNext ==
  (HangInv /\ ~late /\ hang_time > Threshold =>
     ~tone /\ \A n \in 0 .. FIFO - 1 : ~key_FIFO[n])'
  BY CountedOut, PTL

LEMMA PttSame ==
  ASSUME PttInv, UNCHANGED <<key_FIFO, tone, PTT_state, raced, late>>,
         Keying' <=> Keying, Releasing' <=> Releasing
  PROVE  PttInv'
  BY DEF PttInv

LEMMA PttTick == ASSUME PlaceInv, HangInv, PttInv, KeyTick PROVE PttInv'
<1>1. PICK down \in BOOLEAN :
        /\ At("key", "tick") /\ tone' = tone /\ PTT_state' = PTT_state /\ late' = late
        /\ key_FIFO' = [key_FIFO EXCEPT ![i] = down]
        /\ Goto("key", IF down /\ ~PTT_state THEN "send" ELSE "sound")
        /\ raced' = (raced \/ (down /\ PTT_state /\ Releasing))
  BY KeyTickIs
<1>2. ~Keying
  BY <1>1 DEF Keying, Sending, At
<1>3. Keying' <=> down /\ ~PTT_state
  BY <1>1 DEF Keying, Sending, Goto, PlaceInv, Threads
<1>4. Releasing' <=> Releasing
  BY <1>1 DEF Releasing, Sending, Goto, At
<1>5. \A n \in 0 .. FIFO - 1 : key_FIFO'[n] => (n = i /\ down) \/ key_FIFO[n]
  BY <1>1 DEF HangInv
<1>6. QED
  BY <1>1, <1>2, <1>3, <1>4, <1>5 DEF PttInv

LEMMA PttSound == ASSUME PlaceInv, HangInv, HangInv', PttInv, KeySound PROVE PttInv'
<1>1. /\ At("key", "sound") /\ tone' = key_FIFO[i'] /\ key_FIFO' = key_FIFO
      /\ raced' = (raced /\ (tone' \/ \E n \in DOMAIN key_FIFO : key_FIFO[n]))
      /\ late' = (late /\ (tone' \/ \E n \in DOMAIN key_FIFO : key_FIFO[n]))
      /\ PTT_state' = PTT_state /\ Goto("key", "tick")
  BY DEF KeySound, ptt, Queued
<1>2. ~Keying /\ ~Keying' /\ (Releasing' <=> Releasing)
  BY <1>1 DEF Keying, Releasing, Sending, At, Goto, PlaceInv, Threads
<1>3. i' \in 0 .. FIFO - 1 /\ DOMAIN key_FIFO = 0 .. FIFO - 1
  BY DEF HangInv
<1>4. QED
  BY <1>1, <1>2, <1>3 DEF PttInv

LEMMA PttStep ==
  ASSUME PlaceInv, HangInv, HangInv', PttInv, [Next]_vars, ~Ended, ~Ended'
  PROVE  PttInv'
<1>1. CASE MovePaddles \/ Radio \/ UNCHANGED vars \/ Gone
  <2>1. UNCHANGED <<pc, key_FIFO, tone, PTT_state, raced, late>>
    BY <1>1 DEF MovePaddles, Radio, Gone, vars, keys, ptt, notes
  <2>2. QED
    BY <2>1, PttSame DEF Keying, Releasing, Sending, At
<1>2. CASE \E t \in Threads : SendCommand(t)
  <2>1. PICK t \in Threads : SendCommand(t)
    BY <1>2
  <2>2. UNCHANGED <<key_FIFO, tone, PTT_state, raced, late>>
    BY <2>1, SendFrame DEF keys, ptt
  <2>3. /\ pc[t] \in Sending /\ pc'[t] \in Sending
        /\ \A s \in Threads \ {t} : pc'[s] = pc[s]
    BY <2>1, SendMoves
  <2>4. (Keying' <=> Keying) /\ (Releasing' <=> Releasing)
    BY <2>3 DEF Keying, Releasing, At, Sending, Threads
  <2>5. QED
    BY <2>2, <2>4, PttSame
<1>3. CASE KeyTick
  BY <1>3, PttTick
<1>4. CASE KeySound
  BY <1>4, PttSound
<1>5. CASE TimerCount
  <2>1. /\ At("timer", "sleep") /\ PTT_state = TRUE /\ PTT_state' = PTT_state
        /\ UNCHANGED <<key_FIFO, tone, raced>> /\ (late => late')
        /\ Goto("timer", IF hang_time' > Threshold THEN "send" ELSE "sleep")
    BY <1>5 DEF TimerCount, keys, PttInv
  <2>2. pc'["key"] = pc["key"] /\ (Releasing' => hang_time' > Threshold)
    BY <2>1 DEF Releasing, Sending, At, Goto, PlaceInv, Threads
  <2>3. Keying' <=> Keying
    BY <2>2 DEF Keying
  <2>4. Releasing' /\ ~late' => ~tone' /\ \A n \in 0 .. FIFO - 1 : ~key_FIFO'[n]
    BY <2>2, CountedOutNext
  <2>5. QED
    BY <2>1, <2>3, <2>4 DEF PttInv
<1>6. CASE PollSleep \/ Polled \/ ReadFreq \/ FreqSet
  <2>1. UNCHANGED <<key_FIFO, tone, PTT_state, raced, late>>
    BY <1>6 DEF PollSleep, Polled, ReadFreq, FreqSet, keys, ptt, notes
  <2>2. pc'["key"] = pc["key"] /\ pc'["timer"] = pc["timer"]
    BY <1>6 DEF PollSleep, Polled, ReadFreq, FreqSet, Goto, PlaceInv, Threads
  <2>3. QED
    BY <2>1, <2>2, PttSame DEF Keying, Releasing, Sending, At
<1>7. CASE KeyKeyed
  <2>1. /\ UNCHANGED <<key_FIFO, tone, raced, late>> /\ PTT_state' = TRUE /\ At("key", "sent")
        /\ Goto("key", "sound")
    BY <1>7 DEF KeyKeyed, keys, notes
  <2>2. Keying /\ ~Keying' /\ (Releasing' <=> Releasing)
    BY <2>1 DEF Keying, Releasing, Sending, At, Goto, PlaceInv, Threads
  <2>3. QED
    BY <2>1, <2>2 DEF PttInv
<1>8. CASE TimerReleased
  <2>1. /\ UNCHANGED <<key_FIFO, tone, raced, late>> /\ PTT_state' = FALSE /\ At("timer", "sent")
        /\ Goto("timer", "sleep")
    BY <1>8 DEF TimerReleased, keys, notes
  <2>2. Releasing /\ ~Releasing' /\ (Keying' <=> Keying)
    BY <2>1 DEF Keying, Releasing, Sending, At, Goto, PlaceInv, Threads
  <2>3. QED
    BY <2>1, <2>2 DEF PttInv
<1>9. CASE Quit \/ Crash
  BY <1>9 DEF Quit, Crash, Ended, At, Threads
<1>10. QED
  BY <1>1, <1>2, <1>3, <1>4, <1>5, <1>6, <1>7, <1>8, <1>9 DEF Next

-----------------------------------------------------------------------------
(* The key thread's datagram, on its way there and back.                   *)

LEMMA OwnAppend ==
  ASSUME NEW S, NEW q \in Seq(S), NEW d \in S
  PROVE  /\ Len(Append(q, d)) = Len(q) + 1 /\ Append(q, d)[Len(q) + 1] = d
         /\ \A j \in 1 .. Len(q) : Append(q, d)[j] = q[j]
         /\ Own(Append(q, d)) = IF d.from = "key" THEN Own(q) \cup {Len(q) + 1} ELSE Own(q)
<1>1. /\ Len(Append(q, d)) = Len(q) + 1 /\ Append(q, d)[Len(q) + 1] = d
      /\ \A j \in 1 .. Len(q) : Append(q, d)[j] = q[j]
      /\ Len(q) \in Nat
  BY AppendProperties, LenProperties
<1> DEFINE r == Append(q, d)
<1>2. Len(r) = Len(q) + 1 /\ r[Len(q) + 1] = d /\ \A j \in 1 .. Len(q) : r[j] = q[j]
  BY <1>1
<1> HIDE DEF r
<1>3. Own(r) = IF d.from = "key" THEN Own(q) \cup {Len(q) + 1} ELSE Own(q)
  BY <1>1, <1>2 DEF Own
<1>4. QED
  BY <1>1, <1>3 DEF r

LEMMA OwnTail ==
  ASSUME NEW S, NEW q \in Seq(S), q # <<>>
  PROVE  /\ Len(q) \in Nat \ {0} /\ Len(Tail(q)) = Len(q) - 1 /\ Head(q) = q[1]
         /\ \A j \in 1 .. Len(q) - 1 : Tail(q)[j] = q[j + 1]
         /\ \A j \in Own(Tail(q)) : j \in 1 .. Len(q) - 1 /\ j + 1 \in Own(q)
         /\ \A j \in Own(q) : j > 1 => j - 1 \in Own(Tail(q))
         /\ 1 \in Own(q) <=> Head(q).from = "key"
<1>1. /\ Len(q) \in Nat \ {0} /\ Len(Tail(q)) = Len(q) - 1 /\ Head(q) = q[1]
      /\ \A j \in 1 .. Len(q) - 1 : Tail(q)[j] = q[j + 1]
  BY HeadTailProperties, EmptySeq, LenProperties
<1> DEFINE r == Tail(q)
<1>2. Len(r) = Len(q) - 1 /\ \A j \in 1 .. Len(q) - 1 : r[j] = q[j + 1]
  BY <1>1
<1> HIDE DEF r
<1>3. \A j \in Own(r) : j \in 1 .. Len(q) - 1 /\ j + 1 \in Own(q)
  BY <1>1, <1>2 DEF Own
<1>4. \A j \in Own(q) : j > 1 => j - 1 \in Own(r)
  <2> SUFFICES ASSUME NEW j \in Own(q), j > 1 PROVE j - 1 \in Own(r)
    OBVIOUS
  <2>1. j \in 1 .. Len(q) /\ q[j].from = "key"
    BY DEF Own
  <2>2. j - 1 \in 1 .. Len(q) - 1 /\ j - 1 + 1 = j
    BY <1>1, <2>1
  <2>3. r[j - 1] = q[j]
    BY <1>2, <2>2
  <2>4. QED
    BY <1>2, <2>1, <2>2, <2>3 DEF Own
<1>5. 1 \in Own(q) <=> Head(q).from = "key"
  BY <1>1 DEF Own
<1>6. QED
  BY <1>1, <1>3, <1>4, <1>5 DEF r

LEMMA OwnSame ==
  ASSUME OwnInv, UNCHANGED <<requests, replies>>, "key" \in Awaiting => "key" \in Awaiting'
  PROVE  OwnInv'
  BY DEF OwnInv, Own

LEMMA OnSame ==
  ASSUME OnInv, UNCHANGED <<requests, radio>>, On' => On,
         \/ buff' # "ptt off"
         \/ buff' = buff /\ (Composed' \/ On' => Composed \/ On)
  PROVE  OnInv'
  BY DEF OnInv, Own

(* What the radio takes and hands back.                                    *)
LEMMA RadioIs ==
  ASSUME WireInv, Radio
  PROVE  /\ requests \in Seq(Datagram) /\ requests # <<>> /\ requests' = Tail(requests)
         /\ replies \in Seq(Answer)
         /\ \/ replies' = replies
            \/ \E a \in Answer : a.from = Head(requests).from /\ replies' = Append(replies, a)
         /\ Head(requests).what = "ptt on" => radio'
         /\ Head(requests).what \notin {"ptt on", "ptt off"} => radio' = radio
         /\ UNCHANGED <<world, pc, port, keys, ptt, tones, notes>>
<1> DEFINE h == Head(requests)
           a == [from |-> h.from, what |-> h.what,
                 param |-> IF h.what = "get keys" THEN paddles ELSE {}]
<1>1. /\ requests # <<>> /\ requests' = Tail(requests)
      /\ replies' = IF link = "open" \/ \E t \in Threads : At(t, "blocked")
                    THEN Append(replies, a) ELSE replies
      /\ UNCHANGED <<world, pc, port, keys, ptt, tones, notes>>
      /\ radio' = CASE h.what = "ptt on" -> TRUE [] h.what = "ptt off" -> FALSE
                    [] OTHER -> radio
  BY DEF Radio
<1>2. requests \in Seq(Datagram) /\ replies \in Seq(Answer)
  BY DEF WireInv
<1>3. h \in Datagram
  BY <1>1, <1>2, HeadTailProperties
<1>4. a \in Answer /\ a.from = h.from
  BY <1>3, SoftRockAssumption DEF WireInv, Datagram, Answer
<1>5. /\ h.what = "ptt on" => radio'
      /\ h.what \notin {"ptt on", "ptt off"} => radio' = radio
  BY <1>1, Zenon
<1> HIDE DEF a, h
<1>6. QED
  BY <1>1, <1>2, <1>4, <1>5 DEF h

LEMMA OwnRadio == ASSUME WireInv, OwnInv, Radio PROVE OwnInv'
<1>1. /\ requests \in Seq(Datagram) /\ requests # <<>> /\ requests' = Tail(requests)
      /\ replies \in Seq(Answer) /\ pc' = pc
      /\ \/ replies' = replies
         \/ \E a \in Answer : a.from = Head(requests).from /\ replies' = Append(replies, a)
  BY RadioIs
<1>2. /\ Len(requests) \in Nat \ {0}
      /\ \A j \in 1 .. Len(requests) - 1 : requests'[j] = requests[j + 1]
      /\ \A j \in Own(requests') : j \in 1 .. Len(requests) - 1 /\ j + 1 \in Own(requests)
      /\ 1 \in Own(requests) <=> Head(requests).from = "key"
  BY <1>1, OwnTail
<1>0. /\ \A j \in Own(requests) : requests[j].what = "ptt on"
      /\ \A j, l \in Own(requests) : j = l
      /\ Own(requests) = {} \/ Own(replies) = {}
      /\ "key" \notin Awaiting => Own(requests) = {} /\ Own(replies) = {}
  BY DEF OwnInv
<1>3. /\ \A j \in Own(requests') : requests'[j].what = "ptt on"
      /\ \A j, l \in Own(requests') : j = l
  <2>1. ASSUME NEW j \in Own(requests') PROVE requests'[j].what = "ptt on"
    BY ONLY <1>0, <1>2, <2>1
  <2>2. ASSUME NEW j \in Own(requests'), NEW l \in Own(requests') PROVE j = l
    <3>1. /\ j \in 1 .. Len(requests) - 1 /\ j + 1 \in Own(requests)
          /\ l \in 1 .. Len(requests) - 1 /\ l + 1 \in Own(requests)
      BY <1>2
    <3>2. j + 1 = l + 1
      BY <1>0, <3>1
    <3>3. QED
      BY <1>2, <3>1, <3>2
  <2>3. QED
    BY <2>1, <2>2
<1>4. 1 \in Own(requests) => Own(requests') = {} /\ Own(replies) = {} /\ "key" \in Awaiting
  <2> SUFFICES ASSUME 1 \in Own(requests)
               PROVE  Own(requests') = {} /\ Own(replies) = {} /\ "key" \in Awaiting
    OBVIOUS
  <2>1. ASSUME NEW j \in Own(requests') PROVE FALSE
    <3>1. j \in 1 .. Len(requests) - 1 /\ j + 1 \in Own(requests)
      BY <1>2
    <3>2. j + 1 = 1
      BY <1>0, <3>1
    <3>3. QED
      BY <1>2, <3>1, <3>2
  <2>2. QED
    BY <1>0, <2>1, Zenon
<1>5. Own(requests) = {} => Own(requests') = {}
  BY <1>2
<1>6. Own(replies') = Own(replies)
        \/ (1 \in Own(requests) /\ Own(replies') = Own(replies) \cup {Len(replies) + 1})
  <2>1. CASE replies' = replies
    BY <2>1
  <2>2. CASE \E a \in Answer : a.from = Head(requests).from /\ replies' = Append(replies, a)
    BY <1>1, <1>2, <2>2, OwnAppend
  <2>3. QED
    BY <1>1, <2>1, <2>2
<1>7. Awaiting' = Awaiting
  BY <1>1 DEF Awaiting, AtWait
<1>8. QED
  BY <1>3, <1>4, <1>5, <1>6, <1>7 DEF OwnInv, Own

(* Until the key thread's datagram is taken it is the last word; once it   *)
(* is, the transmitter is on.                                              *)
LEMMA OnRadio == ASSUME WireInv, OwnInv, OnInv, Radio PROVE OnInv'
<1>1. /\ requests \in Seq(Datagram) /\ requests # <<>> /\ requests' = Tail(requests)
      /\ Head(requests).what = "ptt on" => radio'
      /\ Head(requests).what \notin {"ptt on", "ptt off"} => radio' = radio
      /\ pc' = pc /\ buff' = buff /\ PTT_state' = PTT_state
  BY RadioIs DEF port, ptt
<1>2. /\ Len(requests) \in Nat \ {0} /\ Len(requests') = Len(requests) - 1
      /\ Head(requests) = requests[1]
      /\ \A j \in 1 .. Len(requests) - 1 : requests'[j] = requests[j + 1]
      /\ \A j \in Own(requests) : j > 1 => j - 1 \in Own(requests')
  BY <1>1, OwnTail
<1>3. Own(requests) \subseteq 1 .. Len(requests)
  BY DEF Own
<1>4. (On' <=> On) /\ (Composed' <=> Composed)
  BY <1>1 DEF On, Awaiting, Telling, At, Composed
<1>5. ASSUME On
      PROVE  /\ \A j \in 1 .. Len(requests') :
                   requests'[j].what = "ptt off" => \E l \in Own(requests') : j < l
             /\ radio' \/ Own(requests') # {}
  <2>1. /\ \A j \in 1 .. Len(requests) :
              requests[j].what = "ptt off" => \E l \in Own(requests) : j < l
        /\ radio \/ Own(requests) # {}
    BY <1>5 DEF OnInv
  <2>2. ASSUME NEW j \in 1 .. Len(requests'), requests'[j].what = "ptt off"
        PROVE  \E l \in Own(requests') : j < l
    <3>1. j \in 1 .. Len(requests) - 1 /\ j + 1 \in 1 .. Len(requests)
      BY <1>2
    <3>2. requests[j + 1].what = "ptt off"
      BY <1>2, <2>2, <3>1
    <3>3. PICK l \in Own(requests) : j + 1 < l
      BY <2>1, <3>1, <3>2
    <3>4. l \in 1 .. Len(requests)
      BY <1>3
    <3>5. l - 1 \in Own(requests') /\ j < l - 1
      BY <1>2, <3>1, <3>3, <3>4
    <3>6. QED
      BY <3>5
  <2>3. ASSUME NEW l \in Own(requests), l # 1 PROVE Own(requests') # {}
    <3>1. l \in 1 .. Len(requests)
      BY <1>3
    <3>2. l - 1 \in Own(requests')
      BY <1>2, <2>3, <3>1
    <3>3. QED
      BY <3>2
  <2>4. radio' \/ Own(requests') # {}
    <3>1. CASE requests[1].what = "ptt on"
      BY <1>1, <1>2, <3>1
    <3>2. CASE requests[1].what = "ptt off"
      <4>1. 1 \in 1 .. Len(requests)
        BY <1>2
      <4>2. PICK l \in Own(requests) : 1 < l
        BY <2>1, <3>2, <4>1
      <4>3. QED
        BY <2>3, <4>2
    <3>3. CASE requests[1].what \notin {"ptt on", "ptt off"}
      <4>1. CASE radio
        BY <1>1, <1>2, <3>3, <4>1
      <4>2. CASE ~radio
        <5>1. PICK l \in Own(requests) : TRUE
          BY <2>1, <4>2
        <5>2. requests[l].what = "ptt on"
          BY DEF OwnInv
        <5>3. l # 1
          BY <3>3, <5>2
        <5>4. QED
          BY <2>3, <5>3
      <4>3. QED
        BY <4>1, <4>2
    <3>4. QED
      BY <3>1, <3>2, <3>3
  <2>5. QED
    BY <2>2, <2>4
<1>6. QED
  BY <1>1, <1>4, <1>5 DEF OnInv

(* sendto of the key thread: now it is the last word.                      *)
LEMMA KeyTransmit ==
  ASSUME PlaceInv, WireInv, OwnInv, OnInv, Transmit("key"), ~astray'
  PROVE  OwnInv' /\ OnInv'
<1>1. /\ pc["key"] = "blast" /\ replies' = replies /\ radio' = radio
      /\ buff' = Kept("key", buff) /\ Goto("key", "check")
  BY DEF Transmit, At
<1>2. buff = "ptt on" /\ used = "ptt on"
  <2>1. astray' = (astray \/ (Keys("key") /\ {buff, used} # {Command("key")}))
    BY Zenon DEF Transmit
  <2>2. {buff, used} = {Command("key")}
    BY <2>1, Zenon DEF Keys
  <2>3. Command("key") = "ptt on"
    BY DEF Command
  <2>4. QED
    BY <2>2, <2>3
<1>3. PICK what \in Blasted : requests' = Append(requests, [from |-> "key", what |-> what])
  BY DEF Transmit
<1> DEFINE d == [from |-> "key", what |-> what]
           n == Len(requests) + 1
<1>4. requests \in Seq(Datagram) /\ d \in Datagram /\ d.from = "key" /\ d.what = "ptt on"
  BY <1>2, BlastedIs DEF WireInv, Datagram, Threads, Said
<1>5. pc'["key"] = "check"
  BY <1>1 DEF PlaceInv, Goto, Threads
<1>6. "key" \notin Awaiting /\ "key" \in Awaiting'
  BY <1>1, <1>5 DEF Awaiting, AtWait, Threads
<1>7. Own(requests) = {} /\ Own(replies) = {}
  BY <1>6 DEF OwnInv
<1> HIDE DEF d
<1>8. /\ Len(requests') = n /\ requests'[n] = d
      /\ \A j \in 1 .. Len(requests) : requests'[j] = requests[j]
      /\ Own(requests') = Own(requests) \cup {n}
  <2> DEFINE q == Append(requests, d)
  <2>0. requests \in Seq(Datagram) /\ d \in Datagram
    BY <1>4
  <2>1. /\ Len(q) = n /\ q[n] = d
        /\ \A j \in 1 .. Len(requests) : q[j] = requests[j]
        /\ Own(q) = IF d.from = "key" THEN Own(requests) \cup {n} ELSE Own(requests)
    BY ONLY <2>0, OwnAppend
  <2> HIDE DEF q
  <2>2. requests' = q
    BY <1>3 DEF q, d
  <2>3. Own(requests') = Own(requests) \cup {n}
    BY <1>4, <2>1, <2>2, Zenon
  <2>4. QED
    BY <2>1, <2>2, <2>3
<1>9. Len(requests) \in Nat
  BY <1>4, LenProperties
<1> HIDE DEF n
<1>10. OwnInv'
  <2>1. Own(requests') = {n} /\ Own(replies') = {}
    BY <1>1, <1>7, <1>8
  <2>2. QED
    BY <1>4, <1>6, <1>8, <2>1 DEF OwnInv
<1>11. buff' \in {"", "ptt on"}
  BY <1>1, <1>2, KeptIs DEF Said
<1>12. ASSUME NEW j \in 1 .. Len(requests'), requests'[j].what = "ptt off"
       PROVE  \E l \in Own(requests') : j < l
  <2>1. j # n
    BY <1>4, <1>8, <1>12
  <2>2. j < n /\ n \in Own(requests')
    BY <1>8, <1>9, <2>1 DEF n
  <2>3. QED
    BY <2>2
<1>13. Own(requests') # {}
  BY <1>8
<1>14. QED
  BY <1>10, <1>11, <1>12, <1>13 DEF OnInv

(* sendto of another thread, with whatever the buffer holds.               *)
LEMMA OtherTransmit ==
  ASSUME PlaceInv, WireInv, OwnInv, OnInv, NEW t \in Threads \ {"key"}, Transmit(t)
  PROVE  OwnInv' /\ OnInv'
<1>1. /\ pc[t] = "blast" /\ replies' = replies /\ radio' = radio /\ PTT_state' = PTT_state
      /\ buff' = Kept(t, buff) /\ Goto(t, "check")
  BY DEF Transmit, At, ptt
<1>2. PICK what \in Blasted : requests' = Append(requests, [from |-> t, what |-> what])
  BY DEF Transmit
<1> DEFINE d == [from |-> t, what |-> what]
           n == Len(requests) + 1
<1>3. /\ requests \in Seq(Datagram) /\ d \in Datagram /\ d.from # "key" /\ buff \in Said
      /\ what \in {buff, "cut"}
  BY BlastedIs DEF WireInv, Datagram
<1>4. /\ pc'["key"] = pc["key"] /\ pc'[t] = "check"
      /\ \A s \in Threads \ {t} : pc'[s] = pc[s]
  BY <1>1 DEF PlaceInv, Goto, Threads
<1>5. ("key" \in Awaiting' <=> "key" \in Awaiting) /\ (Telling' <=> Telling)
  BY <1>1, <1>4 DEF Awaiting, AtWait, Telling, Sending, Threads
<1>6. (On' <=> On) /\ (Composed' <=> Composed)
  BY <1>1, <1>4, <1>5 DEF On, At, Composed
<1>7. buff' \in {"", buff}
  BY <1>1, <1>3, KeptIs
<1>8. requests' = Append(requests, d)
  BY <1>2
<1>9. OwnInv' /\ OnInv'
  <2>1. d.what \in {buff, "cut"}
    BY <1>3
  <2> HIDE DEF d
  <2>2. /\ Len(requests') = n /\ requests'[n] = d
        /\ \A j \in 1 .. Len(requests) : requests'[j] = requests[j]
        /\ Own(requests') = Own(requests)
    BY <1>3, <1>8, OwnAppend
  <2>3. Len(requests) \in Nat /\ Own(requests) \subseteq 1 .. Len(requests)
    BY <1>3, LenProperties DEF Own
  <2>4. \A j \in Own(requests') : requests'[j].what = "ptt on"
    BY <2>2, <2>3 DEF OwnInv
  <2>5. OwnInv'
    BY <1>1, <1>5, <2>2, <2>4 DEF OwnInv
  <2>6. ASSUME On
        PROVE  /\ \A j \in 1 .. Len(requests') :
                     requests'[j].what = "ptt off" => \E l \in Own(requests') : j < l
               /\ radio' \/ Own(requests') # {}
    <3>1. buff # "ptt off" /\ (radio \/ Own(requests) # {})
      BY <2>6 DEF OnInv
    <3>2. ASSUME NEW j \in 1 .. Len(requests'), requests'[j].what = "ptt off"
          PROVE  \E l \in Own(requests') : j < l
      <4>1. j # n
        BY <2>1, <2>2, <3>1, <3>2
      <4>2. j \in 1 .. Len(requests)
        BY <2>2, <2>3, <4>1
      <4>3. requests[j].what = "ptt off"
        BY <2>2, <3>2, <4>2
      <4>4. QED
        BY <2>2, <2>6, <4>2, <4>3 DEF OnInv
    <3>3. QED
      BY <1>1, <2>2, <3>1, <3>2
  <2>7. QED
    BY <1>6, <1>7, <2>5, <2>6 DEF OnInv
<1>10. QED
  BY <1>9

(* recvfrom of the key thread, of its own answer: the transmitter is on.   *)
LEMMA KeyReceive ==
  ASSUME PlaceInv, WireInv, OwnInv, OnInv, Receive("key"), ~astray'
  PROVE  OwnInv' /\ OnInv'
<1>1. /\ pc["key"] \in {"recv", "blocked"} /\ replies # <<>> /\ replies' = Tail(replies)
      /\ requests' = requests /\ radio' = radio /\ buff' = Kept("key", "ok")
  BY DEF Receive, Receiving, At
<1>2. Head(replies).from = "key"
  BY Zenon DEF Receive, Receiving, Keys
<1>3. "key" \in Awaiting
  BY <1>1 DEF Awaiting, AtWait, Threads
<1>4. replies \in Seq(Answer)
  BY DEF WireInv
<1>5. /\ Len(replies) \in Nat \ {0}
      /\ \A j \in Own(replies') : j \in 1 .. Len(replies) - 1 /\ j + 1 \in Own(replies)
      /\ 1 \in Own(replies)
  BY <1>1, <1>2, <1>4, OwnTail
<1>6. \A j, l \in Own(replies) : j = l
  BY DEF OwnInv
<1>7. Own(requests) = {}
  BY <1>5 DEF OwnInv
<1>8. ASSUME NEW j \in Own(replies') PROVE FALSE
  <2>1. j \in 1 .. Len(replies) - 1 /\ j + 1 = 1
    BY <1>5, <1>6
  <2>2. QED
    BY <1>5, <2>1
<1>9. Own(replies') = {} /\ Own(requests') = {}
  BY <1>1, <1>7, <1>8
<1>10. OwnInv'
  BY <1>9 DEF OwnInv
<1>11. buff' # "ptt off"
  BY <1>1, KeptIs DEF Said
<1>12. On
  BY <1>3 DEF On
<1>13. radio /\ \A j \in 1 .. Len(requests) : requests[j].what # "ptt off"
  BY <1>7, <1>12 DEF OnInv
<1>14. QED
  BY <1>1, <1>10, <1>11, <1>13 DEF OnInv

(* recvfrom of another thread, of anybody's answer.                        *)
LEMMA OtherReceive ==
  ASSUME PlaceInv, WireInv, OwnInv, OnInv, NEW t \in Threads \ {"key"}, Receive(t)
  PROVE  OwnInv' /\ OnInv'
<1>1. /\ pc[t] \in {"recv", "blocked"} /\ replies # <<>> /\ replies' = Tail(replies)
      /\ requests' = requests /\ radio' = radio /\ buff' = Kept(t, "ok")
      /\ PTT_state' = PTT_state /\ Goto(t, "sent")
  BY DEF Receive, Receiving, At, Return, ptt
<1>2. pc'["key"] = pc["key"] /\ pc'[t] = "sent" /\ \A s \in Threads \ {t} : pc'[s] = pc[s]
  BY <1>1 DEF PlaceInv, Goto, Threads
<1>3. ("key" \in Awaiting' <=> "key" \in Awaiting) /\ (Telling' <=> Telling)
  BY <1>1, <1>2 DEF Awaiting, AtWait, Telling, Sending, Threads
<1>4. (On' <=> On) /\ (Composed' <=> Composed)
  BY <1>1, <1>2, <1>3 DEF On, At, Composed
<1>5. replies \in Seq(Answer)
  BY DEF WireInv
<1>6. /\ Len(replies) \in Nat \ {0}
      /\ \A j \in Own(replies') : j \in 1 .. Len(replies) - 1 /\ j + 1 \in Own(replies)
  BY <1>1, <1>5, OwnTail
<1>7. \A j, l \in Own(replies) : j = l
  BY DEF OwnInv
<1>8. ASSUME NEW j \in Own(replies'), NEW l \in Own(replies') PROVE j = l
  <2>1. j \in 1 .. Len(replies) - 1 /\ l \in 1 .. Len(replies) - 1 /\ j + 1 = l + 1
    BY <1>6, <1>7
  <2>2. QED
    BY <1>6, <2>1
<1>9. Own(replies) = {} => Own(replies') = {}
  BY <1>6
<1>10. OwnInv'
  BY <1>1, <1>3, <1>8, <1>9 DEF OwnInv
<1>11. buff' # "ptt off"
  BY <1>1, KeptIs DEF Said
<1>12. QED
  BY <1>1, <1>4, <1>10, <1>11, OnSame

(* The rest of send_command: only a thread that keys nothing gives up, and *)
(* the timer writes its command when the key thread has none.              *)
LEMMA KeyedSend ==
  ASSUME PlaceInv, WireInv, PttInv, KeyedInv, NEW t \in Threads, SendCommand(t)
  PROVE  KeyedInv'
<1> SUFFICES ASSUME ~astray' PROVE OwnInv' /\ OnInv'
  BY DEF KeyedInv
<1>1. OwnInv /\ OnInv
  BY SendFrame DEF KeyedInv
<1>2. /\ PTT_state' = PTT_state /\ pc[t] \in Sending /\ pc'[t] \in Sending
      /\ \A s \in Threads \ {t} : pc'[s] = pc[s]
  BY SendMoves, SendFrame DEF ptt
<1>3. CASE Transmit(t)
  BY <1>1, <1>3, KeyTransmit, OtherTransmit
<1>4. CASE Receive(t)
  BY <1>1, <1>4, KeyReceive, OtherReceive
<1>5. CASE NoPort(t) \/ SelectTimeout(t) \/ RecvError(t) \/ SendError(t)
  <2>1. UNCHANGED wire /\ (buff' = buff \/ buff' = "")
    BY <1>5 DEF NoPort, SelectTimeout, RecvError, SendError, Kept, port
  <2>2. astray' = (astray \/ Keys(t))
    BY <1>5, Zenon DEF NoPort, SelectTimeout, RecvError, SendError, Lost
  <2>3. t # "key" /\ t # "timer"
    BY <2>2, Zenon DEF Keys
  <2>4. pc'["key"] = pc["key"] /\ pc'["timer"] = pc["timer"]
    BY <1>2, <2>3 DEF Threads
  <2>5. ("key" \in Awaiting' <=> "key" \in Awaiting) /\ (Telling' <=> Telling)
    BY <2>4 DEF Awaiting, AtWait, Telling, Sending
  <2>6. (On' <=> On) /\ (Composed' <=> Composed)
    BY <1>2, <2>4, <2>5 DEF On, At, Composed
  <2>7. QED
    BY <1>1, <2>1, <2>5, <2>6, OwnSame, OnSame DEF wire
<1>6. CASE Select(t) \/ Block(t) \/ (Check(t) /\ Goto(t, "select"))
  <2>1. UNCHANGED <<wire, buff>>
    BY <1>6 DEF Select, Block, Check, port
  <2>2. pc[t] \in {"check", "select", "recv"} /\ pc'[t] \in {"select", "recv", "blocked"}
    BY <1>6 DEF Select, Block, Check, At, Goto, PlaceInv
  <2>3. ("key" \in Awaiting' <=> "key" \in Awaiting) /\ (Telling' <=> Telling)
    BY <1>2, <2>2 DEF Awaiting, AtWait, Telling, Sending, Threads
  <2>4. (On' <=> On) /\ (Composed' <=> Composed)
    BY <1>2, <2>2, <2>3 DEF On, At, Composed, Threads
  <2>5. QED
    BY <1>1, <2>1, <2>3, <2>4, OwnSame, OnSame DEF wire
<1>7. CASE Compose(t)
  <2>1. /\ pc[t] = "send" /\ pc'[t] = "measure" /\ buff' = Command(t)
        /\ UNCHANGED wire
    BY <1>7 DEF Compose, At, Goto, PlaceInv
  <2>2. ("key" \in Awaiting' <=> "key" \in Awaiting) /\ (Telling => Telling')
    BY <1>2, <2>1 DEF Awaiting, AtWait, Telling, Sending, Threads
  <2>3. At("key", "sent")' => At("key", "sent")
    BY <1>2, <2>1 DEF At, Threads
  <2>4. On' => On
    BY <1>2, <2>2, <2>3 DEF On
  <2>5. CASE t # "timer"
    <3>1. buff' # "ptt off"
      BY <2>1, <2>5, CommandIs
    <3>2. QED
      BY <1>1, <2>1, <2>2, <2>4, <3>1, OwnSame, OnSame DEF wire
  <2>6. CASE t = "timer"
    <3>1. Releasing /\ Telling' /\ pc'["key"] = pc["key"]
      BY <1>2, <2>1, <2>6 DEF Releasing, Telling, Sending, At, Threads
    <3>2. ~Keying
      BY <3>1 DEF PttInv
    <3>3. pc'["key"] \notin Sending
      BY <3>1, <3>2 DEF Keying
    <3>4. ~Composed' /\ ~On'
      BY <3>1, <3>3 DEF On, At, Awaiting, AtWait, Sending, Composed
    <3>5. OwnInv'
      BY <1>1, <2>1, <2>2, OwnSame DEF wire
    <3>6. QED
      BY <3>4, <3>5 DEF OnInv
  <2>7. QED
    BY <2>5, <2>6
<1>8. CASE Check(t) /\ ~Goto(t, "select")
  <2>1. /\ UNCHANGED <<wire, buff>> /\ Goto(t, "sent") /\ pc[t] = "check"
        /\ astray' = (astray \/ Keys(t))
    BY <1>8, Zenon DEF Check, Return, Lost, At
  <2>2. t # "key" /\ t # "timer"
    BY <2>1, Zenon DEF Keys
  <2>3. pc'["key"] = pc["key"] /\ pc'["timer"] = pc["timer"]
    BY <1>2, <2>2 DEF Threads
  <2>4. ("key" \in Awaiting' <=> "key" \in Awaiting) /\ (Telling' <=> Telling)
    BY <2>3 DEF Awaiting, Telling, Sending
  <2>5. (On' <=> On) /\ (Composed' <=> Composed)
    BY <1>2, <2>3, <2>4 DEF On, At, Composed
  <2>6. QED
    BY <1>1, <2>1, <2>4, <2>5, OwnSame, OnSame DEF wire
<1>9. CASE Measure(t)
  <2>1. UNCHANGED <<wire, buff>> /\ pc[t] = "measure" /\ pc'[t] = "blast"
    BY <1>9 DEF Measure, At, Goto, PlaceInv
  <2>2. ("key" \in Awaiting' <=> "key" \in Awaiting) /\ (Telling' <=> Telling)
    BY <1>2, <2>1 DEF Awaiting, AtWait, Telling, Sending, Threads
  <2>3. (On' <=> On) /\ (Composed' <=> Composed)
    BY <1>2, <2>1, <2>2 DEF On, At, Composed, Threads
  <2>4. QED
    BY <1>1, <2>1, <2>2, <2>3, OwnSame, OnSame DEF wire
<1>10. QED
  BY <1>3, <1>4, <1>5, <1>6, <1>7, <1>8, <1>9 DEF SendCommand

(* Between two commands: the state goes on when the key thread has told    *)
(* the radio so.                                                           *)
LEMMA KeyedOther ==
  ASSUME PlaceInv, KeyedInv, Other
  PROVE  KeyedInv'
<1> SUFFICES ASSUME ~astray' PROVE OwnInv' /\ OnInv'
  BY DEF KeyedInv
<1>1. UNCHANGED <<wire, port, astray>>
  BY OtherFrame
<1>2. OwnInv /\ OnInv
  BY <1>1 DEF KeyedInv
<1>3. PICK t \in Threads :
        /\ pc[t] \notin {"gone", "measure", "blast", "check", "select", "recv", "blocked"}
        /\ pc'[t] \notin {"gone", "measure", "blast", "check", "select", "recv", "blocked", "sent"}
        /\ \A s \in Threads \ {t} : pc'[s] = pc[s]
  BY OtherMoves
<1>4. "key" \in Threads /\ "timer" \in Threads
  BY DEF Threads
<1>5. /\ "key" \in Awaiting' <=> "key" \in Awaiting
      /\ Composed' <=> Composed
      /\ At("key", "sent")' => At("key", "sent")
  BY <1>3, <1>4 DEF Awaiting, AtWait, At, Composed
<1>6. ASSUME PTT_state', ~Telling' PROVE On
  <2>1. CASE KeyKeyed
    BY <2>1 DEF KeyKeyed, On
  <2>2. CASE TimerReleased
    BY <1>6, <2>2 DEF TimerReleased
  <2>3. CASE TimerCount
    <3>1. pc["timer"] = "sleep" /\ PTT_state
      BY <2>3, Zenon DEF TimerCount, At
    <3>2. QED
      BY <3>1 DEF On, Telling, Sending
  <2>4. CASE PollSleep \/ Polled \/ KeyTick \/ KeySound \/ ReadFreq \/ FreqSet
    <3>1. PTT_state' = PTT_state
      BY <2>4 DEF PollSleep, Polled, KeyTick, KeySound, ReadFreq, FreqSet, ptt
    <3>2. pc'["timer"] = pc["timer"]
      <4>1. CASE PollSleep \/ Polled
        BY <1>4, <4>1 DEF PollSleep, Polled, Goto, PlaceInv
      <4>2. CASE KeyTick
        BY <1>4, <4>2, KeyTickIs DEF Goto, PlaceInv
      <4>3. CASE KeySound \/ ReadFreq \/ FreqSet
        BY <1>4, <4>3 DEF KeySound, ReadFreq, FreqSet, Goto, PlaceInv
      <4>4. QED
        BY <2>4, <4>1, <4>2, <4>3
    <3>3. QED
      BY <1>6, <3>1, <3>2 DEF On, Telling, Sending
  <2>5. QED
    BY <2>1, <2>2, <2>3, <2>4 DEF Other
<1>7. On' => On
  BY <1>5, <1>6 DEF On
<1>8. QED
  BY <1>1, <1>2, <1>5, <1>7, OwnSame, OnSame DEF wire, port

LEMMA KeyedStep ==
  ASSUME PlaceInv, WireInv, PttInv, KeyedInv, [Next]_vars, ~Ended'
  PROVE  KeyedInv'
<1>1. CASE MovePaddles \/ UNCHANGED vars \/ Gone
  <2>1. UNCHANGED <<pc, wire, port, PTT_state, astray>>
    BY <1>1 DEF MovePaddles, Gone, vars, ptt, notes
  <2>2. /\ "key" \in Awaiting' <=> "key" \in Awaiting
        /\ (On' <=> On) /\ (Composed' <=> Composed)
    BY <2>1 DEF Awaiting, On, Telling, At, Composed
  <2>3. QED
    BY <2>1, <2>2, OwnSame, OnSame DEF KeyedInv, wire, port
<1>2. CASE Radio
  <2>1. astray' = astray
    BY <1>2 DEF Radio, notes
  <2>2. QED
    BY <1>2, <2>1, OwnRadio, OnRadio DEF KeyedInv
<1>3. CASE \E t \in Threads : SendCommand(t)
  BY <1>3, KeyedSend
<1>4. CASE Other
  BY <1>4, KeyedOther
<1>5. CASE Quit \/ Crash
  BY <1>5 DEF Quit, Crash, Ended, At, Threads
<1>6. QED
  BY <1>1, <1>2, <1>3, <1>4, <1>5 DEF Next, Other

-----------------------------------------------------------------------------
(* What is heard, and what is left when the program ends.                  *)

(* While there is a tone the transmitter is keyed, and nothing under way   *)
(* lets go of it.                                                          *)
LEMMA ToneHeard ==
  ASSUME PttInv, KeyedInv, tone, ~astray, ~raced, ~late
  PROVE  radio /\ \A j \in 1 .. Len(requests) : requests[j].what # "ptt off"
<1>1. PTT_state /\ ~Releasing /\ ~Keying
  BY DEF PttInv
<1>2. On
  BY <1>1 DEF On, Telling, Sending, Releasing
<1>3. "key" \notin Awaiting
  BY <1>1 DEF Awaiting, AtWait, Keying, Sending
<1>4. Own(requests) = {}
  BY <1>3 DEF KeyedInv, OwnInv
<1>5. QED
  BY <1>2, <1>4 DEF KeyedInv, OnInv

(* Once it has ended only the radio and the paddles move.                  *)
LEMMA EndedSteps ==
  ASSUME PlaceInv, [Next]_vars, Ended
  PROVE  MovePaddles \/ Radio \/ UNCHANGED vars
<1>1. ~\E t \in Threads : SendCommand(t)
  BY SendMoves
<1>2. ~Other
  BY OtherMoves
<1>3. ~Quit /\ ~Crash
  BY DEF Quit, Crash, Ended, At, PlaceInv
<1>4. QED
  BY <1>1, <1>2, <1>3 DEF Next, Other, Gone

LEMMA EndedStays ==
  ASSUME PlaceInv, [Next]_vars, ~Ended'
  PROVE  ~Ended
<1> SUFFICES ASSUME Ended PROVE FALSE
  OBVIOUS
<1>1. pc' = pc
  BY EndedSteps DEF MovePaddles, Radio, vars
<1>2. QED
  BY <1>1 DEF Ended, At

LEMMA EndStep ==
  ASSUME PlaceInv, WireInv, ~Ended => PttInv /\ KeyedInv, EndInv, [Next]_vars
  PROVE  EndInv'
<1> SUFFICES ASSUME Ended', tone', ~astray', ~raced', ~late'
             PROVE  radio' /\ \A j \in 1 .. Len(requests') : requests'[j].what # "ptt off"
  BY DEF EndInv
<1>1. CASE ~Ended
  <2>1. ~(MovePaddles \/ Radio \/ UNCHANGED vars \/ Gone)
    BY <1>1 DEF MovePaddles, Radio, Gone, vars, Ended, At
  <2>2. ~(\E t \in Threads : SendCommand(t)) /\ ~Other
    BY SendMoves, OtherMoves
  <2>3. Quit \/ Crash
    BY <2>1, <2>2 DEF Next, Other
  <2>4. UNCHANGED <<wire, tone, astray, raced, late>>
    BY <2>3 DEF Quit, Crash, keys, notes
  <2>5. QED
    BY <1>1, <2>4, ToneHeard DEF wire
<1>2. CASE Ended /\ (MovePaddles \/ UNCHANGED vars)
  <2>1. UNCHANGED <<wire, tone, astray, raced, late>>
    BY <1>2 DEF MovePaddles, vars, keys, notes
  <2>2. QED
    BY <1>2, <2>1 DEF EndInv, wire
<1>3. CASE Ended /\ Radio
  <2>1. /\ requests \in Seq(Datagram) /\ requests # <<>> /\ requests' = Tail(requests)
        /\ Head(requests).what = "ptt on" => radio'
        /\ Head(requests).what \notin {"ptt on", "ptt off"} => radio' = radio
        /\ UNCHANGED <<tone, astray, raced, late>>
    BY <1>3, RadioIs DEF keys, notes
  <2>2. radio /\ \A j \in 1 .. Len(requests) : requests[j].what # "ptt off"
    BY <1>3, <2>1 DEF EndInv
  <2>3. /\ Len(requests) \in Nat \ {0} /\ Len(requests') = Len(requests) - 1
        /\ Head(requests) = requests[1]
        /\ \A j \in 1 .. Len(requests) - 1 : requests'[j] = requests[j + 1]
    BY <2>1, OwnTail
  <2>4. Head(requests).what # "ptt off"
    <3>1. 1 \in 1 .. Len(requests)
      BY <2>3
    <3>2. requests[1].what # "ptt off"
      BY <2>2, <3>1
    <3>3. QED
      BY <2>3, <3>2
  <2>5. ASSUME NEW j \in 1 .. Len(requests') PROVE requests'[j].what # "ptt off"
    <3>1. j \in 1 .. Len(requests) - 1 /\ j + 1 \in 1 .. Len(requests)
      BY <2>3
    <3>2. QED
      BY <2>2, <2>3, <3>1
  <2>6. QED
    BY <2>1, <2>2, <2>4, <2>5
<1>4. QED
  BY <1>1, <1>2, <1>3, EndedSteps

-----------------------------------------------------------------------------
LEMMA InitIInv == ASSUME Init PROVE IInv
<1>1. /\ DOMAIN pc = Threads /\ pc["key"] = "tick" /\ pc["update"] = "read"
      /\ pc["poll"] = "sleep" /\ pc["timer"] = "sleep"
  BY DEF Init, Threads
<1>2. /\ PlaceInv /\ ~Ended /\ Awaiting = {} /\ ~Keying /\ ~Releasing /\ ~On
      /\ ~Composed
  <2>1. /\ \A t \in Threads : pc[t] \in Places(t)
        /\ \A t \in Threads : pc[t] \notin AtWait
    BY <1>1, PlaceNames DEF AtWait
  <2>2. ~Ended /\ ~Keying /\ ~Releasing /\ ~Composed /\ ~At("key", "sent")
    BY <1>1 DEF Ended, Keying, Releasing, Sending, At, Composed
  <2>3. PTT_state = FALSE
    BY DEF Init
  <2>4. Awaiting = {}
    BY <2>1 DEF Awaiting, AtWait
  <2>5. QED
    BY <1>1, <2>1, <2>2, <2>3, <2>4 DEF PlaceInv, On
<1>3. WireInv
  <2>1. /\ paddles = {} /\ requests = <<>> /\ replies = <<>> /\ buff = ""
        /\ link \in {"open", "closed"}
    BY DEF Init
  <2>2. Len(requests) = 0 /\ Len(replies) = 0 /\ Cardinality(Awaiting) = 0
    BY <1>2, <2>1, FS_EmptySet
  <2>3. Answered
    BY <2>2 DEF Answered
  <2>4. requests \in Seq(Datagram) /\ replies \in Seq(Answer)
    BY <2>1, EmptySeq, Zenon
  <2>5. used = "" /\ passed = [t \in Threads |-> ""] /\ "" \in Said
    BY DEF Init, Said
  <2>6. passed \in [Threads -> Said]
    BY <2>5
  <2>7. QED
    BY <2>1, <2>3, <2>4, <2>5, <2>6 DEF WireInv
<1>4. HangInv
  <2>1. /\ i = 0 /\ key_FIFO = [n \in 0 .. FIFO - 1 |-> FALSE] /\ tone = FALSE
        /\ hang_time = 0 /\ counted = FALSE /\ late = FALSE
    BY DEF Init
  <2>2. /\ i \in 0 .. FIFO - 1 /\ key_FIFO \in [0 .. FIFO - 1 -> BOOLEAN]
        /\ \A n \in 0 .. FIFO - 1 : ~key_FIFO[n]
    BY <2>1
  <2>3. QED
    BY <2>1, <2>2 DEF HangInv
<1>5. PttInv
  <2>1. /\ key_FIFO = [n \in 0 .. FIFO - 1 |-> FALSE] /\ tone = FALSE
        /\ PTT_state = FALSE /\ raced = FALSE
    BY DEF Init
  <2>2. QED
    BY <1>2, <2>1 DEF PttInv
<1>6. KeyedInv
  <2>1. requests = <<>> /\ replies = <<>> /\ buff = ""
    BY DEF Init
  <2>2. Own(requests) = {} /\ Own(replies) = {}
    <3>1. Len(requests) = 0 /\ Len(replies) = 0
      BY <2>1
    <3>2. QED
      BY <3>1 DEF Own
  <2>3. QED
    BY <1>2, <2>1, <2>2 DEF KeyedInv, OwnInv, OnInv
<1>7. QED
  BY <1>2, <1>3, <1>4, <1>5, <1>6 DEF IInv, EndInv

LEMMA StepIInv == ASSUME IInv, [Next]_vars PROVE IInv'
<1>1. PlaceInv' /\ WireInv'
  BY PlaceStep, WireStep DEF IInv
<1>2. EndInv'
  BY EndStep DEF IInv
<1>3. ASSUME ~Ended' PROVE HangInv' /\ PttInv' /\ KeyedInv'
  <2>1. ~Ended
    BY <1>3, EndedStays DEF IInv
  <2>2. PlaceInv /\ WireInv /\ HangInv /\ PttInv /\ KeyedInv
    BY <2>1 DEF IInv
  <2>3. HangInv'
    BY <1>3, <2>1, <2>2, HangStep
  <2>4. PttInv'
    BY <1>3, <2>1, <2>2, <2>3, PttStep
  <2>5. KeyedInv'
    BY <1>3, <2>2, KeyedStep
  <2>6. QED
    BY <2>3, <2>4, <2>5
<1>4. QED
  BY <1>1, <1>2, <1>3 DEF IInv

LEMMA Inductive == Spec => []IInv
<1>1. Init => IInv
  BY InitIInv
<1>2. IInv /\ [Next]_vars => IInv'
  BY StepIInv
<1>3. QED
  BY <1>1, <1>2, PTL DEF Spec

(* send_command: for each thread that waits for an answer there is a       *)
(* datagram on its way, there or back, whoever takes whose and whoever     *)
(* gives up because another has written used; with the port open no thread *)
(* waits in recvfrom for nothing.                                          *)
THEOREM NobodyWaitsInVain == Spec => []NobodyHangs
<1>1. IInv => NobodyHangs
  <2> SUFFICES ASSUME IInv, link = "open", ~Ended
               PROVE  Cardinality(Waiting) <= Len(requests) + Len(replies)
    BY DEF NobodyHangs, Ended
  <2>1. Cardinality(Awaiting) <= Len(requests) + Len(replies)
    BY DEF IInv, WireInv, Answered
  <2>2. Len(requests) \in Nat /\ Len(replies) \in Nat
    BY LenProperties DEF IInv, WireInv
  <2>3. Waiting \subseteq Awaiting
    BY DEF Waiting, Awaiting, AtWait
  <2>4. /\ Cardinality(Waiting) \in Nat /\ Cardinality(Awaiting) \in Nat
        /\ Cardinality(Waiting) <= Cardinality(Awaiting)
    BY <2>3, WaitFinite, FS_Subset, FS_CardinalityType
  <2>5. QED
    BY <2>1, <2>2, <2>4
<1>2. QED
  BY <1>1, Inductive, PTL

(* key_FIFO and HANG_TIME_THRESHOLD: the delay of the readings is shorter  *)
(* than the hang time, so that the transmitter is keyed before a tone is   *)
(* sounded and let go only after it, for every delay and every threshold   *)
(* beyond it, unless a datagram went astray, a press met the release, or   *)
(* the ticks fell behind the timer while a closed reading was under way.   *)
THEOREM ToneOnlyKeyed == Spec => []TonesKeyed
<1>1. IInv => TonesKeyed
  <2> SUFFICES ASSUME IInv, tone, ~astray, ~raced, ~late PROVE radio
    BY DEF TonesKeyed
  <2>1. CASE Ended
    BY <2>1 DEF IInv, EndInv
  <2>2. CASE ~Ended
    BY <2>2, ToneHeard DEF IInv
  <2>3. QED
    BY <2>1, <2>2
<1>2. QED
  BY <1>1, Inductive, PTL
=============================================================================
