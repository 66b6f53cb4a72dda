--------------------------- MODULE ControlProofs ---------------------------
(***************************************************************************)
(* Proofs about Control, for any commands, any rcfile, any measuring       *)
(* threads and any number of datagrams, and, after them, about the         *)
(* handlers that its update thread runs (module Settings), for any number  *)
(* of receivers, any lines and any arguments.  No lemma is about both.     *)
(***************************************************************************)
EXTENDS Control, Settings, FiniteSetTheorems, SequenceTheorems, TLAPS

USE ControlAssumption

(* Where each thread can be.                                               *)
Places(t) ==
  CASE t = "main" -> {"start", "line", "lookup", "lock", "run", "unlock",
                      "join", "joinall", "exited"}
    [] t = "upd"  -> {"top", "recv", "lookup", "lock", "run", "unlock",
                      "reply", "exited"}
    [] t = "trx"  -> {"top", "wait", "hold", "lock", "run", "exited"}
    [] OTHER      -> {"top", "wait", "lock", "run", "unlock", "exited"}

PlaceInv ==
  /\ \A t \in Threads : pc[t] \in Places(t)
  /\ cancelled \subseteq {"trx"} \cup Senders

(* The threads exclude one another, the semaphore is free only when none   *)
(* of them is inside, and nobody is inside before main has posted it.      *)
ExclusionInv ==
  /\ \A s, t \in Inside : s = t
  /\ upd = 1 => Inside = {}
  /\ pc["main"] = "start" => upd = 0 /\ Inside = {}

(* The update thread's datagram, from the buffer to the reply, while main  *)
(* has not touched the buffer.                                             *)
OwnInv ==
  Busy("upd") /\ ~crossed =>
    LET c == got["upd"] IN
    /\ ~Busy("main")
    /\ buff = c
    /\ pc["upd"] \in {"lock", "run", "unlock"} => thunk["upd"] = c
    /\ pc["upd"] \in {"lock", "run", "unlock"} => c.kind # "bad"
    /\ pc["upd"] \in {"lookup", "lock", "run"} => resp = 0
    /\ pc["upd"] \in {"unlock", "reply"} =>
         resp = IF c.kind = "get" THEN c.id ELSE 0
    /\ pc["upd"] = "reply" => rtn = IF c.kind = "bad" THEN -1 ELSE 0

IInv == TypeOK /\ PlaceInv /\ ExclusionInv /\ OwnInv

-----------------------------------------------------------------------------
(* What the steps have in common.                                          *)

LEMMA ThreadsApart ==
  /\ "main" \in Threads /\ "upd" \in Threads /\ "trx" \in Threads
  /\ Senders \subseteq Threads /\ Updaters \subseteq Threads
  /\ "main" \notin Senders /\ "upd" \notin Senders /\ "trx" \notin Senders
  BY DEF Threads, Updaters

(* A step moves one thread, and only that thread.                          *)
LEMMA GotoPc ==
  ASSUME TypeOK, NEW t \in Threads, NEW l, Goto(t, l)
  PROVE  pc'[t] = l /\ \A s \in Threads \ {t} : pc'[s] = pc[s]
  BY DEF TypeOK, Goto

(* Who is inside after a step of one thread.                               *)
LEMMA InsideGoto ==
  ASSUME TypeOK, NEW t \in Threads, NEW l, Goto(t, l)
  PROVE  Inside' = IF l \in {"run", "unlock"} THEN Inside \cup {t}
                                             ELSE Inside \ {t}
  BY GotoPc DEF Inside

LEMMA PlacesOf ==
  /\ Places("main") = {"start", "line", "lookup", "lock", "run", "unlock",
                       "join", "joinall", "exited"}
  /\ Places("upd") = {"top", "recv", "lookup", "lock", "run", "unlock",
                      "reply", "exited"}
  /\ Places("trx") = {"top", "wait", "hold", "lock", "run", "exited"}
  /\ \A s \in Senders :
       Places(s) = {"top", "wait", "lock", "run", "unlock", "exited"}
  BY ThreadsApart DEF Places

LEMMA RcLineType ==
  ASSUME NEW n \in 1 .. Len(RcLines)
  PROVE  RcLine(n) \in Command
<1>1. RcLines[n] \in AllKinds
  OBVIOUS
<1>2. MaxDatagrams + n \in Nat
  OBVIOUS
<1>3. QED
  BY <1>1, <1>2 DEF RcLine, Command

-----------------------------------------------------------------------------
LEMMA InitIInv == Init => IInv
<1> SUFFICES ASSUME Init PROVE IInv
  OBVIOUS
<1>1. NoCommand \in Command
  BY DEF NoCommand, Command
<1>2. TypeOK
  <2>1. pc \in [Threads -> {"start", "top"}]
    BY DEF Init
  <2>2. Len(RcLines) \in Nat
    OBVIOUS
  <2>3. /\ sem \in [Senders -> Nat] /\ label \in [Senders -> Nat]
        /\ sent \in [Senders -> Nat]
    BY DEF Init
  <2>4. thunk \in [Updaters -> Command] /\ got \in [Updaters -> Command]
    BY <1>1 DEF Init
  <2>5. running \in BOOLEAN /\ active \in BOOLEAN /\ crossed \in BOOLEAN
    BY Zenon DEF Init
  <2>6. pc \in [Threads -> {"start", "line", "join", "joinall", "top", "recv",
                            "lookup", "lock", "run", "unlock", "reply", "wait",
                            "hold", "exited"}]
    BY <2>1
  <2>7. /\ upd \in 0 .. 1 /\ buff \in Command /\ resp \in Nat /\ rtn \in {0, -1}
        /\ cancelled \subseteq Threads /\ nline \in 0 .. Len(RcLines)
        /\ nrecv \in 0 .. MaxDatagrams
    BY <1>1, <2>2 DEF Init
  <2>8. QED
    BY <2>3, <2>4, <2>5, <2>6, <2>7 DEF TypeOK
<1>3. PlaceInv
  BY DEF Init, PlaceInv, Places, Threads, Updaters
<1>4. Inside = {}
  BY DEF Init, Inside
<1>5. ExclusionInv
  BY <1>4 DEF Init, ExclusionInv
<1>6. OwnInv
  BY ThreadsApart DEF Init, OwnInv, Busy
<1>7. QED
  BY <1>2, <1>3, <1>5, <1>6 DEF IInv

LEMMA TypeStep == ASSUME IInv, [Next]_vars PROVE TypeOK'
<1> USE ThreadsApart DEF TypeOK, IInv, Goto
<1>1. ASSUME NEW t \in Updaters, LookUp(t) PROVE TypeOK'
  BY <1>1 DEF LookUp, Return, Updaters
<1>2. ASSUME NEW t \in Threads, Lock(t) PROVE TypeOK'
  BY <1>2 DEF Lock
<1>3. ASSUME NEW t \in Updaters, RunRequest(t) PROVE TypeOK'
  <2>1. buff.id \in Nat
    BY DEF Command
  <2>2. label' \in [Senders -> Nat]
    BY <1>3, <2>1 DEF RunRequest
  <2>3. sem' \in [Senders -> Nat]
    <3> DEFINE s == thunk[t].kind
    <3>1. sem' = [sem EXCEPT ![s] = sem[s] + 1] /\ s \in Senders
      BY <1>3 DEF RunRequest
    <3>2. sem \in [Senders -> Nat]
      OBVIOUS
    <3> HIDE DEF s
    <3>3. QED
      BY ONLY <3>1, <3>2
  <2>4. QED
    BY <1>3, <2>2, <2>3 DEF RunRequest, Updaters
<1>4. ASSUME NEW t \in Updaters, RunCommand(t) PROVE TypeOK'
  <2>1. buff.id \in Nat
    BY DEF Command
  <2>2. QED
    BY <1>4, <2>1 DEF RunCommand, Updaters
<1>5. ASSUME NEW t \in Updaters, RunFinished(t) PROVE TypeOK'
  BY <1>5 DEF RunFinished, Updaters
<1>6. ASSUME NEW t \in Updaters, Unlock(t) PROVE TypeOK'
  <2>1. t \in Inside
    BY <1>6 DEF Unlock, Inside
  <2>2. upd = 0
    BY <2>1 DEF ExclusionInv
  <2>3. QED
    BY <1>6, <2>2 DEF Unlock, Return, Updaters
<1>7. CASE Start
  BY <1>7 DEF Start, ExclusionInv
<1>8. CASE ReadRcLine
  <2>1. RcLine(nline + 1) \in Command
    BY <1>8, RcLineType DEF ReadRcLine
  <2>2. got' \in [Updaters -> Command]
    BY <1>8, <2>1 DEF ReadRcLine, Updaters
  <2>3. crossed' \in BOOLEAN
    BY <1>8 DEF ReadRcLine, Busy
  <2>4. QED
    BY <1>8, <2>1, <2>2, <2>3 DEF ReadRcLine
<1>9. CASE Activate \/ Cancel \/ JoinAll
  BY <1>9 DEF Activate, Cancel, JoinAll, Threads
<1>10. ASSUME NEW t \in Threads, NEW l \in {"recv", "wait"}, Top(t, l)
       PROVE  TypeOK'
  BY <1>10 DEF Top
<1>11. CASE Receive
  <2>1. PICK k \in Kinds :
          /\ buff' = [id |-> nrecv + 1, kind |-> k]
          /\ got' = [got EXCEPT !["upd"] = [id |-> nrecv + 1, kind |-> k]]
    BY <1>11 DEF Receive
  <2>2. [id |-> nrecv + 1, kind |-> k] \in Command
    BY DEF Command
  <2>3. buff' \in Command /\ got' \in [Updaters -> Command]
    BY <2>1, <2>2 DEF Updaters
  <2>4. crossed' \in BOOLEAN
    BY <1>11 DEF Receive, Busy
  <2>5. QED
    BY <1>11, <2>3, <2>4 DEF Receive
<1>12. CASE Reply
  BY <1>12 DEF Reply
<1>13. CASE TrxHold
  BY <1>13 DEF TrxHold
<1>14. CASE TrxUnlock
  <2>1. "trx" \in Inside
    BY <1>14 DEF TrxUnlock, Inside
  <2>2. upd = 0
    BY <2>1 DEF ExclusionInv
  <2>3. QED
    BY <1>14, <2>2 DEF TrxUnlock
<1>15. ASSUME NEW s \in Senders, SenderWait(s) \/ SenderSend(s) PROVE TypeOK'
  <2>1. CASE SenderWait(s)
    <3>1. sem' = [sem EXCEPT ![s] = @ - 1] /\ sem[s] > 0
      BY <2>1 DEF SenderWait
    <3>2. sem \in [Senders -> Nat]
      OBVIOUS
    <3>3. sem' \in [Senders -> Nat]
      BY ONLY <3>1, <3>2
    <3>4. QED
      BY <2>1, <3>3 DEF SenderWait
  <2>2. CASE SenderSend(s)
    BY <2>2 DEF SenderSend
  <2>3. QED
    BY <1>15, <2>1, <2>2
<1>16. ASSUME NEW s \in Senders, SenderUnlock(s) PROVE TypeOK'
  <2>1. s \in Inside
    BY <1>16 DEF SenderUnlock, Inside
  <2>2. upd = 0
    BY <2>1 DEF ExclusionInv
  <2>3. QED
    BY <1>16, <2>2 DEF SenderUnlock
<1>17. ASSUME NEW t \in {"trx"} \cup Senders, ActOnCancel(t) PROVE TypeOK'
  BY <1>17 DEF ActOnCancel
<1>18. CASE UNCHANGED vars
  BY <1>18 DEF vars
<1>19. QED
  BY <1>1, <1>2, <1>3, <1>4, <1>5, <1>6, <1>7, <1>8, <1>9, <1>10, <1>11,
     <1>12, <1>13, <1>14, <1>15, <1>16, <1>17, <1>18
  DEF Next, Main, UpdThread, TrxThread, SenderThread, DoUpdate, TrxLock,
      Updaters

(* A thread goes to one of its places.                                     *)
LEMMA PlaceKept ==
  ASSUME TypeOK, PlaceInv, NEW t \in Threads, NEW l \in Places(t), Goto(t, l),
         cancelled' \subseteq {"trx"} \cup Senders
  PROVE  PlaceInv'
  BY GotoPc DEF PlaceInv

LEMMA PlaceStep == ASSUME IInv, [Next]_vars PROVE PlaceInv'
<1> USE ThreadsApart, PlacesOf DEF IInv
<1>1. ASSUME NEW t \in Updaters, DoUpdate(t) PROVE PlaceInv'
  <2>1. PICK l \in Places(t) : Goto(t, l)
    BY <1>1
    DEF DoUpdate, LookUp, Lock, RunRequest, RunCommand, RunFinished, Unlock,
        Return, Updaters
  <2>2. cancelled' = cancelled
    BY <1>1
    DEF DoUpdate, LookUp, Lock, RunRequest, RunCommand, RunFinished, Unlock
  <2>3. QED
    BY <2>1, <2>2, PlaceKept DEF PlaceInv
<1>2. CASE Start \/ ReadRcLine \/ Activate \/ Cancel \/ JoinAll
  <2>1. PICK l \in Places("main") : Goto("main", l)
    BY <1>2 DEF Start, ReadRcLine, Activate, Cancel, JoinAll
  <2>2. cancelled' = cancelled \/ cancelled' = {"trx"} \cup Senders
    BY <1>2 DEF Start, ReadRcLine, Activate, Cancel, JoinAll
  <2>3. QED
    BY <2>1, <2>2, PlaceKept DEF PlaceInv
<1>3. CASE Top("upd", "recv") \/ Receive \/ Reply
  <2>1. PICK l \in Places("upd") : Goto("upd", l)
    BY <1>3 DEF Top, Receive, Reply
  <2>2. cancelled' = cancelled
    BY <1>3 DEF Top, Receive, Reply
  <2>3. QED
    BY <2>1, <2>2, PlaceKept DEF PlaceInv
<1>4. CASE TrxThread
  <2>1. PICK l \in Places("trx") : Goto("trx", l)
    BY <1>4 DEF TrxThread, Top, TrxHold, TrxLock, Lock, TrxUnlock
  <2>2. cancelled' = cancelled
    BY <1>4 DEF TrxThread, Top, TrxHold, TrxLock, Lock, TrxUnlock
  <2>3. QED
    BY <2>1, <2>2, PlaceKept DEF PlaceInv
<1>5. ASSUME NEW s \in Senders, SenderThread(s) PROVE PlaceInv'
  <2>1. PICK l \in Places(s) : Goto(s, l)
    BY <1>5
    DEF SenderThread, Top, SenderWait, Lock, SenderSend, SenderUnlock
  <2>2. cancelled' = cancelled
    BY <1>5
    DEF SenderThread, Top, SenderWait, Lock, SenderSend, SenderUnlock
  <2>3. QED
    BY <2>1, <2>2, PlaceKept DEF PlaceInv
<1>6. ASSUME NEW t \in {"trx"} \cup Senders, ActOnCancel(t) PROVE PlaceInv'
  <2>1. "exited" \in Places(t) /\ Goto(t, "exited") /\ cancelled' = cancelled
    BY <1>6 DEF ActOnCancel
  <2>2. QED
    BY <2>1, PlaceKept DEF PlaceInv
<1>7. CASE UNCHANGED vars
  BY <1>7 DEF vars, PlaceInv
<1>8. QED
  BY <1>1, <1>2, <1>3, <1>4, <1>5, <1>6, <1>7
  DEF Next, Main, UpdThread, Updaters

-----------------------------------------------------------------------------
(* A step that enters nobody and leaves the semaphore alone.               *)
LEMMA NobodyEnters ==
  ASSUME IInv, NEW t \in Threads, NEW l, Goto(t, l), l # "start", upd' = upd,
         l \in {"run", "unlock"} => t \in Inside
  PROVE  ExclusionInv'
<1>1. Inside' \subseteq Inside
  BY InsideGoto DEF IInv
<1>2. pc'["main"] = "start" => pc["main"] = "start"
  BY GotoPc, ThreadsApart DEF IInv
<1>3. QED
  BY <1>1, <1>2 DEF IInv, ExclusionInv

(* sem_wait by any thread.                                                 *)
LEMMA Enters == ASSUME IInv, NEW t \in Threads, Lock(t) PROVE ExclusionInv'
<1>1. Goto(t, "run") /\ upd = 1 /\ upd' = 0
  BY DEF Lock, IInv, TypeOK
<1>2. Inside = {} /\ pc["main"] # "start"
  BY <1>1 DEF IInv, ExclusionInv
<1>3. Inside' = {t}
  BY <1>1, <1>2, InsideGoto DEF IInv
<1>4. pc'["main"] # "start"
  BY <1>1, <1>2, GotoPc, ThreadsApart DEF IInv
<1>5. QED
  BY <1>1, <1>3, <1>4 DEF ExclusionInv

(* sem_post by the thread that is inside.                                  *)
LEMMA Leaves ==
  ASSUME IInv, NEW t \in Inside, NEW l, Goto(t, l), upd' = upd + 1,
         l \notin {"run", "unlock", "start"}
  PROVE  ExclusionInv'
<1>1. t \in Threads
  BY DEF Inside
<1>2. Inside' = {}
  BY <1>1, InsideGoto DEF IInv, ExclusionInv
<1>3. pc'["main"] # "start"
  BY <1>1, GotoPc, ThreadsApart DEF IInv, ExclusionInv
<1>4. QED
  BY <1>2, <1>3 DEF ExclusionInv

LEMMA ExclusionStep == ASSUME IInv, [Next]_vars PROVE ExclusionInv'
<1> USE ThreadsApart
<1>1. ASSUME NEW t \in Updaters, DoUpdate(t) PROVE ExclusionInv'
  <2>1. CASE LookUp(t)
    BY <2>1, NobodyEnters DEF LookUp, Return
  <2>2. CASE Lock(t)
    BY <2>2, Enters
  <2>3. CASE RunRequest(t) \/ RunCommand(t) \/ RunFinished(t)
    <3>1. t \in Inside /\ upd' = upd
      BY <2>3 DEF RunRequest, RunCommand, RunFinished, Inside
    <3>2. Goto(t, "unlock") \/ Goto(t, "exited")
      BY <2>3 DEF RunRequest, RunCommand, RunFinished
    <3>3. QED
      BY <3>1, <3>2, NobodyEnters
  <2>4. CASE Unlock(t)
    <3>1. t \in Inside
      BY <2>4 DEF Unlock, Inside
    <3>2. QED
      BY <2>4, <3>1, Leaves DEF Unlock, Return
  <2>5. QED
    BY <1>1, <2>1, <2>2, <2>3, <2>4 DEF DoUpdate
<1>2. CASE Start
  <2>1. Goto("main", "line") /\ upd = 0 /\ upd' = 1 /\ Inside = {}
    BY <1>2 DEF Start, IInv, ExclusionInv
  <2>2. Inside' = {} /\ pc'["main"] # "start"
    BY <2>1, InsideGoto, GotoPc DEF IInv
  <2>3. QED
    BY <2>1, <2>2 DEF ExclusionInv
<1>3. CASE ReadRcLine \/ Activate \/ Cancel \/ JoinAll
  BY <1>3, NobodyEnters DEF ReadRcLine, Activate, Cancel, JoinAll
<1>4. CASE Top("upd", "recv") \/ Receive \/ Reply
  BY <1>4, NobodyEnters DEF Top, Receive, Reply
<1>5. CASE TrxThread
  <2>1. CASE Top("trx", "wait") \/ TrxHold
    BY <2>1, NobodyEnters DEF Top, TrxHold
  <2>2. CASE TrxLock
    BY <2>2, Enters DEF TrxLock
  <2>3. CASE TrxUnlock
    <3>1. "trx" \in Inside
      BY <2>3 DEF TrxUnlock, Inside
    <3>2. QED
      BY <2>3, <3>1, Leaves DEF TrxUnlock
  <2>4. QED
    BY <1>5, <2>1, <2>2, <2>3 DEF TrxThread
<1>6. ASSUME NEW s \in Senders, SenderThread(s) PROVE ExclusionInv'
  <2>1. CASE Top(s, "wait") \/ SenderWait(s)
    BY <2>1, NobodyEnters DEF Top, SenderWait
  <2>2. CASE Lock(s)
    BY <2>2, Enters
  <2>3. CASE SenderSend(s)
    <3>1. s \in Inside
      BY <2>3 DEF SenderSend, Inside
    <3>2. QED
      BY <2>3, <3>1, NobodyEnters DEF SenderSend
  <2>4. CASE SenderUnlock(s)
    <3>1. s \in Inside
      BY <2>4 DEF SenderUnlock, Inside
    <3>2. QED
      BY <2>4, <3>1, Leaves DEF SenderUnlock
  <2>5. QED
    BY <1>6, <2>1, <2>2, <2>3, <2>4 DEF SenderThread
<1>7. ASSUME NEW t \in {"trx"} \cup Senders, ActOnCancel(t)
      PROVE  ExclusionInv'
  BY <1>7, NobodyEnters DEF ActOnCancel
<1>8. CASE UNCHANGED vars
  BY <1>8 DEF vars, IInv, ExclusionInv, Inside
<1>9. QED
  BY <1>1, <1>2, <1>3, <1>4, <1>5, <1>6, <1>7, <1>8
  DEF Next, Main, UpdThread, Updaters

-----------------------------------------------------------------------------
(* A step of a thread that runs no commands.                               *)
LEMMA OwnUntouched ==
  ASSUME IInv, pc'["upd"] = pc["upd"], Busy("main")' => Busy("main"),
         UNCHANGED <<buff, thunk, resp, rtn, got, crossed>>
  PROVE  OwnInv'
  BY DEF IInv, OwnInv, Busy

(* A step of main inside do_update: the buffer is shared, or the update    *)
(* thread has no datagram.                                                 *)
LEMMA OwnMainBusy ==
  ASSUME IInv, Busy("main"), pc'["upd"] = pc["upd"], crossed' = crossed
  PROVE  OwnInv'
<1>1. ~(Busy("upd") /\ ~crossed)
  BY DEF IInv, OwnInv
<1>2. ~(Busy("upd")' /\ ~crossed')
  BY <1>1 DEF Busy
<1>3. QED
  BY <1>2 DEF OwnInv

LEMMA OwnUpdStep ==
  ASSUME IInv, DoUpdate("upd")
  PROVE  OwnInv'
<1> USE ThreadsApart
<1>1. /\ "upd" \in Updaters
      /\ thunk \in [Updaters -> Command] /\ buff \in Command
      /\ Busy("upd") /\ crossed' = crossed /\ got' = got /\ buff' = buff
  BY DEF IInv, TypeOK, Updaters, Busy, DoUpdate, LookUp, Lock, RunRequest,
         RunCommand, RunFinished, Unlock
<1> SUFFICES ASSUME ~crossed PROVE OwnInv'
  BY <1>1 DEF OwnInv
<1> DEFINE c == got["upd"]
<1>2. /\ ~Busy("main") /\ buff = c
      /\ pc["upd"] \in {"lock", "run", "unlock"} => thunk["upd"] = c /\ c.kind # "bad"
      /\ pc["upd"] \in {"lookup", "lock", "run"} => resp = 0
      /\ pc["upd"] \in {"unlock", "reply"} =>
           resp = IF c.kind = "get" THEN c.id ELSE 0
  BY <1>1 DEF IInv, OwnInv
<1>3. ASSUME NEW l, Goto("upd", l)
      PROVE  pc'["upd"] = l /\ ~Busy("main")'
  <2>1. pc'["upd"] = l /\ pc'["main"] = pc["main"]
    BY <1>3, GotoPc DEF IInv
  <2>2. QED
    BY <1>2, <2>1 DEF Busy
<1>4. CASE LookUp("upd")
  <2>1. pc["upd"] = "lookup" /\ thunk'["upd"] = c /\ resp' = resp /\ resp = 0
    BY <1>1, <1>2, <1>4 DEF LookUp
  <2>2. CASE buff.kind = "bad"
    <3>1. pc'["upd"] = "reply" /\ rtn' = -1 /\ ~Busy("main")'
      BY <1>3, <1>4, <2>2 DEF LookUp, Return
    <3>2. QED
      BY <1>1, <1>2, <2>1, <2>2, <3>1 DEF OwnInv
  <2>3. CASE buff.kind # "bad"
    <3>1. pc'["upd"] = "lock" /\ ~Busy("main")'
      BY <1>3, <1>4, <2>3 DEF LookUp
    <3>2. QED
      BY <1>1, <1>2, <2>1, <2>3, <3>1 DEF OwnInv
  <2>4. QED
    BY <2>2, <2>3
<1>5. CASE Lock("upd")
  <2>1. /\ pc["upd"] = "lock" /\ pc'["upd"] = "run" /\ ~Busy("main")'
        /\ thunk' = thunk /\ resp' = resp
    BY <1>3, <1>5 DEF Lock
  <2>2. QED
    BY <1>1, <1>2, <2>1 DEF OwnInv
<1>6. CASE RunRequest("upd") \/ RunCommand("upd")
  <2>1. /\ pc["upd"] = "run" /\ pc'["upd"] = "unlock" /\ ~Busy("main")'
        /\ thunk' = thunk
    BY <1>3, <1>6 DEF RunRequest, RunCommand
  <2>2. resp' = IF c.kind = "get" THEN c.id ELSE 0
    <3>1. CASE RunRequest("upd")
      BY <1>2, <2>1, <3>1 DEF RunRequest
    <3>2. CASE RunCommand("upd")
      BY <1>2, <2>1, <3>2 DEF RunCommand
    <3>3. QED
      BY <1>6, <3>1, <3>2
  <2>3. QED
    BY <1>1, <1>2, <2>1, <2>2 DEF OwnInv
<1>7. CASE RunFinished("upd")
  <2>1. pc'["upd"] = "exited"
    BY <1>3, <1>7 DEF RunFinished
  <2>2. QED
    BY <2>1 DEF OwnInv, Busy
<1>8. CASE Unlock("upd")
  <2>1. /\ pc["upd"] = "unlock" /\ pc'["upd"] = "reply" /\ ~Busy("main")'
        /\ resp' = resp /\ rtn' = 0
    BY <1>3, <1>8 DEF Unlock, Return
  <2>2. QED
    BY <1>1, <1>2, <2>1 DEF OwnInv
<1>9. QED
  BY <1>4, <1>5, <1>6, <1>7, <1>8 DEF DoUpdate

LEMMA OwnStep == ASSUME IInv, [Next]_vars PROVE OwnInv'
<1> USE ThreadsApart
<1>1. CASE DoUpdate("main")
  <2>1. PICK l : Goto("main", l)
    BY <1>1
    DEF DoUpdate, LookUp, Lock, RunRequest, RunCommand, RunFinished, Unlock,
        Return
  <2>2. pc'["upd"] = pc["upd"]
    BY <2>1, GotoPc DEF IInv
  <2>3. Busy("main") /\ crossed' = crossed
    BY <1>1
    DEF DoUpdate, LookUp, Lock, RunRequest, RunCommand, RunFinished, Unlock,
        Busy
  <2>4. QED
    BY <2>2, <2>3, OwnMainBusy
<1>2. CASE Start \/ Activate \/ Cancel \/ JoinAll
  <2>1. PICK l \in {"line", "join", "joinall", "exited"} : Goto("main", l)
    BY <1>2 DEF Start, Activate, Cancel, JoinAll
  <2>2. pc'["upd"] = pc["upd"] /\ ~Busy("main")'
    BY <2>1, GotoPc DEF IInv, Busy
  <2>3. UNCHANGED <<buff, thunk, resp, rtn, got, crossed>>
    BY <1>2 DEF Start, Activate, Cancel, JoinAll
  <2>4. QED
    BY <2>2, <2>3, OwnUntouched
<1>3. CASE ReadRcLine
  <2>1. pc'["upd"] = pc["upd"] /\ crossed' = (crossed \/ Busy("upd"))
    BY <1>3, GotoPc DEF IInv, ReadRcLine
  <2>2. ~(Busy("upd")' /\ ~crossed')
    BY <2>1 DEF Busy
  <2>3. QED
    BY <2>2 DEF OwnInv
<1>4. CASE Top("upd", "recv") \/ Reply
  <2>1. PICK l \in {"recv", "exited", "top"} : Goto("upd", l)
    BY <1>4 DEF Top, Reply
  <2>2. ~Busy("upd")'
    BY <2>1, GotoPc DEF IInv, Busy
  <2>3. QED
    BY <2>2 DEF OwnInv
<1>5. CASE Receive
  <2>1. /\ pc'["upd"] = "lookup" /\ pc'["main"] = pc["main"]
        /\ crossed' = Busy("main") /\ resp' = 0
    BY <1>5, GotoPc DEF IInv, Receive
  <2>2. buff' = got'["upd"]
    BY <1>5 DEF Receive, IInv, TypeOK, Updaters
  <2>3. QED
    BY <2>1, <2>2 DEF OwnInv, Busy
<1>6. CASE DoUpdate("upd")
  BY <1>6, OwnUpdStep
<1>7. CASE TrxThread
  <2>1. PICK l : Goto("trx", l)
    BY <1>7 DEF TrxThread, Top, TrxHold, TrxLock, Lock, TrxUnlock
  <2>2. UNCHANGED <<buff, thunk, resp, rtn, got, crossed>>
    BY <1>7 DEF TrxThread, Top, TrxHold, TrxLock, Lock, TrxUnlock
  <2>3. pc'["upd"] = pc["upd"] /\ pc'["main"] = pc["main"]
    BY <2>1, GotoPc DEF IInv
  <2>4. QED
    BY <2>2, <2>3, OwnUntouched DEF Busy
<1>8. ASSUME NEW s \in Senders, SenderThread(s) PROVE OwnInv'
  <2>1. PICK l : Goto(s, l)
    BY <1>8
    DEF SenderThread, Top, SenderWait, Lock, SenderSend, SenderUnlock
  <2>2. UNCHANGED <<buff, thunk, resp, rtn, got, crossed>>
    BY <1>8
    DEF SenderThread, Top, SenderWait, Lock, SenderSend, SenderUnlock
  <2>3. pc'["upd"] = pc["upd"] /\ pc'["main"] = pc["main"]
    BY <2>1, GotoPc DEF IInv
  <2>4. QED
    BY <2>2, <2>3, OwnUntouched DEF Busy
<1>9. ASSUME NEW t \in {"trx"} \cup Senders, ActOnCancel(t) PROVE OwnInv'
  <2>1. /\ Goto(t, "exited")
        /\ UNCHANGED <<buff, thunk, resp, rtn, got, crossed>>
    BY <1>9 DEF ActOnCancel
  <2>2. pc'["upd"] = pc["upd"] /\ pc'["main"] = pc["main"]
    BY <2>1, GotoPc DEF IInv
  <2>3. QED
    BY <2>1, <2>2, OwnUntouched DEF Busy
<1>10. CASE UNCHANGED vars
  BY <1>10, OwnUntouched DEF vars, Busy
<1>11. QED
  BY <1>1, <1>2, <1>3, <1>4, <1>5, <1>6, <1>7, <1>8, <1>9, <1>10
  DEF Next, Main, UpdThread

-----------------------------------------------------------------------------
(* The theorems.                                                           *)

(* Every step of every thread keeps the invariant.                         *)
THEOREM Inductive == Spec => []IInv
<1>1. IInv /\ [Next]_vars => IInv'
  BY TypeStep, PlaceStep, ExclusionStep, OwnStep DEF IInv
<1>2. QED
  BY InitIInv, <1>1, PTL DEF Spec

(* Every variable keeps its type; the semaphore's value stays below two,   *)
(* whichever thread posts it.                                              *)
THEOREM TypeCorrect == Spec => []TypeOK
<1>1. IInv => TypeOK
  BY DEF IInv
<1>2. QED
  BY <1>1, Inductive, PTL

(* At most one thread at a time works on the radio's state: a command of   *)
(* the rcfile or of the port, a block of samples, or the packing of a      *)
(* measurement, wherever threads are cancelled or setFinished runs.        *)
THEOREM WorkIsSerial == Spec => []OneAtATime
<1>1. IInv => OneAtATime
  <2> SUFFICES ASSUME IInv PROVE OneAtATime
    OBVIOUS
  <2>1. CASE Inside = {}
    BY <2>1, FS_EmptySet DEF IInv, TypeOK, OneAtATime
  <2>2. CASE Inside # {}
    <3>1. PICK t \in Inside : TRUE
      BY <2>2
    <3>2. Inside = {t} /\ upd = 0
      BY <3>1 DEF IInv, ExclusionInv, TypeOK
    <3>3. Cardinality(Inside) = 1
      BY <3>2, FS_Singleton
    <3>4. QED
      BY <3>2, <3>3 DEF OneAtATime
  <2>3. QED
    BY <2>1, <2>2
<1>2. QED
  BY <1>1, Inductive, PTL

(* The answer that goes out on the port is the answer to the datagram that *)
(* was last received, unless an rcfile line shared the buffer with it.     *)
THEOREM RepliesMatch == Spec => []AnswersOwn
<1>1. IInv => AnswersOwn
  <2> SUFFICES ASSUME IInv, pc["upd"] = "reply", ~crossed PROVE AnswersOwn
    BY DEF AnswersOwn
  <2> DEFINE c == got["upd"]
  <2>1. /\ resp = IF c.kind = "get" THEN c.id ELSE 0
        /\ rtn = IF c.kind = "bad" THEN -1 ELSE 0
    BY DEF IInv, OwnInv, Busy
  <2>2. QED
    BY <2>1 DEF AnswersOwn, Answer
<1>2. QED
  BY <1>1, Inductive, PTL

(* Once the buffer is not shared, a datagram's handler runs with the words *)
(* of the datagram it was looked up for: the promise RunsWhatItGot makes   *)
(* for every command, kept by the update thread.                           *)
THEOREM RunsItsDatagram ==
  Spec => [](pc["upd"] = "run" /\ ~crossed =>
               thunk["upd"] = got["upd"] /\ buff = got["upd"])
<1>1. IInv => (pc["upd"] = "run" /\ ~crossed =>
                 thunk["upd"] = got["upd"] /\ buff = got["upd"])
  BY DEF IInv, OwnInv, Busy
<1>2. QED
  BY <1>1, Inductive, PTL
-----------------------------------------------------------------------------
(* Settings.  What the handlers tell of filters, equalisers and the        *)
(* spectrum's window is what they installed.  What every handler keeps     *)
(* (AllTold) says of each channel what InstalledAsTold says, and besides   *)
(* that the fields are there, that the receivers' transforms are           *)
(* normalised whole, and that no type of window asked for is the one that  *)
(* the polyphase switch installs.                                          *)

HIDE ControlAssumption

(* The radio has its three parts.                                          *)
Formed(r) ==
  /\ r = [rx |-> r.rx, tx |-> r.tx, uni |-> r.uni]
  /\ r.rx = [k \in Rx |-> r.rx[k]]

LEMMA Replaced ==
  ASSUME NEW rx, NEW tx, NEW uni, rx = [j \in Rx |-> rx[j]], NEW k \in Rx, NEW v,
         NEW r, r = [rx |-> rx, tx |-> tx, uni |-> uni]
  PROVE  /\ [r EXCEPT !.rx[k] = v] = [rx |-> [rx EXCEPT ![k] = v], tx |-> tx, uni |-> uni]
         /\ [r EXCEPT !.tx = v] = [rx |-> rx, tx |-> v, uni |-> uni]
         /\ [r EXCEPT !.uni = v] = [rx |-> rx, tx |-> tx, uni |-> v]
OBVIOUS

LEMMA WithParts ==
  ASSUME NEW r, Formed(r), NEW k \in Rx, NEW c
  PROVE  /\ Formed(WithRx(r, k, c)) /\ Formed(WithTx(r, c)) /\ Formed(WithUni(r, c))
         /\ WithRx(r, k, c).rx[k] = c ++ r.rx[k]
         /\ \A j \in Rx \ {k} : WithRx(r, k, c).rx[j] = r.rx[j]
         /\ WithRx(r, k, c).tx = r.tx /\ WithRx(r, k, c).uni = r.uni
         /\ WithTx(r, c).rx = r.rx /\ WithTx(r, c).tx = c ++ r.tx /\ WithTx(r, c).uni = r.uni
         /\ WithUni(r, c).rx = r.rx /\ WithUni(r, c).tx = r.tx
         /\ WithUni(r, c).uni = c ++ r.uni
<1> DEFINE rx == r.rx  tx == r.tx  uni == r.uni
           a == c ++ r.rx[k]  b == c ++ r.tx  d == c ++ r.uni
<1>1. /\ WithRx(r, k, c) = [r EXCEPT !.rx[k] = a]
      /\ WithTx(r, c) = [r EXCEPT !.tx = b]
      /\ WithUni(r, c) = [r EXCEPT !.uni = d]
  BY Zenon DEF WithRx, WithTx, WithUni
<1>2. r = [rx |-> rx, tx |-> tx, uni |-> uni] /\ rx = [j \in Rx |-> rx[j]]
  BY DEF Formed
<1> HIDE DEF rx, tx, uni, a, b, d
<1>3. /\ [r EXCEPT !.rx[k] = a] = [rx |-> [rx EXCEPT ![k] = a], tx |-> tx, uni |-> uni]
      /\ [r EXCEPT !.tx = b] = [rx |-> rx, tx |-> b, uni |-> uni]
      /\ [r EXCEPT !.uni = d] = [rx |-> rx, tx |-> tx, uni |-> d]
  BY <1>2, Replaced
<1>4. QED
  BY <1>1, <1>2, <1>3 DEF Formed, rx, tx, uni, a, b, d

(* What a filter, an equaliser and the spectrum's window are told by and   *)
(* made of.                                                                *)
Bands == {"lo", "hi", "coef", "zfvec", "save"}
Curve == {"eq_parm", "eq_curve"}
Display == {"polyphase", "mask", "window", "wintype"}

BandTold(ch) ==
  /\ Bands \subseteq DOMAIN ch
  /\ ch.zfvec = ch.save /\ ch.zfvec.of = ch.coef
  /\ (ch.coef[1] # "taps" /\ ch.lo # ch.hi) => ch.coef = Band(ch.lo[2], ch.hi[2])

CurveTold(ch) ==
  /\ Curve \subseteq DOMAIN ch
  /\ (~Measure /\ ch.eq_parm # << >>) => ch.eq_curve # << >> /\ ch.eq_curve[1] = ch.eq_parm

DisplayTold(u) ==
  /\ Display \subseteq DOMAIN u /\ u.polyphase \in BOOLEAN
  /\ u.mask = IF u.polyphase THEN "8*size-1" ELSE "size-1"
  /\ u.window[1] = "WOLA" <=> u.polyphase
  /\ u.wintype[1] # "WOLA"
  /\ (~u.polyphase /\ u.wintype # Fresh) => u.window = u.wintype

ToldTx(ch) == BandTold(ch) /\ CurveTold(ch)
ToldRx(ch) == ToldTx(ch) /\ ch.zfvec = [of |-> ch.coef, normalised |-> TRUE]

AllTold(r) ==
  /\ Formed(r)
  /\ \A k \in Rx : ToldRx(r.rx[k])
  /\ ToldTx(r.tx) /\ DisplayTold(r.uni)

LEMMA Untouched ==
  ASSUME NEW c, NEW ch, NEW n, n = c ++ ch
  PROVE  /\ DOMAIN c \cap Bands = {} /\ BandTold(ch) =>
              BandTold(n) /\ n.zfvec = ch.zfvec /\ n.coef = ch.coef
         /\ DOMAIN c \cap Curve = {} /\ CurveTold(ch) => CurveTold(n)
         /\ DOMAIN c \cap Display = {} /\ DisplayTold(ch) => DisplayTold(n)
<1>1. \A x \in DOMAIN ch : x \notin DOMAIN c => x \in DOMAIN n /\ n[x] = ch[x]
  BY DEF ++
<1>2. ASSUME DOMAIN c \cap Bands = {}, BandTold(ch)
      PROVE  BandTold(n) /\ n.zfvec = ch.zfvec /\ n.coef = ch.coef
  BY <1>1, <1>2 DEF BandTold, Bands
<1>3. ASSUME DOMAIN c \cap Curve = {}, CurveTold(ch) PROVE CurveTold(n)
  BY <1>1, <1>3 DEF CurveTold, Curve
<1>4. ASSUME DOMAIN c \cap Display = {}, DisplayTold(ch) PROVE DisplayTold(n)
  BY <1>1, <1>4 DEF DisplayTold, Display
<1>5. QED
  BY <1>2, <1>3, <1>4

-----------------------------------------------------------------------------
(* Lines that store what they are given, or are about something else.      *)
Aside(c) == DOMAIN c \cap (Bands \cup Curve) = {}

LEMMA Elsewhere ==
  ASSUME NEW r, AllTold(r), NEW k \in Rx, NEW c
  PROVE  /\ Aside(c) => AllTold(WithRx(r, k, c)) /\ AllTold(WithTx(r, c))
         /\ DOMAIN c \cap Display = {} => AllTold(WithUni(r, c))
<1>1. Formed(r) /\ (\A j \in Rx : ToldRx(r.rx[j])) /\ ToldTx(r.tx) /\ DisplayTold(r.uni)
  BY DEF AllTold
<1> DEFINE x == WithRx(r, k, c)  t == WithTx(r, c)  u == WithUni(r, c)
           a == c ++ r.rx[k]  b == c ++ r.tx  d == c ++ r.uni
<1>2. a = c ++ r.rx[k] /\ b = c ++ r.tx /\ d = c ++ r.uni
  OBVIOUS
<1> HIDE DEF a, b, d
<1>3. (Aside(c) => ToldRx(a) /\ ToldTx(b)) /\ (DOMAIN c \cap Display = {} => DisplayTold(d))
  <2>1. ASSUME Aside(c) PROVE ToldTx(b)
    BY <1>1, <1>2, <2>1, Untouched DEF Aside, ToldTx
  <2>2. ASSUME Aside(c) PROVE ToldRx(a)
    <3>1. ToldTx(r.rx[k]) /\ r.rx[k].zfvec = [of |-> r.rx[k].coef, normalised |-> TRUE]
      BY <1>1 DEF ToldRx
    <3>2. DOMAIN c \cap Bands = {} /\ DOMAIN c \cap Curve = {}
      BY <2>2 DEF Aside
    <3>3. BandTold(a) /\ a.zfvec = r.rx[k].zfvec /\ a.coef = r.rx[k].coef /\ CurveTold(a)
      BY <1>2, <3>1, <3>2, Untouched DEF ToldTx
    <3>4. QED
      BY <3>1, <3>3 DEF ToldRx, ToldTx
  <2>3. ASSUME DOMAIN c \cap Display = {} PROVE DisplayTold(d)
    BY <1>1, <1>2, <2>3, Untouched
  <2>4. QED
    BY <2>1, <2>2, <2>3
<1>4. /\ Formed(x) /\ x.rx[k] = a /\ (\A j \in Rx \ {k} : x.rx[j] = r.rx[j])
      /\ x.tx = r.tx /\ x.uni = r.uni
      /\ Formed(t) /\ t.rx = r.rx /\ t.tx = b /\ t.uni = r.uni
      /\ Formed(u) /\ u.rx = r.rx /\ u.tx = r.tx /\ u.uni = d
  BY <1>1, <1>2, WithParts
<1> HIDE DEF x, t, u
<1>6. (Aside(c) => AllTold(x) /\ AllTold(t)) /\ (DOMAIN c \cap Display = {} => AllTold(u))
  BY <1>1, <1>3, <1>4 DEF AllTold
<1>7. QED
  BY <1>6 DEF x, t, u

(* No row stores anything that a filter or an equaliser is told by.        *)
Clear(rows) == \A c \in DOMAIN rows : Range(rows[c]) \cap (Bands \cup Curve) = {}

LEMMA JoinedClear ==
  ASSUME NEW tables, \A t \in tables : Clear(t)
  PROVE  Clear(Joined(tables))
BY DEF Clear, Joined

LEMMA RowsClear == Clear(RxSet) /\ Clear(TxSet)
<1> USE DEF Clear, Bands, Curve, Range
<1>1. Clear(RxBlock.set)
  BY SMTT(60) DEF RxBlock
<1>2. Clear(RxNoise.set)
  BY SMTT(60) DEF RxNoise
<1>3. Clear(RxAgc.set)
  BY SMTT(60) DEF RxAgc
<1>4. Clear(RxAgcTop.set)
  BY SMTT(60) DEF RxAgcTop
<1>5. Clear(RxAdaptive.set)
  BY SMTT(60) DEF RxAdaptive
<1>6. Clear(CorrectIQ.rx) /\ Clear(CorrectIQ.tx)
  BY SMTT(60) DEF CorrectIQ
<1>7. Clear(RxSquelch.set) /\ Clear(TxSquelch.set)
  BY DEF RxSquelch, TxSquelch
<1>8. Clear(RxSpot.set)
  BY DEF RxSpot
<1>9. Clear(TxLeveler.set)
  BY SMTT(60) DEF TxLeveler
<1>10. Clear(TxSpeech.set)
  BY SMTT(60) DEF TxSpeech
<1>11. Clear(TxCarrier.set) /\ Clear(TxShape.set)
  BY DEF TxCarrier, TxShape
<1> HIDE DEF Clear
<1>12. QED
  BY <1>1, <1>2, <1>3, <1>4, <1>5, <1>6, <1>7, <1>8, <1>9, <1>10, <1>11, JoinedClear
     DEF RxSet, TxSet

-----------------------------------------------------------------------------
(* Filters.                                                                *)

(* The radio after one channel's filter or equaliser has been changed.     *)
LEMMA Changed ==
  ASSUME NEW r, AllTold(r), NEW k \in Rx, NEW c
  PROVE  /\ ToldRx(c ++ r.rx[k]) => AllTold(WithRx(r, k, c))
         /\ ToldTx(c ++ r.tx) => AllTold(WithTx(r, c))
         /\ DisplayTold(c ++ r.uni) => AllTold(WithUni(r, c))
<1>1. Formed(r) /\ (\A j \in Rx : ToldRx(r.rx[j])) /\ ToldTx(r.tx) /\ DisplayTold(r.uni)
  BY DEF AllTold
<1> DEFINE x == WithRx(r, k, c)  t == WithTx(r, c)  u == WithUni(r, c)
           a == c ++ r.rx[k]  b == c ++ r.tx  d == c ++ r.uni
<1>2. /\ Formed(x) /\ x.rx[k] = a /\ (\A j \in Rx \ {k} : x.rx[j] = r.rx[j])
      /\ x.tx = r.tx /\ x.uni = r.uni
      /\ Formed(t) /\ t.rx = r.rx /\ t.tx = b /\ t.uni = r.uni
      /\ Formed(u) /\ u.rx = r.rx /\ u.tx = r.tx /\ u.uni = d
  BY <1>1, WithParts
<1> HIDE DEF x, t, u, a, b, d
<1>3. (ToldRx(a) => AllTold(x)) /\ (ToldTx(b) => AllTold(t)) /\ (DisplayTold(d) => AllTold(u))
  BY <1>1, <1>2 DEF AllTold
<1>4. QED
  BY <1>3 DEF x, t, u, a, b, d

(* A band whose edges are accepted can be made.                            *)
LEMMA BandMade ==
  ASSUME NEW lo \in Int, NEW hi \in Int, BadBand(lo, hi) = 0
  PROVE  NewBand(lo, hi) = Band(lo, hi)
<1>1. lo > -Nyquist /\ hi < Nyquist /\ lo + Apart < hi
  BY SettingsAssumption DEF BadBand
<1>2. ~(2 * lo < -(2 * Nyquist) \/ 2 * hi > 2 * Nyquist \/ hi <= lo \/ 1 < 1)
  BY <1>1, SettingsAssumption
<1>3. Filter!newFIR_Bandpass_COMPLEX(lo, hi, 2 * Nyquist, 1) # Filter!Null
  BY <1>2 DEF Filter!newFIR_Bandpass_COMPLEX, Filter!Filled, Filter!Null, Filter!newFIR_COMPLEX, Filter!Odd
<1>4. QED
  BY <1>3 DEF NewBand

LEMMA Refusal ==
  ASSUME NEW lo \in Int, NEW hi \in Int
  PROVE  BadBand(lo, hi) \in {0, -1, -2, -3}
BY DEF BadBand

LEMMA AsItWas == \A v : AsIs(v)[2] = v
BY DEF AsIs

(* Coefficients, and with them perhaps the edges they were made for.       *)
LEMMA Installed ==
  ASSUME NEW ch, ToldTx(ch), NEW coef, NEW norm \in BOOLEAN, NEW edges,
         \/ edges = << >> /\ coef[1] = "taps"
         \/ \E lo, hi : edges = [lo |-> AsIs(lo), hi |-> AsIs(hi)] /\ coef = Band(lo, hi),
         NEW n, n = (edges ++ Install(coef, norm)) ++ ch
  PROVE  ToldTx(n) /\ n.zfvec = [of |-> coef, normalised |-> norm] /\ n.coef = coef
<1> DEFINE c == edges ++ Install(coef, norm)
<1>1. DOMAIN edges \subseteq {"lo", "hi"}
  OBVIOUS
<1>3. n = c ++ ch
  OBVIOUS
<1>2. /\ DOMAIN c = DOMAIN edges \cup {"coef", "zfvec", "save"}
      /\ c["coef"] = coef /\ c["zfvec"] = [of |-> coef, normalised |-> norm]
      /\ c["save"] = [of |-> coef, normalised |-> norm]
      /\ \A x \in DOMAIN edges : c[x] = edges[x]
  BY <1>1 DEF Install, Transform, ++
<1> HIDE DEF c
<1>4. /\ DOMAIN n = DOMAIN c \cup DOMAIN ch
      /\ \A x \in DOMAIN c : n[x] = c[x]
      /\ \A x \in DOMAIN ch : x \notin DOMAIN c => n[x] = ch[x]
  BY <1>3 DEF ++
<1>5. /\ n.coef = coef /\ n.zfvec = [of |-> coef, normalised |-> norm]
      /\ n.save = [of |-> coef, normalised |-> norm]
  BY <1>2, <1>4
<1>6. CurveTold(n)
  BY <1>1, <1>2, <1>4 DEF ToldTx, CurveTold, Curve
<1>7. Bands \subseteq DOMAIN n
  BY <1>4 DEF ToldTx, BandTold
<1>8. (n.coef[1] # "taps" /\ n.lo # n.hi) => n.coef = Band(n.lo[2], n.hi[2])
  <2>1. CASE edges = << >> /\ coef[1] = "taps"
    BY <1>5, <2>1
  <2>2. CASE \E lo, hi : edges = [lo |-> AsIs(lo), hi |-> AsIs(hi)] /\ coef = Band(lo, hi)
    <3>1. PICK lo, hi : edges = [lo |-> AsIs(lo), hi |-> AsIs(hi)] /\ coef = Band(lo, hi)
      BY <2>2
    <3>2. n.lo = AsIs(lo) /\ n.hi = AsIs(hi)
      BY <1>2, <1>4, <3>1
    <3>3. n.lo[2] = lo /\ n.hi[2] = hi
      BY ONLY <3>2, AsItWas
    <3>4. QED
      BY <1>5, <3>1, <3>3
  <2>3. QED
    BY <2>1, <2>2
<1>9. QED
  BY <1>5, <1>6, <1>7, <1>8 DEF ToldTx, BandTold

-----------------------------------------------------------------------------
(* What a handler may return: a radio that tells what is installed, and    *)
(* the same as before when the code is not 0.                              *)
Fair(s, r) == AllTold(s.radio) /\ s.code \in Int /\ (s.code # 0 => s.radio = r)

LEMMA Returned ==
  ASSUME NEW r, NEW e
  PROVE  /\ Done(r).radio = r /\ Done(r).code = 0
         /\ Refuse(r, e).radio = r /\ Refuse(r, e).code = e
BY DEF Done, Refuse

LEMMA FairReturn ==
  ASSUME NEW r, AllTold(r), NEW e \in Int
  PROVE  Fair(Refuse(r, e), r) /\ (\A s : AllTold(s) => Fair(Done(s), r))
BY Returned DEF Fair

LEMMA FairStore ==
  ASSUME NEW r, AllTold(r), NEW k \in Rx, NEW c
  PROVE  /\ Aside(c) => Fair(Done(WithRx(r, k, c)), r) /\ Fair(Done(WithTx(r, c)), r)
         /\ DOMAIN c \cap Display = {} => Fair(Done(WithUni(r, c)), r)
BY Elsewhere, FairReturn

(* A row of a table.                                                       *)
LEMMA RowFair ==
  ASSUME NEW r, AllTold(r), NEW k \in Rx, NEW c, NEW a
  PROVE  /\ c \in DOMAIN RxSet => Fair(Done(WithRx(r, k, Store(RxSet[c], c, a))), r)
         /\ c \in DOMAIN TxSet => Fair(Done(WithTx(r, Store(TxSet[c], c, a))), r)
         /\ c \in DOMAIN Meter.set => Fair(Done(WithUni(r, Store(Meter.set[c], c, a))), r)
<1>1. c \in DOMAIN RxSet => Aside(Store(RxSet[c], c, a))
  BY RowsClear DEF Clear, Store, Aside
<1>2. c \in DOMAIN TxSet => Aside(Store(TxSet[c], c, a))
  BY RowsClear DEF Clear, Store, Aside
<1>3. c \in DOMAIN Meter.set => DOMAIN Store(Meter.set[c], c, a) \cap Display = {}
  BY DEF Meter, Store, Display, Range
<1>4. QED
  BY <1>1, <1>2, <1>3, FairStore

(* Handlers that have nothing to do with filters, equalisers and the       *)
(* spectrum.                                                               *)
LEMMA PlainFair ==
  ASSUME NEW r, AllTold(r), NEW k \in Rx, NEW a \in Seq(Int)
  PROVE  /\ Fair(SetOsc(r, k, a), r)
         /\ Fair(SetfixedAGC(r, k, a), r)
         /\ Fair(SetRXAGC(r, k, a), r)
         /\ Fair(SetRXAGCAttack(r, k, a), r)
         /\ Fair(SetTXWaveShapeFunc(r, a), r)
         /\ Fair(SetSpotTone(r, k, a), r)
         /\ Fair(SetRXPan(r, k, a), r)
         /\ Fair(SetGain(r, k, a), r)
<1> USE DEF Aside, Bands, Curve
<1>1. ASSUME NEW c, Aside(c) PROVE AllTold(Addressed(r, k, a, c))
  BY <1>1, Elsewhere DEF Addressed
<1>2. Fair(SetOsc(r, k, a), r)
  <2>1. Aside([osc |-> Stored("setOsc", a[1])])
    OBVIOUS
  <2>2. AllTold(Addressed(r, k, a, [osc |-> Stored("setOsc", a[1])]))
    BY <1>1, <2>1
  <2>3. QED
    BY <2>2, FairReturn DEF SetOsc
<1>3. Fair(SetfixedAGC(r, k, a), r)
  <2>1. Aside([now |-> a[1]])
    OBVIOUS
  <2>2. AllTold(Addressed(r, k, a, [now |-> a[1]]))
    BY <1>1, <2>1
  <2>3. QED
    BY <2>2, FairReturn DEF SetfixedAGC
<1>4. Fair(SetRXAGC(r, k, a), r)
  <2> DEFINE x == [agc_attack |-> <<"preset", 0>>]
             y == IF a[1] \in 0 .. 4 THEN [agc_flag |-> AsIs(1)] ELSE << >>
             z == IF a[1] \in 1 .. 4
                  THEN [agc_decay |-> <<"preset", a[1]>>, agc_hangtime |-> <<"preset", a[1]>>]
                  ELSE << >>
  <2>1. Aside((x ++ y) ++ z)
    <3>1. DOMAIN x \subseteq {"agc_attack"} /\ DOMAIN y \subseteq {"agc_flag"}
          /\ DOMAIN z \subseteq {"agc_decay", "agc_hangtime"}
      OBVIOUS
    <3> HIDE DEF x, y, z
    <3>2. DOMAIN ((x ++ y) ++ z) = (DOMAIN x \cup DOMAIN y) \cup DOMAIN z
      BY DEF ++
    <3>3. QED
      BY <3>1, <3>2
  <2>2. QED
    BY <2>1, FairStore DEF SetRXAGC
<1>5. Fair(SetRXAGCAttack(r, k, a), r)
  <2>1. Aside([agc_attack |-> Stored("setRXAGCAttack", a[1])])
    OBVIOUS
  <2>2. QED
    BY <2>1, FairStore DEF SetRXAGCAttack
<1>6. Fair(SetTXWaveShapeFunc(r, a), r)
  <2>1. \A t : Aside([wvs_tbl |-> t])
    OBVIOUS
  <2>2. QED
    BY <2>1, FairStore DEF SetTXWaveShapeFunc
<1>7. Fair(SetSpotTone(r, k, a), r)
  <2>1. Aside([spot_flag |-> AsIs(1), spot_on |-> TRUE]) /\ Aside([spot_on |-> FALSE])
    OBVIOUS
  <2>2. QED
    BY <2>1, FairStore DEF SetSpotTone
<1>8. Fair(SetRXPan(r, k, a), r)
  <2>1. \A t : Aside([azim |-> t])
    OBVIOUS
  <2>2. QED
    <3>1. \A t : Fair(Done(WithRx(r, k, [azim |-> t])), r)
      BY <2>1, FairStore
    <3>2. Fair(Refuse(r, -1), r)
      BY FairReturn
    <3>3. QED
      BY <3>1, <3>2, Zenon DEF SetRXPan
<1>9. Fair(SetGain(r, k, a), r)
  <2>1. \A t : Aside([gain_i |-> t]) /\ Aside([gain_o |-> t])
    OBVIOUS
  <2> HIDE DEF Aside
  <2>2. QED
    BY <2>1, FairStore, FairReturn, SMTT(60) DEF SetGain
<1>10. QED
  BY <1>2, <1>3, <1>4, <1>5, <1>6, <1>7, <1>8, <1>9

LEMMA FlagFair ==
  ASSUME NEW r, AllTold(r), NEW k \in Rx, NEW a \in Seq(Int)
  PROVE  /\ Fair(SetCompandSt(r, k, a), r)
         /\ Fair(SetCompand(r, k, a), r)
         /\ \A trx : Fair(SetGrphEQcmd(r, k, a, trx), r)
         /\ Fair(SetTXCompandSt(r, a), r)
         /\ Fair(SetTXCompand(r, a), r)
         /\ Fair(SetDCBlockSt(r, a), r)
         /\ Fair(SetDCBlock(r, a), r)
         /\ Fair(SetNotch160(r, a), r)
<1>1. \A t : /\ Aside([cpd_flag |-> t]) /\ Aside([cpd_fac |-> t])
             /\ Aside([eq_flag |-> t]) /\ Aside([dcb_flag |-> t])
  BY DEF Aside, Bands, Curve
<1>2. Fair(SetCompandSt(r, k, a), r)
  BY <1>1, FairStore DEF SetCompandSt
<1>3. Fair(SetCompand(r, k, a), r)
  <2>1. /\ Fair(Done(WithRx(r, k, [cpd_fac |-> AsIs(a[1])])), r)
        /\ Fair(Done(WithTx(r, [cpd_fac |-> AsIs(a[1])])), r)
    BY <1>1, FairStore
  <2>2. Fair(Refuse(r, -1), r)
    BY FairReturn
  <2>3. QED
    BY <2>1, <2>2, Zenon DEF SetCompand
<1>4. \A trx : Fair(SetGrphEQcmd(r, k, a, trx), r)
  BY <1>1, FairStore DEF SetGrphEQcmd
<1>5. Fair(SetTXCompandSt(r, a), r) /\ Fair(SetDCBlockSt(r, a), r)
  BY <1>1, FairStore DEF SetTXCompandSt, SetDCBlockSt
<1>6. Fair(SetTXCompand(r, a), r)
  <2>1. Fair(Done(WithTx(r, [cpd_fac |-> AsIs(a[1])])), r)
    BY <1>1, FairStore
  <2>2. Fair(Refuse(r, -1), r)
    BY FairReturn
  <2>3. QED
    BY <2>1, <2>2, Zenon DEF SetTXCompand
<1>7. Fair(SetDCBlock(r, a), r) /\ Fair(SetNotch160(r, a), r)
  BY FairReturn DEF SetDCBlock, SetNotch160
<1>8. QED
  BY <1>2, <1>3, <1>4, <1>5, <1>6, <1>7

LEMMA TestFair ==
  ASSUME NEW r, AllTold(r), NEW a \in Seq(Int)
  PROVE  /\ Fair(SetTEST(r, a), r) /\ Fair(SetTestTone(r, a), r)
         /\ Fair(SetTestTwoTone(r, a), r) /\ Fair(SetTestNoise(r, a), r)
         /\ Fair(SetTestThru(r, a), r)
<1>0. 0 \in Rx
  BY SettingsAssumption DEF Rx
<1>1. ASSUME NEW c, DOMAIN c \cap Display = {}, NEW n
      PROVE  Fair(Test(r, a, n, c), r)
  BY <1>0, <1>1, FairStore, FairReturn DEF Test
<1>2. \A t, u, v, w :
        /\ DOMAIN [test_mode |-> t] \cap Display = {}
        /\ DOMAIN [tone_osc |-> t, tone_amp |-> u] \cap Display = {}
        /\ DOMAIN [a_osc |-> t, a_amp |-> u, b_osc |-> v, b_amp |-> w] \cap Display = {}
        /\ DOMAIN [noise_amp |-> t] \cap Display = {}
        /\ DOMAIN [test_thru |-> t] \cap Display = {}
  BY DEF Display
<1>3. Fair(SetTEST(r, a), r)
  BY <1>0, <1>2, FairStore, FairReturn DEF SetTEST
<1>4. Fair(SetTestTone(r, a), r) /\ Fair(SetTestTwoTone(r, a), r)
  BY <1>1, <1>2 DEF SetTestTone, SetTestTwoTone
<1>5. Fair(SetTestNoise(r, a), r) /\ Fair(SetTestThru(r, a), r)
  BY <1>1, <1>2 DEF SetTestNoise, SetTestThru
<1>6. QED
  BY <1>3, <1>4, <1>5

(* Filters.                                                                *)
LEMMA FilterFair ==
  ASSUME NEW r, AllTold(r), NEW k \in Rx, NEW a \in Seq(Int)
  PROVE  /\ Len(a) >= 2 => Fair(SetFilter(r, k, a), r)
         /\ Fair(SetRXFiltCoefs(r, k, a), r) /\ Fair(SetTXFiltCoefs(r, k, a), r)
<1>1. ToldTx(r.tx) /\ ToldTx(r.rx[k]) /\ ToldRx(r.rx[k])
  BY DEF AllTold, ToldRx
<1>2. ASSUME Len(a) >= 2 PROVE Fair(SetFilter(r, k, a), r)
  <2> DEFINE lo == a[1]  hi == a[2]
             edges == [lo |-> AsIs(lo), hi |-> AsIs(hi)]
             c == edges ++ Install(Band(lo, hi), TRUE)
  <2>1. lo \in Int /\ hi \in Int
    BY <1>2
  <2> HIDE DEF lo, hi
  <2>2. BadBand(lo, hi) \in {0, -1, -2, -3}
    BY <2>1, Refusal
  <2>3. ToldTx(c ++ r.tx) /\ ToldRx(c ++ r.rx[k])
    <3> DEFINE coef == Band(lo, hi)
    <3>1. \E x, y : edges = [lo |-> AsIs(x), hi |-> AsIs(y)] /\ coef = Band(x, y)
      OBVIOUS
    <3> HIDE DEF edges, coef
    <3>2. ASSUME NEW norm \in BOOLEAN, NEW ch, ToldTx(ch),
                 NEW n, n = (edges ++ Install(coef, norm)) ++ ch
          PROVE  ToldTx(n) /\ n.zfvec = [of |-> coef, normalised |-> norm] /\ n.coef = coef
      BY <3>1, <3>2, Installed
    <3>3. ASSUME NEW ch, ToldTx(ch), NEW n, n = (edges ++ Install(coef, TRUE)) ++ ch
          PROVE  ToldTx(n) /\ ToldRx(n)
      BY <3>2, <3>3 DEF ToldRx
    <3>4. QED
      BY <1>1, <3>3 DEF coef
  <2>4. ASSUME BadBand(lo, hi) = 0
        PROVE  Fair(Done(WithRx(r, k, c)), r) /\ Fair(Done(WithTx(r, c)), r)
    <3> HIDE DEF c
    <3>1. AllTold(WithRx(r, k, c)) /\ AllTold(WithTx(r, c))
      BY <2>3, Changed
    <3>2. QED
      BY <3>1, FairReturn
  <2>5. ASSUME BadBand(lo, hi) # 0 PROVE Fair(Refuse(r, BadBand(lo, hi)), r)
    BY <2>2, FairReturn
  <2>6. Fair(SetRXFilter(r, k, a), r)
    <3>1. CASE BadBand(lo, hi) = 0
      <4>1. SetRXFilter(r, k, a) = Done(WithRx(r, k, c))
        BY <2>1, <3>1, BandMade DEF SetRXFilter, lo, hi
      <4>2. QED
        BY <2>4, <3>1, <4>1
    <3>2. CASE BadBand(lo, hi) # 0
      <4>1. SetRXFilter(r, k, a) = Refuse(r, BadBand(lo, hi))
        BY <3>2 DEF SetRXFilter, lo, hi
      <4>2. QED
        BY <2>5, <3>2, <4>1
    <3>3. QED
      BY <3>1, <3>2
  <2>7. Fair(SetTXFilter(r, a), r)
    <3>1. CASE BadBand(lo, hi) = 0
      <4>1. SetTXFilter(r, a) = Done(WithTx(r, c))
        BY <2>1, <3>1, BandMade DEF SetTXFilter, lo, hi
      <4>2. QED
        BY <2>4, <3>1, <4>1
    <3>2. CASE BadBand(lo, hi) # 0
      <4>1. SetTXFilter(r, a) = Refuse(r, BadBand(lo, hi))
        BY <3>2 DEF SetTXFilter, lo, hi
      <4>2. QED
        BY <2>5, <3>2, <4>1
    <3>3. QED
      BY <3>1, <3>2
  <2>8. Fair(Refuse(r, -1), r)
    BY FairReturn
  <2>9. QED
    BY <2>6, <2>7, <2>8, Zenon DEF SetFilter
<1> DEFINE coef == <<"taps", a>>
<1>3. coef[1] = "taps"
  OBVIOUS
<1> HIDE DEF coef
<1>4. ASSUME NEW ch, ToldTx(ch), NEW norm \in BOOLEAN, NEW n, n = Install(coef, norm) ++ ch
      PROVE  ToldTx(n) /\ n.zfvec = [of |-> coef, normalised |-> norm] /\ n.coef = coef
  <2> DEFINE i == Install(coef, norm)
  <2>1. << >> ++ i = i
    BY DEF Install, ++
  <2>2. n = (<< >> ++ i) ++ ch
    BY <1>4, <2>1
  <2>3. QED
    BY <1>3, <1>4, <2>2, Installed
<1>5. Fair(SetRXFiltCoefs(r, k, a), r)
  <2> DEFINE n == Install(coef, TRUE) ++ r.rx[k]
  <2>1. ToldTx(n) /\ n.zfvec = [of |-> coef, normalised |-> TRUE] /\ n.coef = coef
    BY <1>1, <1>4
  <2>2. ToldRx(n)
    BY <2>1 DEF ToldRx
  <2>3. AllTold(WithRx(r, k, Install(coef, TRUE)))
    BY <2>2, Changed
  <2>4. QED
    <3>1. Fair(Done(WithRx(r, k, Install(coef, TRUE))), r)
      <4>1. \A s : AllTold(s) => Fair(Done(s), r)
        BY FairReturn
      <4>2. QED
        BY <2>3, <4>1, Zenon
    <3>2. QED
      BY <3>1, Zenon DEF SetRXFiltCoefs, coef
<1>6. Fair(SetTXFiltCoefs(r, k, a), r)
  <2> DEFINE s == WithTx(r, Install(coef, FALSE))
             z == Transform(r.rx[k].zfvec.of, TRUE)
             c == [zfvec |-> z]
             n == c ++ s.rx[k]
  <2>1. ToldTx(Install(coef, FALSE) ++ r.tx)
    BY <1>1, <1>4
  <2>2. AllTold(s) /\ s.rx = r.rx
    BY <2>1, Changed, WithParts DEF AllTold
  <2>3. z = r.rx[k].zfvec
    BY <1>1 DEF ToldRx, Transform
  <2> HIDE DEF s, z
  <2>4. DOMAIN c = {"zfvec"} /\ c["zfvec"] = z
    OBVIOUS
  <2>5. n = c ++ s.rx[k]
    OBVIOUS
  <2> HIDE DEF c, n
  <2>6. n.zfvec = r.rx[k].zfvec /\ DOMAIN n = {"zfvec"} \cup DOMAIN r.rx[k]
        /\ \A x \in DOMAIN r.rx[k] : n[x] = r.rx[k][x]
    BY <2>2, <2>3, <2>4, <2>5 DEF ++
  <2>7. ToldRx(n)
    BY <1>1, <2>6 DEF ToldRx, ToldTx, BandTold, CurveTold, Bands, Curve
  <2>8. AllTold(WithRx(s, k, c))
    BY <2>2, <2>5, <2>7, Changed
  <2>9. QED
    <3>1. Fair(Done(WithRx(s, k, c)), r)
      BY <2>8, FairReturn
    <3>2. QED
      BY <3>1, Zenon DEF SetTXFiltCoefs, s, z, c, coef
<1>7. QED
  BY <1>2, <1>5, <1>6

(* Equalisers.  A curve may be spoilt only while plans are measured.       *)
LEMMA CurveFair ==
  ASSUME NEW r, AllTold(r), NEW k \in Rx, NEW a \in Seq(Int), NEW spoilt \in BOOLEAN,
         spoilt => Measure, NEW size
  PROVE  Fair(SetGrphRXEQ(r, k, a, size, spoilt), r) /\ Fair(SetGrphTXEQ(r, a, size, spoilt), r)
<1>1. ASSUME NEW at, NEW ch, ToldTx(ch), NEW n, n = SetGrphEQ(a, size, at, spoilt) ++ ch
      PROVE  /\ ToldTx(n) /\ n.zfvec = ch.zfvec /\ n.coef = ch.coef
  <2> DEFINE parm == <<size, SubSeq(a, 1, size + 1)>>
             curve == IF spoilt THEN << >> ELSE <<parm, at>>
             c == [eq_parm |-> parm, eq_curve |-> curve]
  <2>1. n = c ++ ch
    BY <1>1 DEF SetGrphEQ
  <2>2. DOMAIN c \cap Bands = {}
    BY DEF Bands
  <2>3. ~spoilt => curve # << >> /\ curve[1] = parm
    OBVIOUS
  <2>4. DOMAIN c = Curve /\ c["eq_parm"] = parm /\ c["eq_curve"] = curve
    BY DEF Curve
  <2> HIDE DEF parm, curve, c
  <2>5. BandTold(n) /\ n.zfvec = ch.zfvec /\ n.coef = ch.coef
    BY <1>1, <2>1, <2>2, Untouched DEF ToldTx
  <2>6. n.eq_parm = parm /\ n.eq_curve = curve /\ Curve \subseteq DOMAIN n
    BY <2>1, <2>4 DEF Curve, ++
  <2>7. CurveTold(n)
    BY <2>3, <2>6 DEF CurveTold
  <2>8. QED
    BY <2>5, <2>7 DEF ToldTx
<1>2. ToldTx(r.tx) /\ ToldTx(r.rx[k]) /\ ToldRx(r.rx[k])
  BY DEF AllTold, ToldRx
<1>3. ASSUME NEW at PROVE AllTold(WithTx(r, SetGrphEQ(a, size, at, spoilt)))
  BY <1>1, <1>2, Changed
<1>4. AllTold(WithRx(r, k, SetGrphEQ(a, size, 254, spoilt)))
  <2> DEFINE n == SetGrphEQ(a, size, 254, spoilt) ++ r.rx[k]
  <2>1. ToldTx(n) /\ n.zfvec = r.rx[k].zfvec /\ n.coef = r.rx[k].coef
    BY <1>1, <1>2
  <2>2. ToldRx(n)
    BY <1>2, <2>1 DEF ToldRx
  <2>3. QED
    BY <2>2, Changed
<1>5. Fair(Refuse(r, -1), r)
  BY FairReturn
<1>6. /\ Fair(Done(WithRx(r, k, SetGrphEQ(a, size, 254, spoilt))), r)
      /\ \A at : Fair(Done(WithTx(r, SetGrphEQ(a, size, at, spoilt))), r)
  BY <1>3, <1>4, FairReturn
<1>7. Fair(SetGrphRXEQ(r, k, a, size, spoilt), r)
  BY <1>5, <1>6, Zenon DEF SetGrphRXEQ
<1>8. Fair(SetGrphTXEQ(r, a, size, spoilt), r)
  BY <1>5, <1>6, Zenon DEF SetGrphTXEQ
<1>9. QED
  BY <1>7, <1>8

LEMMA ModeFair ==
  ASSUME NEW r, AllTold(r), NEW k \in Rx, NEW a \in Seq(Int)
  PROVE  Fair(SetMode(r, k, a), r)
<1> DEFINE m == [mode |-> AsIs(a[1])]
           u == [mode_sdr |-> AsIs(a[1])]
           s == Addressed(r, k, a, m)
           t == IF Len(a) > 1 THEN s ELSE WithUni(s, u)
           d == CASE t.rx[k].mode = AsIs(AM)  -> [det |-> AMdet]
                  [] t.rx[k].mode = AsIs(SAM) -> [det |-> SAMdet]
                  [] OTHER                    -> << >>
<1>1. Aside(m) /\ DOMAIN u \cap Display = {}
  BY DEF Aside, Bands, Curve, Display
<1>2. \A x : Aside([det |-> x])
  BY DEF Aside, Bands, Curve
<1>3. Aside(<< >>)
  BY DEF Aside
<1>4. SetMode(r, k, a) = Done(WithRx(t, k, d))
  BY Zenon DEF SetMode
<1> HIDE DEF m, u
<1>5. AllTold(s)
  BY <1>1, Elsewhere DEF Addressed
<1> HIDE DEF s
<1>6. AllTold(t)
  BY <1>1, <1>5, Elsewhere
<1> HIDE DEF t
<1>7. Aside(d)
  BY <1>2, <1>3, Zenon
<1> HIDE DEF d
<1>8. AllTold(WithRx(t, k, d))
  BY <1>6, <1>7, Elsewhere
<1>9. QED
  BY <1>4, <1>8, FairReturn

(* The spectrum's window and ring.                                         *)
LEMMA SpectrumFair ==
  ASSUME NEW r, AllTold(r), NEW k \in Rx, NEW a \in Seq(Int)
  PROVE  /\ Fair(SetSpectrumPolyphase(r, a), r) /\ Fair(SetSpectrumWindow(r, a), r)
         /\ LET s == SetSpectrumType(r, k, a) IN AllTold(s.radio) /\ s.code \in Int
<1> DEFINE w == r.uni
<1>1. DisplayTold(w)
  BY DEF AllTold
<1>2. Fair(SetSpectrumPolyphase(r, a), r)
  <2> DEFINE on == a[1] # 0
             mask == IF on THEN "8*size-1" ELSE "size-1"
             window == IF on THEN <<"WOLA", 0>> ELSE w.wintype
             c == [polyphase |-> on, mask |-> mask, window |-> window]
             n == c ++ w
  <2>1. on \in BOOLEAN
    OBVIOUS
  <2>2. (on => window[1] = "WOLA") /\ (~on => window = w.wintype)
    OBVIOUS
  <2>3. mask = IF on THEN "8*size-1" ELSE "size-1"
    OBVIOUS
  <2>4. SetSpectrumPolyphase(r, a) =
          IF w.polyphase = on THEN Done(r) ELSE Done(WithUni(r, c))
    BY Zenon DEF SetSpectrumPolyphase
  <2>5. /\ DOMAIN c = {"polyphase", "mask", "window"}
        /\ c["polyphase"] = on /\ c["mask"] = mask /\ c["window"] = window
    OBVIOUS
  <2>6. n = c ++ w
    OBVIOUS
  <2> HIDE DEF on, mask, window, c, n, w
  <2>7. /\ DOMAIN n = {"polyphase", "mask", "window"} \cup DOMAIN w
        /\ n["polyphase"] = on /\ n["mask"] = mask /\ n["window"] = window
        /\ "wintype" \in DOMAIN w => n["wintype"] = w["wintype"]
    BY <2>5, <2>6 DEF ++
  <2>8. DisplayTold(n)
    BY <1>1, <2>1, <2>2, <2>3, <2>7 DEF DisplayTold, Display
  <2>9. AllTold(WithUni(r, c))
    BY <2>8, Changed DEF n, w
  <2>10. QED
    BY <2>4, <2>9, FairReturn
<1>3. Fair(SetSpectrumWindow(r, a), r)
  <2> DEFINE v == AsIs(a[1])
             x == [wintype |-> v]
             y == IF w.polyphase THEN << >> ELSE [window |-> v]
             c == x ++ y
             n == c ++ w
  <2>1. v[1] # "WOLA"
    BY DEF AsIs
  <2>2. SetSpectrumWindow(r, a) = Done(WithUni(r, c))
    BY Zenon DEF SetSpectrumWindow
  <2> HIDE DEF v
  <2>3. /\ DOMAIN x = {"wintype"} /\ x["wintype"] = v
        /\ w.polyphase => DOMAIN y = {}
        /\ ~w.polyphase => DOMAIN y = {"window"} /\ y["window"] = v
    OBVIOUS
  <2>4. c = x ++ y /\ n = c ++ w
    OBVIOUS
  <2> HIDE DEF x, y, c, n, w
  <2>5. /\ DOMAIN c = {"wintype"} \cup DOMAIN y /\ c["wintype"] = v
        /\ ~w.polyphase => c["window"] = v
    BY <2>3, <2>4 DEF ++
  <2>6. /\ DOMAIN n = DOMAIN c \cup DOMAIN w /\ n["wintype"] = v
        /\ n["polyphase"] = w["polyphase"] /\ n["mask"] = w["mask"]
        /\ n["window"] = IF w.polyphase THEN w["window"] ELSE v
    BY <1>1, <2>3, <2>4, <2>5 DEF ++, DisplayTold, Display
  <2>7. DisplayTold(n)
    BY <1>1, <2>1, <2>6 DEF DisplayTold, Display
  <2>8. AllTold(WithUni(r, c))
    BY <2>4, <2>7, Changed DEF w
  <2>9. QED
    BY <2>2, <2>8, FairReturn
<1>4. LET s == SetSpectrumType(r, k, a) IN AllTold(s.radio) /\ s.code \in Int
  <2> DEFINE c == [type  |-> IF Len(a) \in 1 .. 3 THEN a[1] ELSE 2,
                   scale |-> IF Len(a) \in 2 .. 3 THEN a[2] ELSE 1,
                   rxk   |-> IF Len(a) = 3 THEN a[3] ELSE k]
             u == WithUni(r, c)
  <2>1. DOMAIN c \cap Display = {}
    BY DEF Display
  <2>2. SetSpectrumType(r, k, a) = IF Len(a) > 3 THEN Refuse(u, -1) ELSE Done(u)
    BY Zenon DEF SetSpectrumType
  <2> HIDE DEF c
  <2>3. AllTold(u)
    BY <2>1, Elsewhere
  <2> HIDE DEF u
  <2>4. QED
    BY <2>2, <2>3, Returned
<1>5. QED
  BY <1>2, <1>3, <1>4

-----------------------------------------------------------------------------
(* One line.                                                               *)

(* What a command of the table runs that is not a row.                     *)
LEMMA RunsOwn ==
  ASSUME NEW r, NEW k, NEW c, NEW a, NEW spoilt, NEW s, s = RunOwn(r, k, c, a, spoilt)
  PROVE  /\ c = "setFilter" => s = SetFilter(r, k, a)
         /\ c = "setRXFiltCoefs" => s = SetRXFiltCoefs(r, k, a)
         /\ c = "setTXFiltCoefs" => s = SetTXFiltCoefs(r, k, a)
         /\ c = "setMode" => s = SetMode(r, k, a)
         /\ c = "setOsc" => s = SetOsc(r, k, a)
         /\ c = "setfixedAGC" => s = SetfixedAGC(r, k, a)
         /\ c = "setRXAGC" => s = SetRXAGC(r, k, a)
         /\ c = "setRXAGCAttack" => s = SetRXAGCAttack(r, k, a)
         /\ c = "setGrphRXEQ3" => s = SetGrphRXEQ(r, k, a, 3, spoilt)
         /\ c = "setGrphRXEQ10" => s = SetGrphRXEQ(r, k, a, 10, spoilt)
         /\ c = "setGrphTXEQ3" => s = SetGrphTXEQ(r, a, 3, spoilt)
         /\ c = "setGrphTXEQ10" => s = SetGrphTXEQ(r, a, 10, spoilt)
         /\ c = "setGrphRXEQcmd" => s = SetGrphEQcmd(r, k, a, RX)
         /\ c = "setGrphTXEQcmd" => s = SetGrphEQcmd(r, k, a, TX)
         /\ c = "setTXWaveShapeFunc" => s = SetTXWaveShapeFunc(r, a)
         /\ c = "setSpotTone" => s = SetSpotTone(r, k, a)
         /\ c = "setRXPan" => s = SetRXPan(r, k, a)
         /\ c = "setGain" => s = SetGain(r, k, a)
         /\ c = "setCompandSt" => s = SetCompandSt(r, k, a)
         /\ c = "setCompand" => s = SetCompand(r, k, a)
         /\ c = "setTXCompandSt" => s = SetTXCompandSt(r, a)
         /\ c = "setTXCompand" => s = SetTXCompand(r, a)
         /\ c = "setDCBlockSt" => s = SetDCBlockSt(r, a)
         /\ c = "setDCBlock" => s = SetDCBlock(r, a)
         /\ c = "setSpectrumPolyphase" => s = SetSpectrumPolyphase(r, a)
         /\ c = "setSpectrumWindow" => s = SetSpectrumWindow(r, a)
         /\ c = "setSpectrumType" => s = SetSpectrumType(r, k, a)
         /\ c = "setTEST" => s = SetTEST(r, a)
         /\ c = "setTestTone" => s = SetTestTone(r, a)
         /\ c = "setTestTwoTone" => s = SetTestTwoTone(r, a)
         /\ c = "setTestNoise" => s = SetTestNoise(r, a)
         /\ c = "setTestThru" => s = SetTestThru(r, a)
         /\ c = "setNotch160" => s = SetNotch160(r, a)
<1>1. /\ c = "setFilter" => s = SetFilter(r, k, a)
      /\ c = "setRXFiltCoefs" => s = SetRXFiltCoefs(r, k, a)
      /\ c = "setTXFiltCoefs" => s = SetTXFiltCoefs(r, k, a)
      /\ c = "setMode" => s = SetMode(r, k, a)
      /\ c = "setOsc" => s = SetOsc(r, k, a)
      /\ c = "setfixedAGC" => s = SetfixedAGC(r, k, a)
  BY SMTT(60) DEF RunOwn
<1>2. /\ c = "setRXAGC" => s = SetRXAGC(r, k, a)
      /\ c = "setRXAGCAttack" => s = SetRXAGCAttack(r, k, a)
      /\ c = "setGrphRXEQ3" => s = SetGrphRXEQ(r, k, a, 3, spoilt)
      /\ c = "setGrphRXEQ10" => s = SetGrphRXEQ(r, k, a, 10, spoilt)
      /\ c = "setGrphTXEQ3" => s = SetGrphTXEQ(r, a, 3, spoilt)
      /\ c = "setGrphTXEQ10" => s = SetGrphTXEQ(r, a, 10, spoilt)
  BY SMTT(60) DEF RunOwn
<1>3. /\ c = "setGrphRXEQcmd" => s = SetGrphEQcmd(r, k, a, RX)
      /\ c = "setGrphTXEQcmd" => s = SetGrphEQcmd(r, k, a, TX)
      /\ c = "setTXWaveShapeFunc" => s = SetTXWaveShapeFunc(r, a)
      /\ c = "setSpotTone" => s = SetSpotTone(r, k, a)
      /\ c = "setRXPan" => s = SetRXPan(r, k, a)
      /\ c = "setGain" => s = SetGain(r, k, a)
  BY SMTT(60) DEF RunOwn
<1>4. /\ c = "setCompandSt" => s = SetCompandSt(r, k, a)
      /\ c = "setCompand" => s = SetCompand(r, k, a)
      /\ c = "setTXCompandSt" => s = SetTXCompandSt(r, a)
      /\ c = "setTXCompand" => s = SetTXCompand(r, a)
      /\ c = "setDCBlockSt" => s = SetDCBlockSt(r, a)
      /\ c = "setDCBlock" => s = SetDCBlock(r, a)
  BY SMTT(60) DEF RunOwn
<1>5. /\ c = "setSpectrumPolyphase" => s = SetSpectrumPolyphase(r, a)
      /\ c = "setSpectrumWindow" => s = SetSpectrumWindow(r, a)
      /\ c = "setSpectrumType" => s = SetSpectrumType(r, k, a)
      /\ c = "setTEST" => s = SetTEST(r, a)
      /\ c = "setTestTone" => s = SetTestTone(r, a)
      /\ c = "setTestTwoTone" => s = SetTestTwoTone(r, a)
  BY SMTT(60) DEF RunOwn
<1>6. /\ c = "setTestNoise" => s = SetTestNoise(r, a)
      /\ c = "setTestThru" => s = SetTestThru(r, a)
      /\ c = "setNotch160" => s = SetNotch160(r, a)
  BY SMTT(60) DEF RunOwn
<1>7. QED
  BY <1>1, <1>2, <1>3, <1>4, <1>5, <1>6

LEMMA RunFair ==
  ASSUME NEW r, AllTold(r), NEW k \in Rx, NEW c \in Handlers, NEW a \in Seq(Int),
         c = "setFilter" => Len(a) >= 2, NEW spoilt \in BOOLEAN, spoilt => Measure,
         NEW s, s = Run(r, k, c, a, spoilt)
  PROVE  AllTold(s.radio) /\ s.code \in Int /\ (c = "setSpectrumType" \/ Fair(s, r))
<1>1. CASE c \in DOMAIN RxSet
  <2>1. s = Done(WithRx(r, k, Store(RxSet[c], c, a)))
    BY <1>1 DEF Run
  <2>2. Fair(Done(WithRx(r, k, Store(RxSet[c], c, a))), r)
    BY <1>1, RowFair, Zenon
  <2>3. Fair(s, r)
    BY <2>1, <2>2, Zenon
  <2>4. QED
    BY <2>3 DEF Fair
<1>2. CASE c \notin DOMAIN RxSet /\ c \in DOMAIN TxSet
  <2>1. s = Done(WithTx(r, Store(TxSet[c], c, a)))
    BY <1>2 DEF Run
  <2>2. Fair(Done(WithTx(r, Store(TxSet[c], c, a))), r)
    BY <1>2, RowFair, Zenon
  <2>3. Fair(s, r)
    BY <2>1, <2>2, Zenon
  <2>4. QED
    BY <2>3 DEF Fair
<1>3. CASE c \notin DOMAIN RxSet /\ c \notin DOMAIN TxSet /\ c \in DOMAIN Meter.set
  <2>1. s = Done(WithUni(r, Store(Meter.set[c], c, a)))
    BY <1>3 DEF Run
  <2>2. Fair(Done(WithUni(r, Store(Meter.set[c], c, a))), r)
    BY <1>3, RowFair, Zenon
  <2>3. Fair(s, r)
    BY <2>1, <2>2, Zenon
  <2>4. QED
    BY <2>3 DEF Fair
<1>4. CASE c \notin DOMAIN RxSet /\ c \notin DOMAIN TxSet /\ c \notin DOMAIN Meter.set
  <2>0. s = RunOwn(r, k, c, a, spoilt)
    BY <1>4 DEF Run
  <2>1. c \in {"setOsc", "setfixedAGC", "setRXAGC", "setRXAGCAttack",
                 "setTXWaveShapeFunc", "setSpotTone", "setRXPan", "setGain"} => Fair(s, r)
    BY <2>0, RunsOwn, PlainFair, SMTT(60)
  <2>2. c \in {"setGrphRXEQcmd", "setGrphTXEQcmd", "setCompandSt", "setCompand",
                 "setTXCompandSt", "setTXCompand", "setDCBlockSt", "setDCBlock",
                 "setNotch160"} => Fair(s, r)
    BY <2>0, RunsOwn, FlagFair, SMTT(60)
  <2>3. c \in {"setTEST", "setTestTone", "setTestTwoTone", "setTestNoise",
                 "setTestThru"} => Fair(s, r)
    BY <2>0, RunsOwn, TestFair, SMTT(60)
  <2>4. c \in {"setFilter", "setRXFiltCoefs", "setTXFiltCoefs"} => Fair(s, r)
    BY <2>0, RunsOwn, FilterFair, SMTT(60)
  <2>5. c \in {"setGrphRXEQ3", "setGrphRXEQ10", "setGrphTXEQ3", "setGrphTXEQ10"} => Fair(s, r)
    BY <2>0, RunsOwn, CurveFair, SMTT(60)
  <2>6. c \in {"setMode"} => Fair(s, r)
    BY <2>0, RunsOwn, ModeFair, SMTT(60)
  <2>7. c \in {"setSpectrumPolyphase", "setSpectrumWindow"} => Fair(s, r)
    BY <2>0, RunsOwn, SpectrumFair, SMTT(60)
  <2>8. c = "setSpectrumType" => AllTold(s.radio) /\ s.code \in Int
    BY <2>0, RunsOwn, SpectrumFair, SMTT(60)
  <2>9. QED
    BY <1>4, <2>1, <2>2, <2>3, <2>4, <2>5, <2>6, <2>7, <2>8 DEF Handlers, Fair
<1>5. QED
  BY <1>1, <1>2, <1>3, <1>4

-----------------------------------------------------------------------------
(* The behaviours.                                                         *)

Lines == Seq([rl : Rx, cmd : Handlers, args : Seq(Int), code : Int])

SettingsInv == AllTold(radio) /\ session \in Sessions /\ history \in Lines

(* A channel as it is set up: no edges told, and no equaliser.             *)
LEMMA FreshChannel ==
  ASSUME NEW i, NEW z, NEW b, NEW g, NEW n, n = (i ++ b) ++ g,
         DOMAIN i = {"coef", "zfvec", "save"}, i["zfvec"] = z, i["save"] = z, i["coef"] = z.of,
         {"lo", "hi", "eq_parm", "eq_curve"} \subseteq DOMAIN b,
         b["lo"] = b["hi"], b["eq_parm"] = << >>
  PROVE  ToldTx(n) /\ n.zfvec = z /\ n.coef = z.of
<1> DEFINE c == i ++ b
<1>1. c = i ++ b /\ n = c ++ g
  OBVIOUS
<1> HIDE DEF c
<1>2. /\ DOMAIN c = {"coef", "zfvec", "save"} \cup DOMAIN b
      /\ c["coef"] = z.of /\ c["zfvec"] = z /\ c["save"] = z
      /\ c["lo"] = b["lo"] /\ c["hi"] = b["hi"] /\ c["eq_parm"] = b["eq_parm"]
  BY <1>1 DEF ++
<1>3. /\ DOMAIN n = DOMAIN c \cup DOMAIN g
      /\ n["coef"] = z.of /\ n["zfvec"] = z /\ n["save"] = z
      /\ n["lo"] = b["lo"] /\ n["hi"] = b["hi"] /\ n["eq_parm"] = b["eq_parm"]
  BY <1>1, <1>2 DEF ++
<1>4. Bands \subseteq DOMAIN n /\ Curve \subseteq DOMAIN n
  BY <1>2, <1>3 DEF Bands, Curve
<1>5. BandTold(n) /\ CurveTold(n)
  BY <1>3, <1>4 DEF BandTold, CurveTold
<1>6. QED
  BY <1>3, <1>5 DEF ToldTx

LEMMA FreshTold ==
  ASSUME SettingsInit
  PROVE  AllTold(radio)
<1>1. radio = [rx |-> [k \in Rx |-> FreshRx], tx |-> FreshTx, uni |-> FreshUni]
  BY DEF SettingsInit
<1>2. ToldRx(FreshRx)
  <2> DEFINE z == [of |-> Band(-4800, 4800), normalised |-> TRUE]
             i == Install(Band(-4800, 4800), TRUE)
             b == [lo |-> Fresh, hi |-> Fresh, mode |-> AsIs(DefaultMode),
                   osc |-> Stored("setOsc", -11025), eq_parm |-> << >>, eq_curve |-> << >>,
                   eq_flag |-> AsIs(0), spot_on |-> FALSE, det |-> AMdet, now |-> 1]
             g == [f \in UNION {Range(Questions[q]) : q \in DOMAIN Questions \ OfTx} |-> Fresh]
  <2>1. {"lo", "hi", "eq_parm", "eq_curve"} \subseteq DOMAIN b
        /\ b["lo"] = b["hi"] /\ b["eq_parm"] = << >>
    OBVIOUS
  <2>2. /\ DOMAIN i = {"coef", "zfvec", "save"} /\ i["zfvec"] = z /\ i["save"] = z
        /\ i["coef"] = z.of
    BY DEF Install, Transform
  <2>3. FreshRx = (i ++ b) ++ g
    BY DEF FreshRx
  <2> HIDE DEF z, i, b, g
  <2>4. ToldTx(FreshRx) /\ FreshRx.zfvec = z /\ FreshRx.coef = z.of
    BY <2>1, <2>2, <2>3, FreshChannel
  <2>5. QED
    BY <2>4 DEF ToldRx, z
<1>3. ToldTx(FreshTx)
  <2> DEFINE z == [of |-> Band(300, 3000), normalised |-> TRUE]
             i == Install(Band(300, 3000), TRUE)
             b == [lo |-> Fresh, hi |-> Fresh, mode |-> AsIs(DefaultMode),
                   eq_parm |-> << >>, eq_curve |-> << >>, eq_flag |-> AsIs(0),
                   wvs_tbl |-> << >>, now |-> 1]
             g == [f \in UNION {Range(Questions[q]) : q \in OfTx \cap DOMAIN Questions} |-> Fresh]
  <2>1. {"lo", "hi", "eq_parm", "eq_curve"} \subseteq DOMAIN b
        /\ b["lo"] = b["hi"] /\ b["eq_parm"] = << >>
    OBVIOUS
  <2>2. /\ DOMAIN i = {"coef", "zfvec", "save"} /\ i["zfvec"] = z /\ i["save"] = z
        /\ i["coef"] = z.of
    BY DEF Install, Transform
  <2>3. FreshTx = (i ++ b) ++ g
    BY DEF FreshTx
  <2> HIDE DEF z, i, b, g
  <2>4. ToldTx(FreshTx) /\ FreshTx.zfvec = z /\ FreshTx.coef = z.of
    BY <2>1, <2>2, <2>3, FreshChannel
  <2>5. QED
    BY <2>4
<1>4. DisplayTold(FreshUni)
  <2> DEFINE b == [polyphase |-> FALSE, mask |-> "size-1", window |-> <<"BLACKMANHARRIS", 0>>,
                   wintype |-> Fresh, type |-> 2, scale |-> 1, rxk |-> 0,
                   mode_sdr |-> AsIs(DefaultMode)]
             g == [f \in Range(TestAsk.getTEST) \cup {"meter_tx"} |-> Fresh]
             n == b ++ g
  <2>1. /\ {"polyphase", "mask", "window", "wintype"} \subseteq DOMAIN b
        /\ b["polyphase"] = FALSE /\ b["mask"] = "size-1" /\ b["window"][1] # "WOLA"
        /\ b["wintype"] = Fresh
    OBVIOUS
  <2>2. FreshUni = n
    BY Zenon DEF FreshUni
  <2>3. n = b ++ g
    OBVIOUS
  <2> HIDE DEF b, g, n
  <2>4. /\ {"polyphase", "mask", "window", "wintype"} \subseteq DOMAIN n
        /\ n["polyphase"] = FALSE /\ n["mask"] = "size-1" /\ n["window"][1] # "WOLA"
        /\ n["wintype"] = Fresh
    BY <2>1, <2>3 DEF ++
  <2>5. Fresh[1] # "WOLA"
    BY DEF Fresh
  <2> HIDE DEF Fresh
  <2>6. QED
    BY <2>2, <2>4, <2>5 DEF DisplayTold, Display
<1> DEFINE rx == [k \in Rx |-> FreshRx]
<1>5. rx = [k \in Rx |-> rx[k]] /\ \A k \in Rx : rx[k] = FreshRx
  OBVIOUS
<1> HIDE DEF rx
<1>6. radio.rx = rx /\ radio.tx = FreshTx /\ radio.uni = FreshUni
      /\ radio = [rx |-> rx, tx |-> FreshTx, uni |-> FreshUni]
  BY <1>1 DEF rx
<1>7. QED
  BY <1>2, <1>3, <1>4, <1>5, <1>6 DEF AllTold, Formed

(* One line keeps what is told and installed together.                     *)
LEMMA LineTold ==
  ASSUME SettingsInv, NEW rl \in Rx, NEW c \in session, NEW spoilt \in BOOLEAN,
         NEW a \in Arguments[c], Line(rl, c, a, spoilt)
  PROVE  SettingsInv' /\ ((code' < 0 /\ c # "setSpectrumType") => radio' = radio)
         /\ history'[Len(history')].cmd = c
<1>1. /\ AllTold(radio) /\ history \in Lines /\ session \in Sessions
      /\ c \in Handlers /\ a \in Seq(Int) /\ (c = "setFilter" => Len(a) >= 2)
  BY LinesAssumption DEF SettingsInv
<1> DEFINE s == Run(radio, rl, c, a, spoilt)
           e == [rl |-> rl, cmd |-> c, args |-> a, code |-> s.code]
<1>2. /\ spoilt => Measure
      /\ radio' = s.radio /\ code' = s.code /\ history' = Append(history, e)
      /\ session' = session
  BY DEF Line
<1>3. s = Run(radio, rl, c, a, spoilt)
  OBVIOUS
<1> HIDE DEF s
<1>4. AllTold(s.radio) /\ s.code \in Int /\ (c = "setSpectrumType" \/ Fair(s, radio))
  BY <1>1, <1>2, <1>3, RunFair
<1>5. e \in [rl : Rx, cmd : Handlers, args : Seq(Int), code : Int] /\ e.cmd = c
  BY <1>1, <1>4
<1> HIDE DEF e
<1>6. history' \in Lines /\ history'[Len(history')] = e
  BY <1>1, <1>2, <1>5 DEF Lines
<1>7. AllTold(radio')
  BY <1>2, <1>4
<1>8. AllTold(radio)' 
  BY <1>7
<1>9. (code' < 0 /\ c # "setSpectrumType") => radio' = radio
  BY <1>2, <1>4 DEF Fair
<1>10. QED
  BY <1>1, <1>2, <1>5, <1>6, <1>8, <1>9 DEF SettingsInv

(* Whatever lines are run, every channel and the display are installed as  *)
(* they tell; equalisers while plans are measured are the exception.       *)
THEOREM SettingsInvariant == SettingsSpec => []SettingsInv
<1>1. SettingsInit => SettingsInv
  BY FreshTold DEF SettingsInit, SettingsInv, Lines
<1>2. SettingsInv /\ [SettingsNext]_settingsVars => SettingsInv'
  <2> SUFFICES ASSUME SettingsInv, [SettingsNext]_settingsVars PROVE SettingsInv'
    OBVIOUS
  <2>1. CASE SettingsNext
    BY <2>1, LineTold DEF SettingsNext
  <2>2. CASE UNCHANGED settingsVars
    BY <2>2 DEF settingsVars, SettingsInv
  <2>3. QED
    BY <2>1, <2>2
<1>3. QED
  BY <1>1, <1>2, PTL DEF SettingsSpec

(* A handler of update.c that refuses its line leaves the radio as it was  *)
(* (setSpectrumType, which resets first, is the exception), for any number *)
(* of receivers, any arguments and any lines before.                       *)
THEOREM RefusalIsClean == SettingsSpec => RefusedChangesNothing
<1>1. SettingsInv /\ [SettingsNext]_settingsVars =>
        [(code' < 0 /\ history'[Len(history')].cmd # "setSpectrumType")
           => radio' = radio]_settingsVars
  BY LineTold DEF SettingsNext, settingsVars
<1>2. QED
  BY <1>1, SettingsInvariant, PTL DEF SettingsSpec, RefusedChangesNothing

(* When plans are estimated, the coefficients, both copies of their        *)
(* transform, the equaliser's curve and the spectrum's window and mask are *)
(* those of the settings that the questions tell, after any lines to any   *)
(* receivers.                                                              *)
THEOREM ToldIsInstalled ==
  ASSUME ~Measure
  PROVE  SettingsSpec => []InstalledAsTold
<1>1. SettingsInv => InstalledAsTold
  <2> SUFFICES ASSUME SettingsInv PROVE InstalledAsTold
    OBVIOUS
  <2>1. AllTold(radio)
    BY DEF SettingsInv
  <2>2. \A ch \in Range(radio.rx) \cup {radio.tx} : ToldTx(ch)
    BY <2>1 DEF AllTold, Formed, ToldRx, Range
  <2>3. \A k \in Rx : radio.rx[k].zfvec.normalised
    <3>1. TAKE k \in Rx
    <3>2. radio.rx[k].zfvec = [of |-> radio.rx[k].coef, normalised |-> TRUE]
      BY <2>1 DEF AllTold, ToldRx
    <3>3. ASSUME NEW z, NEW norm \in BOOLEAN, z = [of |-> z.of, normalised |-> norm]
          PROVE  z.normalised = norm
      BY <3>3
    <3>4. QED
      BY <3>2, <3>3
  <2>4. QED
    BY <2>1, <2>2, <2>3
       DEF InstalledAsTold, AllTold, ToldTx, BandTold, CurveTold, DisplayTold
<1>2. QED
  BY <1>1, SettingsInvariant, PTL

-----------------------------------------------------------------------------
(***************************************************************************)
(* A question is answered with what the latest line said: what a line puts *)
(* where (ToRx, ToTx, ToUni, LineDoes), what it says (RxWrites, TxWrites,  *)
(* UniWrites, LineSays), which question asks for it (AboutPlaces), whom it *)
(* speaks to (SpeaksSide), and the history of lines (LatestInv).           *)
(***************************************************************************)

(* The tables written out, row by row.                                     *)
LEMMA JoinedRows ==
  ASSUME NEW tables
  PROVE  /\ DOMAIN Joined(tables) = UNION {DOMAIN t : t \in tables}
         /\ \A c \in DOMAIN Joined(tables) :
              \E t \in tables : c \in DOMAIN t /\ Joined(tables)[c] = t[c]
BY DEF Joined

(* The fields a receiver's command stores its words in.                    *)
RxRow(c, row) ==
  /\ c = "setBlkNR" => row = <<"banr_flag">>
  /\ c = "setBlkNRval" => row = <<"banr_rate">>
  /\ c = "setBlkANF" => row = <<"banf_flag">>
  /\ c = "setBlkANFval" => row = <<"banf_rate">>
  /\ c = "setNB" => row = <<"nb_flag">>
  /\ c = "setNBvals" => row = <<"nb_thresh">>
  /\ c = "setSDROM" => row = <<"sdrom_flag">>
  /\ c = "setSDROMvals" => row = <<"sdrom_thresh">>
  /\ c = "setBIN" => row = <<"bin_flag">>
  /\ c \in {"setRXAGCLimit", "setRXAGCTop", "setRXAGCCompression"} => row = <<"agc_top">>
  /\ c = "setRXAGCDecay" => row = <<"agc_decay">>
  /\ c = "setRXAGCHang" => row = <<"agc_hangtime">>
  /\ c = "setRXAGCSlope" => row = <<"agc_slope">>
  /\ c = "setRXAGCHangThreshold" => row = <<"agc_hangthresh">>
  /\ c = "setRXAGCFix" => row = <<"agc_fix">>
  /\ c = "setANF" => row = <<"anf_flag">>
  /\ c = "setANFvals" => row = <<"anf_taps", "anf_delay", "anf_rate", "anf_leak">>
  /\ c = "setNR" => row = <<"anr_flag">>
  /\ c = "setNRvals" => row = <<"anr_taps", "anr_delay", "anr_rate", "anr_leak">>
  /\ c = "setcorrectIQ" => row = <<"iq_phase", "iq_gain">>
  /\ c = "setcorrectIQphase" => row = <<"iq_phase">>
  /\ c = "setcorrectIQgain" => row = <<"iq_gain">>
  /\ c = "setSquelch" => row = <<"squelch_thresh">>
  /\ c = "setSquelchSt" => row = <<"squelch_flag">>
  /\ c = "setSpotToneVals" => row = <<"spot_gain", "spot_freq", "spot_rise", "spot_fall">>

(* The fields a transmitter's command stores its words in.                 *)
TxRow(c, row) ==
  /\ c = "setTXLevelerAttack" => row = <<"leveler_attack">>
  /\ c = "setTXLevelerSt" => row = <<"leveler_flag">>
  /\ c = "setTXLevelerDecay" => row = <<"leveler_decay">>
  /\ c = "setTXLevelerTop" => row = <<"leveler_top">>
  /\ c = "setTXLevelerHang" => row = <<"leveler_hangtime">>
  /\ c \in {"setTXAGCFF", "setTXSpeechCompression"} => row = <<"spr_flag">>
  /\ c \in {"setTXAGCFFCompression", "setTXSpeechCompressionGain"} => row = <<"spr_gain">>
  /\ c = "setTXCarrierLevel" => row = <<"carrier">>
  /\ c = "setcorrectTXIQ" => row = <<"iq_phase", "iq_gain">>
  /\ c = "setcorrectTXIQphase" => row = <<"iq_phase">>
  /\ c = "setcorrectTXIQgain" => row = <<"iq_gain">>
  /\ c = "setTXSquelch" => row = <<"squelch_thresh">>
  /\ c = "setTXSquelchSt" => row = <<"squelch_flag">>
  /\ c = "setTXWaveShapeSt" => row = <<"wvs_flag">>

(* The commands that only store, and that no table but these has.          *)
RxRows == {"setBlkNR", "setBlkNRval", "setBlkANF", "setBlkANFval", "setNB", "setNBvals",
  "setSDROM", "setSDROMvals", "setBIN", "setRXAGCLimit", "setRXAGCTop", "setRXAGCCompression",
  "setRXAGCDecay", "setRXAGCHang", "setRXAGCSlope", "setRXAGCHangThreshold", "setRXAGCFix",
  "setANF", "setANFvals", "setNR", "setNRvals", "setcorrectIQ", "setcorrectIQphase",
  "setcorrectIQgain", "setSquelch", "setSquelchSt", "setSpotToneVals"}
TxRows == {"setTXLevelerAttack", "setTXLevelerSt", "setTXLevelerDecay", "setTXLevelerTop",
  "setTXLevelerHang", "setTXAGCFF", "setTXSpeechCompression", "setTXAGCFFCompression",
  "setTXSpeechCompressionGain", "setTXCarrierLevel", "setcorrectTXIQ", "setcorrectTXIQphase",
  "setcorrectTXIQgain", "setTXSquelch", "setTXSquelchSt", "setTXWaveShapeSt"}

RxRowsOf(t) == \A c \in DOMAIN t : RxRow(c, t[c])
TxRowsOf(t) == \A c \in DOMAIN t : TxRow(c, t[c])

LEMMA RxTable == DOMAIN RxSet = RxRows /\ \A c \in RxRows : RxRow(c, RxSet[c])
<1> DEFINE T == {RxBlock.set, RxNoise.set, RxAgc.set, RxAgcTop.set, RxAdaptive.set,
                 CorrectIQ.rx, RxSquelch.set, RxSpot.set}
<1> USE DEF RxRowsOf, RxRow
<1>1. RxRowsOf(RxBlock.set) /\ RxRowsOf(RxNoise.set)
  BY SMTT(60) DEF RxBlock, RxNoise
<1>2. RxRowsOf(RxAgc.set)
  BY SMTT(60) DEF RxAgc
<1>3. RxRowsOf(RxAgcTop.set) /\ RxRowsOf(RxAdaptive.set)
  BY SMTT(60) DEF RxAgcTop, RxAdaptive
<1>4. RxRowsOf(CorrectIQ.rx) /\ RxRowsOf(RxSquelch.set) /\ RxRowsOf(RxSpot.set)
  BY SMTT(60) DEF CorrectIQ, RxSquelch, RxSpot
<1> HIDE DEF RxRow
<1>5. \A c \in DOMAIN RxSet : RxRow(c, RxSet[c])
  <2>1. \A t \in T : RxRowsOf(t)
    BY <1>1, <1>2, <1>3, <1>4
  <2>2. RxSet = Joined(T)
    BY DEF RxSet
  <2> HIDE DEF T
  <2>3. QED
    BY <2>1, <2>2, JoinedRows
<1>6. /\ DOMAIN RxBlock.set = {"setBlkNR", "setBlkNRval", "setBlkANF", "setBlkANFval"}
      /\ DOMAIN RxNoise.set = {"setNB", "setNBvals", "setSDROM", "setSDROMvals", "setBIN"}
      /\ DOMAIN RxAgc.set = {"setRXAGCDecay", "setRXAGCHang", "setRXAGCSlope",
                             "setRXAGCHangThreshold", "setRXAGCLimit", "setRXAGCTop", "setRXAGCFix"}
      /\ DOMAIN RxAgcTop.set = {"setRXAGCCompression"}
      /\ DOMAIN RxAdaptive.set = {"setANF", "setANFvals", "setNR", "setNRvals"}
      /\ DOMAIN CorrectIQ.rx = {"setcorrectIQ", "setcorrectIQphase", "setcorrectIQgain"}
      /\ DOMAIN RxSquelch.set = {"setSquelch", "setSquelchSt"}
      /\ DOMAIN RxSpot.set = {"setSpotToneVals"}
  BY DEF RxBlock, RxNoise, RxAgc, RxAgcTop, RxAdaptive, CorrectIQ, RxSquelch, RxSpot
<1>7. DOMAIN RxSet = RxRows
  <2>1. DOMAIN RxSet = UNION {DOMAIN t : t \in T}
    BY JoinedRows DEF RxSet
  <2>2. QED
    BY <1>6, <2>1 DEF RxRows
<1>8. QED
  BY <1>5, <1>7

LEMMA TxTable == DOMAIN TxSet = TxRows /\ \A c \in TxRows : TxRow(c, TxSet[c])
<1> DEFINE T == {TxLeveler.set, TxSpeech.set, TxCarrier.set, CorrectIQ.tx, TxSquelch.set,
                 TxShape.set}
<1> USE DEF TxRowsOf, TxRow
<1>1. TxRowsOf(TxLeveler.set) /\ TxRowsOf(TxSpeech.set)
  BY SMTT(60) DEF TxLeveler, TxSpeech
<1>2. TxRowsOf(TxCarrier.set) /\ TxRowsOf(CorrectIQ.tx)
  BY SMTT(60) DEF TxCarrier, CorrectIQ
<1>3. TxRowsOf(TxSquelch.set) /\ TxRowsOf(TxShape.set)
  BY SMTT(60) DEF TxSquelch, TxShape
<1> HIDE DEF TxRow
<1>4. \A c \in DOMAIN TxSet : TxRow(c, TxSet[c])
  <2>1. \A t \in T : TxRowsOf(t)
    BY <1>1, <1>2, <1>3
  <2>2. TxSet = Joined(T)
    BY DEF TxSet
  <2> HIDE DEF T
  <2>3. QED
    BY <2>1, <2>2, JoinedRows
<1>5. /\ DOMAIN TxLeveler.set = {"setTXLevelerAttack", "setTXLevelerSt", "setTXLevelerDecay",
                                 "setTXLevelerTop", "setTXLevelerHang"}
      /\ DOMAIN TxSpeech.set = {"setTXAGCFF", "setTXAGCFFCompression", "setTXSpeechCompression",
                                "setTXSpeechCompressionGain"}
      /\ DOMAIN TxCarrier.set = {"setTXCarrierLevel"}
      /\ DOMAIN CorrectIQ.tx = {"setcorrectTXIQ", "setcorrectTXIQphase", "setcorrectTXIQgain"}
      /\ DOMAIN TxSquelch.set = {"setTXSquelch", "setTXSquelchSt"}
      /\ DOMAIN TxShape.set = {"setTXWaveShapeSt"}
  BY DEF TxLeveler, TxSpeech, TxCarrier, CorrectIQ, TxSquelch, TxShape
<1>6. DOMAIN TxSet = TxRows
  <2>1. DOMAIN TxSet = UNION {DOMAIN t : t \in T}
    BY JoinedRows DEF TxSet
  <2>2. QED
    BY <1>5, <2>1 DEF TxRows
<1>7. QED
  BY <1>4, <1>6

(* The fields a question answers with.                                     *)
AskRow(q, row) ==
  /\ q = "getBlkNR" => row = <<"banr_flag", "banr_rate">>
  /\ q = "getNB" => row = <<"nb_flag", "nb_thresh">>
  /\ q = "getSDROM" => row = <<"sdrom_flag", "sdrom_thresh">>
  /\ q = "getANF" => row = <<"anf_flag", "anf_taps", "anf_delay", "anf_rate", "anf_leak">>
  /\ q = "getANR" => row = <<"anr_flag", "anr_taps", "anr_delay", "anr_rate", "anr_leak">>
  /\ q \in {"getRXIQ", "getTXIQ"} => row = <<"iq_phase", "iq_gain">>
  /\ q = "getRXAGC" => row = <<"agc_flag", "agc_bottom", "agc_fix", "agc_limit", "agc_top",
       "agc_attack", "agc_decay", "agc_hangthresh", "agc_hangtime", "agc_slope">>
  /\ q = "getTXLeveler" => row = <<"leveler_flag", "leveler_top", "leveler_attack",
       "leveler_decay", "leveler_hangtime">>
  /\ q = "getTXSpeechCompression" => row = <<"spr_flag", "spr_k", "spr_gain">>
  /\ q \in {"getRXSquelch", "getTXSquelch"} => row = <<"squelch_flag", "squelch_thresh">>
  /\ q \in {"getRXMode", "getTXMode"} => row = <<"mode">>
  /\ q \in {"getRXOsc", "getTXOsc"} => row = <<"osc">>
  /\ q \in {"getRXFilter", "getTXFilter"} => row = <<"lo", "hi">>
  /\ q \in {"getRXCompand", "getTXCompand"} => row = <<"cpd_flag", "cpd_fac">>
  /\ q = "getDCBlock" => row = <<"dcb_flag">>
  /\ q = "getTXCarrierLevel" => row = <<"carrier">>
AskRowsOf(t) == \A q \in DOMAIN t : AskRow(q, t[q])

(* The fields that questions about what the channels share answer with.    *)
UniRow(q, row) ==
  /\ q = "getTXMeterMode" => row = <<"meter_tx">>
  /\ q = "getSpectrumInfo" => row = <<"polyphase", "wintype", "type", "scale", "rxk">>
  /\ q = "getTEST" => row = <<"tone_amp", "tone_freq", "a_amp", "a_freq", "b_amp", "b_freq",
                              "noise_amp", "test_mode", "test_thru">>
UniRowsOf(t) == \A q \in DOMAIN t : UniRow(q, t[q])

(* The questions, by the part of the radio they ask about.                 *)
RxQuestions == {"getBlkNR", "getNB", "getSDROM", "getANF", "getANR", "getRXIQ", "getRXAGC",
  "getRXSquelch", "getRXMode", "getRXOsc", "getRXFilter", "getRXCompand"}
TxQuestions == {"getTXIQ", "getTXLeveler", "getTXSpeechCompression", "getTXSquelch", "getTXMode",
  "getTXOsc", "getTXFilter", "getTXCompand", "getDCBlock", "getTXCarrierLevel"}
UniQuestions == {"getTXMeterMode", "getSpectrumInfo", "getTEST"}
EqQuestions == {"getGrphRXEQ", "getGrphTXEQ"}

LEMMA AskTable == \A q \in RxQuestions \cup TxQuestions :
                    q \in DOMAIN Questions /\ AskRow(q, Questions[q])
<1> DEFINE R == {RxBlock.ask, RxNoise.ask, RxAgcTop.ask, RxAdaptive.ask, RxSquelch.ask,
                 RxSpot.ask}
           X == {TxLeveler.ask, TxSpeech.ask, TxCarrier.ask, TxSquelch.ask, TxShape.ask}
           B == [getBlkANF |-> RxBlock.ask.getBlkNR]
           Q == {B, CorrectIQ.ask, RxAsk, TxAsk, RxFilterAsk,
                 TxFilterAsk, ModeAsk.rx, ModeAsk.tx, OscAsk.rx, OscAsk.tx, PanAsk, GainAsk.rx,
                 GainAsk.tx, CompandAsk.rx, CompandAsk.tx, DCBlockAsk}
<1> USE DEF AskRowsOf, AskRow
<1>1. AskRowsOf(RxBlock.ask) /\ AskRowsOf(RxNoise.ask) /\ AskRowsOf(RxAgcTop.ask)
  BY SMTT(60) DEF RxBlock, RxNoise, RxAgcTop
<1>2. AskRowsOf(RxAdaptive.ask) /\ AskRowsOf(RxSquelch.ask) /\ AskRowsOf(RxSpot.ask)
  BY SMTT(60) DEF RxAdaptive, RxSquelch, RxSpot
<1>3. AskRowsOf(TxLeveler.ask) /\ AskRowsOf(TxSpeech.ask) /\ AskRowsOf(TxCarrier.ask)
  BY SMTT(60) DEF TxLeveler, TxSpeech, TxCarrier
<1>4. AskRowsOf(TxSquelch.ask) /\ AskRowsOf(TxShape.ask)
  BY SMTT(60) DEF TxSquelch, TxShape
<1>5. AskRowsOf(B) /\ AskRowsOf(CorrectIQ.ask) /\ AskRowsOf(RxFilterAsk) /\ AskRowsOf(TxFilterAsk)
  BY SMTT(60) DEF CorrectIQ, RxFilterAsk, TxFilterAsk
<1>6. AskRowsOf(ModeAsk.rx) /\ AskRowsOf(ModeAsk.tx) /\ AskRowsOf(OscAsk.rx) /\ AskRowsOf(OscAsk.tx)
  BY SMTT(60) DEF ModeAsk, OscAsk
<1>7. AskRowsOf(PanAsk) /\ AskRowsOf(GainAsk.rx) /\ AskRowsOf(GainAsk.tx)
  BY SMTT(60) DEF PanAsk, GainAsk
<1>8. AskRowsOf(CompandAsk.rx) /\ AskRowsOf(CompandAsk.tx) /\ AskRowsOf(DCBlockAsk)
  BY SMTT(60) DEF CompandAsk, DCBlockAsk
<1> HIDE DEF AskRow, B
<1>9. ASSUME NEW T, \A t \in T : AskRowsOf(t) PROVE AskRowsOf(Joined(T))
  BY <1>9, JoinedRows
<1>10. AskRowsOf(RxAsk) /\ AskRowsOf(TxAsk)
  <2>1. (\A t \in R : AskRowsOf(t)) /\ (\A t \in X : AskRowsOf(t))
    BY <1>1, <1>2, <1>3, <1>4
  <2>2. RxAsk = Joined(R) /\ TxAsk = Joined(X)
    BY DEF RxAsk, TxAsk
  <2> HIDE DEF R, X
  <2>3. QED
    BY <1>9, <2>1, <2>2
<1>11. AskRowsOf(Questions)
  <2>1. \A t \in Q : AskRowsOf(t)
    BY <1>5, <1>6, <1>7, <1>8, <1>10
  <2>2. Questions = Joined(Q)
    BY DEF Questions, B
  <2> HIDE DEF Q
  <2>3. QED
    BY <1>9, <2>1, <2>2
<1>12. /\ {"getBlkNR", "getNB", "getSDROM", "getANF", "getANR", "getRXAGC", "getRXSquelch"}
            \subseteq DOMAIN RxAsk
       /\ {"getTXLeveler", "getTXSpeechCompression", "getTXSquelch", "getTXCarrierLevel"}
            \subseteq DOMAIN TxAsk
  <2>1. /\ "getBlkNR" \in DOMAIN RxBlock.ask /\ "getNB" \in DOMAIN RxNoise.ask
        /\ "getSDROM" \in DOMAIN RxNoise.ask /\ "getRXAGC" \in DOMAIN RxAgcTop.ask
        /\ "getANF" \in DOMAIN RxAdaptive.ask /\ "getANR" \in DOMAIN RxAdaptive.ask
        /\ "getRXSquelch" \in DOMAIN RxSquelch.ask
    BY DEF RxBlock, RxNoise, RxAgcTop, RxAdaptive, RxSquelch
  <2>2. /\ "getTXLeveler" \in DOMAIN TxLeveler.ask
        /\ "getTXSpeechCompression" \in DOMAIN TxSpeech.ask
        /\ "getTXSquelch" \in DOMAIN TxSquelch.ask /\ "getTXCarrierLevel" \in DOMAIN TxCarrier.ask
    BY DEF TxLeveler, TxSpeech, TxSquelch, TxCarrier
  <2>3. DOMAIN RxAsk = UNION {DOMAIN t : t \in R} /\ DOMAIN TxAsk = UNION {DOMAIN t : t \in X}
    BY JoinedRows DEF RxAsk, TxAsk
  <2>4. QED
    BY <2>1, <2>2, <2>3
<1>13. /\ DOMAIN CorrectIQ.ask = {"getRXIQ", "getTXIQ"}
       /\ DOMAIN RxFilterAsk = {"getRXFilter"} /\ DOMAIN TxFilterAsk = {"getTXFilter"}
       /\ DOMAIN ModeAsk.rx = {"getRXMode"} /\ DOMAIN ModeAsk.tx = {"getTXMode"}
       /\ DOMAIN OscAsk.rx = {"getRXOsc"} /\ DOMAIN OscAsk.tx = {"getTXOsc"}
       /\ DOMAIN CompandAsk.rx = {"getRXCompand"} /\ DOMAIN CompandAsk.tx = {"getTXCompand"}
       /\ DOMAIN DCBlockAsk = {"getDCBlock"}
  BY DEF CorrectIQ, RxFilterAsk, TxFilterAsk, ModeAsk, OscAsk, CompandAsk, DCBlockAsk
<1>14. ASSUME NEW q \in RxQuestions \cup TxQuestions PROVE q \in DOMAIN Questions
  <2>1. DOMAIN Questions = UNION {DOMAIN t : t \in Q}
    BY JoinedRows DEF Questions, B
  <2>2. \E t \in Q : q \in DOMAIN t
    BY <1>12, <1>13, SMTT(60) DEF RxQuestions, TxQuestions
  <2>3. QED
    BY <2>1, <2>2
<1>15. QED
  BY <1>11, <1>14

LEMMA UniTable == DOMAIN OfUni = UniQuestions /\ \A q \in UniQuestions : UniRow(q, OfUni[q])
<1> DEFINE T == {SpectrumAsk, TestAsk, Meter.ask}
<1>1. UniRowsOf(SpectrumAsk) /\ UniRowsOf(TestAsk) /\ UniRowsOf(Meter.ask)
  BY DEF UniRowsOf, UniRow, SpectrumAsk, TestAsk, Meter
<1>2. OfUni = Joined(T) /\ \A t \in T : UniRowsOf(t)
  BY <1>1 DEF OfUni
<1>3. DOMAIN SpectrumAsk = {"getSpectrumInfo"} /\ DOMAIN TestAsk = {"getTEST"}
      /\ DOMAIN Meter.ask = {"getTXMeterMode"}
  BY DEF SpectrumAsk, TestAsk, Meter
<1>4. DOMAIN OfUni = UNION {DOMAIN t : t \in T}
  BY <1>2, JoinedRows
<1>5. DOMAIN OfUni = UniQuestions
  BY <1>3, <1>4 DEF UniQuestions
<1> HIDE DEF T
<1>6. \A q \in DOMAIN OfUni : UniRow(q, OfUni[q])
  BY <1>2, JoinedRows DEF UniRowsOf
<1>7. QED
  BY <1>5, <1>6

(* Which side a question is about.                                         *)
LEMMA Side ==
  /\ RxQuestions \cap OfTx = {} /\ TxQuestions \subseteq OfTx
  /\ "getGrphRXEQ" \notin OfTx /\ "getGrphTXEQ" \in OfTx
<1>1. DOMAIN TxAsk = {"getTXLeveler", "getTXSpeechCompression", "getTXSquelch",
                      "getTXCarrierLevel", "getTXWaveShape"}
  <2>1. /\ DOMAIN TxLeveler.ask = {"getTXLeveler"} /\ DOMAIN TxSpeech.ask = {"getTXSpeechCompression"}
        /\ DOMAIN TxCarrier.ask = {"getTXCarrierLevel"} /\ DOMAIN TxSquelch.ask = {"getTXSquelch"}
        /\ DOMAIN TxShape.ask = {"getTXWaveShape"}
    BY DEF TxLeveler, TxSpeech, TxSquelch, TxCarrier, TxShape
  <2>2. DOMAIN TxAsk = UNION {DOMAIN t : t \in {TxLeveler.ask, TxSpeech.ask, TxCarrier.ask,
                                               TxSquelch.ask, TxShape.ask}}
    BY JoinedRows DEF TxAsk
  <2>3. QED
    BY <2>1, <2>2
<1>2. /\ DOMAIN TxFilterAsk = {"getTXFilter"} /\ DOMAIN ModeAsk.tx = {"getTXMode"}
      /\ DOMAIN OscAsk.tx = {"getTXOsc"} /\ DOMAIN GainAsk.tx = {"getTXGain"}
      /\ DOMAIN CompandAsk.tx = {"getTXCompand"} /\ DOMAIN DCBlockAsk = {"getDCBlock"}
  BY DEF TxFilterAsk, ModeAsk, OscAsk, GainAsk, CompandAsk, DCBlockAsk
<1>3. QED
  BY <1>1, <1>2 DEF OfTx, RxQuestions, TxQuestions, GrphTXEQAsk

LEMMA AboutDomain ==
  DOMAIN About = RxQuestions \cup TxQuestions \cup UniQuestions \cup EqQuestions
BY DEF About, RxQuestions, TxQuestions, UniQuestions, EqQuestions

(* What an accepted line puts where, as far as a question of About is      *)
(* concerned; the other fields that handlers write are Unasked.            *)
Named(a, i, trx) == i <= Len(a) /\ a[i] = trx

(* What the line c a, accepted, puts in the receiver it is for.            *)
ToRx(c, a) ==
  CASE c \in RxRows -> Store(RxSet[c], c, a)
    [] c = "setFilter" /\ ~Named(a, 3, TX) -> [lo |-> AsIs(a[1]), hi |-> AsIs(a[2])]
    [] c = "setMode" /\ ~Named(a, 2, TX) -> [mode |-> AsIs(a[1])]
    [] c = "setOsc" /\ ~Named(a, 2, TX) -> [osc |-> Stored("setOsc", a[1])]
    [] c = "setCompandSt" /\ Named(a, 2, RX) -> [cpd_flag |-> Flag(a)]
    [] c = "setCompand" /\ Named(a, 2, RX) -> [cpd_fac |-> AsIs(a[1])]
    [] c = "setGrphRXEQ3" -> [eq_parm |-> <<3, SubSeq(a, 1, 4)>>]
    [] c = "setGrphRXEQ10" -> [eq_parm |-> <<10, SubSeq(a, 1, 11)>>]
    [] c = "setGrphRXEQcmd" -> [eq_flag |-> Flag(a)]
    [] OTHER -> << >>

(* What it puts in the transmitter.                                        *)
ToTx(c, a) ==
  CASE c \in TxRows -> Store(TxSet[c], c, a)
    [] c = "setFilter" /\ Named(a, 3, TX) -> [lo |-> AsIs(a[1]), hi |-> AsIs(a[2])]
    [] c = "setMode" /\ (Named(a, 2, TX) \/ Len(a) < 2) -> [mode |-> AsIs(a[1])]
    [] c = "setOsc" /\ (Named(a, 2, TX) \/ Len(a) < 2) -> [osc |-> Stored("setOsc", a[1])]
    [] c = "setCompandSt" /\ ~Named(a, 2, RX) -> [cpd_flag |-> Flag(a)]
    [] c = "setCompand" /\ ~Named(a, 2, RX) -> [cpd_fac |-> AsIs(a[1])]
    [] c = "setTXCompandSt" -> [cpd_flag |-> Flag(a)]
    [] c = "setTXCompand" -> [cpd_fac |-> AsIs(a[1])]
    [] c = "setDCBlockSt" -> [dcb_flag |-> Flag(a)]
    [] c = "setGrphTXEQ3" -> [eq_parm |-> <<3, SubSeq(a, 1, 4)>>]
    [] c = "setGrphTXEQ10" -> [eq_parm |-> <<10, SubSeq(a, 1, 11)>>]
    [] c = "setGrphTXEQcmd" -> [eq_flag |-> Flag(a)]
    [] OTHER -> << >>

(* What it puts in what the channels share.                                *)
ToUni(c, a) ==
  CASE c = "setTXMeterMode" -> [meter_tx |-> AsIs(a[1])]
    [] c = "setSpectrumWindow" -> [wintype |-> AsIs(a[1])]
    [] c = "setTEST" -> [test_mode |-> AsIs(a[1])]
    [] c = "setTestTone" -> [tone_amp |-> Stored("setTestTone", a[2])]
    [] c = "setTestTwoTone" -> [a_amp |-> Stored("setTestTwoTone", a[2]),
                                b_amp |-> Stored("setTestTwoTone", a[4])]
    [] c = "setTestNoise" -> [noise_amp |-> Stored("setTestNoise", a[1])]
    [] c = "setTestThru" -> [test_thru |-> AsIs(a[1])]
    [] OTHER -> << >>

(* Fields that the handlers write and that no place of About is about.     *)
Unasked == {"coef", "zfvec", "save", "det", "now", "mode_sdr", "agc_attack", "agc_flag",
  "agc_decay", "agc_hangtime", "eq_curve", "wvs_tbl", "spot_flag", "spot_on", "azim", "gain_i",
  "gain_o", "polyphase", "mask", "window", "type", "scale", "rxk", "tone_osc", "a_osc", "b_osc"}

(* A part of the radio, before (old) and after (new), into which p was put. *)
Put(new, p, old) ==
  \A f : f \notin Unasked =>
    /\ f \in DOMAIN p => f \in DOMAIN new /\ new[f] = p[f]
    /\ f \in DOMAIN old /\ f \notin DOMAIN p => f \in DOMAIN new /\ new[f] = old[f]

(* The radio from r to n: px went to receiver k, pt to the transmitter, pu *)
(* to what they share, and nothing to another receiver.                    *)
Moved(r, n, k, px, pt, pu) ==
  /\ \A j \in Rx \ {k} : n.rx[j] = r.rx[j]
  /\ Put(n.rx[k], px, r.rx[k]) /\ Put(n.tx, pt, r.tx) /\ Put(n.uni, pu, r.uni)

(* c writes p and what nobody asks about.                                  *)
Covers(c, p) ==
  /\ DOMAIN p \subseteq DOMAIN c /\ DOMAIN c \subseteq DOMAIN p \cup Unasked
  /\ \A f \in DOMAIN p : c[f] = p[f]

LEMMA NothingPut == DOMAIN << >> = {} /\ \A x : Put(x, << >>, x)
<1>1. DOMAIN << >> = {}
  OBVIOUS
<1>2. QED
  BY <1>1 DEF Put

LEMMA PutBy ==
  ASSUME NEW c, NEW p, Covers(c, p), NEW old
  PROVE  Put(c ++ old, p, old)
BY DEF Covers, Put, ++

LEMMA MovedBy ==
  ASSUME NEW r, Formed(r), NEW k \in Rx, NEW c, NEW p, Covers(c, p)
  PROVE  /\ Moved(r, WithRx(r, k, c), k, p, << >>, << >>)
         /\ Moved(r, WithTx(r, c), k, << >>, p, << >>)
         /\ Moved(r, WithUni(r, c), k, << >>, << >>, p)
<1> DEFINE a == c ++ r.rx[k]  b == c ++ r.tx  d == c ++ r.uni
           x == WithRx(r, k, c)  t == WithTx(r, c)  u == WithUni(r, c)
<1>1. Put(a, p, r.rx[k]) /\ Put(b, p, r.tx) /\ Put(d, p, r.uni)
  BY PutBy
<1>2. /\ x.rx[k] = a /\ (\A j \in Rx \ {k} : x.rx[j] = r.rx[j]) /\ x.tx = r.tx /\ x.uni = r.uni
      /\ t.rx = r.rx /\ t.tx = b /\ t.uni = r.uni
      /\ u.rx = r.rx /\ u.tx = r.tx /\ u.uni = d
  BY WithParts
<1> HIDE DEF a, b, d, x, t, u
<1>3. QED
  <2>1. Moved(r, x, k, p, << >>, << >>)
    BY <1>1, <1>2, NothingPut DEF Moved
  <2>2. Moved(r, t, k, << >>, p, << >>) /\ Moved(r, u, k, << >>, << >>, p)
    BY <1>1, <1>2, NothingPut DEF Moved
  <2>3. QED
    BY <2>1, <2>2 DEF x, t, u

LEMMA StaysPut ==
  ASSUME NEW r, NEW k
  PROVE  Moved(r, r, k, << >>, << >>, << >>)
BY NothingPut DEF Moved

(* Two changes, of which at most one is put into each part.                *)
LEMMA PutTwice ==
  ASSUME NEW o, NEW n, NEW m, NEW p
  PROVE  /\ Put(n, p, o) /\ Put(m, << >>, n) => Put(m, p, o)
         /\ Put(n, << >>, o) /\ Put(m, p, n) => Put(m, p, o)
BY NothingPut DEF Put

LEMMA MovedThen ==
  ASSUME NEW r, NEW n, NEW m, NEW k, NEW px, NEW pt, NEW pu
  PROVE  /\ Moved(r, n, k, px, pt, pu) /\ Moved(n, m, k, << >>, << >>, << >>)
              => Moved(r, m, k, px, pt, pu)
         /\ Moved(r, n, k, px, << >>, << >>) /\ Moved(n, m, k, << >>, pt, << >>)
              => Moved(r, m, k, px, pt, << >>)
<1>1. ASSUME Moved(r, n, k, px, pt, pu), Moved(n, m, k, << >>, << >>, << >>)
      PROVE  Moved(r, m, k, px, pt, pu)
  BY <1>1, PutTwice DEF Moved
<1>2. ASSUME Moved(r, n, k, px, << >>, << >>), Moved(n, m, k, << >>, pt, << >>)
      PROVE  Moved(r, m, k, px, pt, << >>)
  BY <1>2, PutTwice DEF Moved
<1>3. QED
  BY <1>1, <1>2

(* The line c a, run for receiver k with outcome s, put what it says where *)
(* it says if it was accepted, and nothing otherwise.                      *)
Did(r, s, k, px, pt, pu) ==
  IF s.code = 0 THEN Moved(r, s.radio, k, px, pt, pu)
  ELSE Moved(r, s.radio, k, << >>, << >>, << >>)

LEMMA Refused ==
  ASSUME NEW r, NEW k, NEW e, e # 0, NEW px, NEW pt, NEW pu
  PROVE  Did(r, Refuse(r, e), k, px, pt, pu)
BY Returned, StaysPut DEF Did

LEMMA DidNothing ==
  ASSUME NEW r, NEW k
  PROVE  Did(r, Done(r), k, << >>, << >>, << >>)
BY Returned, StaysPut DEF Did

LEMMA DidPut ==
  ASSUME NEW r, Formed(r), NEW k \in Rx, NEW c, NEW p, Covers(c, p)
  PROVE  /\ Did(r, Done(WithRx(r, k, c)), k, p, << >>, << >>)
         /\ Did(r, Done(WithTx(r, c)), k, << >>, p, << >>)
         /\ Did(r, Done(WithUni(r, c)), k, << >>, << >>, p)
<1>1. /\ Moved(r, WithRx(r, k, c), k, p, << >>, << >>)
      /\ Moved(r, WithTx(r, c), k, << >>, p, << >>)
      /\ Moved(r, WithUni(r, c), k, << >>, << >>, p)
  BY MovedBy
<1>2. QED
  BY <1>1, Returned DEF Did

(* A row of a table.                                                       *)
LEMMA RowCovers == \A p : Covers(p, p)
BY DEF Covers

(* A value for the transmitter, for the receiver, or for both.             *)
LEMMA AddressedPuts ==
  ASSUME NEW r, Formed(r), NEW k \in Rx, NEW a \in Seq(Int), NEW c, NEW p, Covers(c, p)
  PROVE  /\ Formed(Addressed(r, k, a, c))
         /\ Moved(r, Addressed(r, k, a, c), k,
                  IF Named(a, 2, TX) THEN << >> ELSE p,
                  IF Named(a, 2, TX) \/ Len(a) < 2 THEN p ELSE << >>, << >>)
<1> DEFINE x == WithRx(r, k, c)
<1>1. Formed(x) /\ Formed(WithTx(r, c)) /\ Formed(WithTx(x, c))
  BY WithParts
<1>2. Moved(r, x, k, p, << >>, << >>) /\ Moved(r, WithTx(r, c), k, << >>, p, << >>)
  BY MovedBy
<1>3. Moved(x, WithTx(x, c), k, << >>, p, << >>)
  BY <1>1, MovedBy
<1>4. Moved(r, WithTx(x, c), k, p, p, << >>)
  BY <1>2, <1>3, MovedThen
<1>5. CASE Len(a) > 1 /\ a[2] = TX
  <2>1. Addressed(r, k, a, c) = WithTx(r, c)
    BY <1>5 DEF Addressed
  <2>2. Named(a, 2, TX)
    BY <1>5 DEF Named
  <2>3. QED
    BY <1>1, <1>2, <2>1, <2>2
<1>6. CASE Len(a) > 1 /\ a[2] # TX
  <2>1. Addressed(r, k, a, c) = x
    BY <1>6 DEF Addressed
  <2>2. ~Named(a, 2, TX) /\ ~(Len(a) < 2)
    BY <1>6 DEF Named
  <2>3. QED
    BY <1>1, <1>2, <2>1, <2>2
<1>7. CASE ~(Len(a) > 1)
  <2>1. Addressed(r, k, a, c) = WithTx(x, c)
    BY <1>7 DEF Addressed
  <2>2. ~Named(a, 2, TX) /\ Len(a) < 2
    BY <1>7 DEF Named
  <2>3. QED
    BY <1>1, <1>4, <2>1, <2>2
<1>8. QED
  BY <1>5, <1>6, <1>7

LEMMA FilterDoes ==
  ASSUME NEW r, Formed(r), NEW k \in Rx, NEW a \in Seq(Int)
  PROVE  /\ Len(a) >= 2 => Did(r, SetFilter(r, k, a), k,
              IF Named(a, 3, TX) THEN << >> ELSE [lo |-> AsIs(a[1]), hi |-> AsIs(a[2])],
              IF Named(a, 3, TX) THEN [lo |-> AsIs(a[1]), hi |-> AsIs(a[2])] ELSE << >>, << >>)
         /\ Did(r, SetRXFiltCoefs(r, k, a), k, << >>, << >>, << >>)
         /\ Did(r, SetTXFiltCoefs(r, k, a), k, << >>, << >>, << >>)
<1> DEFINE p == [lo |-> AsIs(a[1]), hi |-> AsIs(a[2])]
<1>1. \A coef, norm : Covers(p ++ Install(coef, norm), p) /\ Covers(Install(coef, norm), << >>)
  <2> SUFFICES ASSUME NEW coef, NEW norm
               PROVE  Covers(p ++ Install(coef, norm), p) /\ Covers(Install(coef, norm), << >>)
    OBVIOUS
  <2> DEFINE i == Install(coef, norm)
  <2>1. DOMAIN i = {"coef", "zfvec", "save"}
    BY DEF Install
  <2>2. DOMAIN p = {"lo", "hi"}
    OBVIOUS
  <2> HIDE DEF p, i
  <2>3. DOMAIN (p ++ i) = DOMAIN p \cup DOMAIN i /\ \A f \in DOMAIN p : (p ++ i)[f] = p[f]
    BY DEF ++
  <2>4. Covers(p ++ i, p)
    BY <2>1, <2>3 DEF Covers, Unasked
  <2>5. Covers(i, << >>)
    BY <2>1, NothingPut DEF Covers, Unasked
  <2>6. QED
    BY <2>4, <2>5 DEF i
<1> DEFINE bad == BadBand(a[1], a[2])
           c == p ++ Install(NewBand(a[1], a[2]), TRUE)
<1>2. /\ SetRXFilter(r, k, a) = IF bad # 0 THEN Refuse(r, bad) ELSE Done(WithRx(r, k, c))
      /\ SetTXFilter(r, a) = IF bad # 0 THEN Refuse(r, bad) ELSE Done(WithTx(r, c))
  BY Zenon DEF SetRXFilter, SetTXFilter
<1>3. Covers(c, p)
  BY <1>1
<1> HIDE DEF p, bad, c
<1>4. Did(r, SetRXFilter(r, k, a), k, p, << >>, << >>) /\ Did(r, SetTXFilter(r, a), k, << >>, p, << >>)
  <2>1. Did(r, Done(WithRx(r, k, c)), k, p, << >>, << >>) /\ Did(r, Done(WithTx(r, c)), k, << >>, p, << >>)
    BY <1>3, DidPut
  <2>2. bad # 0 => Did(r, Refuse(r, bad), k, p, << >>, << >>) /\ Did(r, Refuse(r, bad), k, << >>, p, << >>)
    BY Refused
  <2>3. QED
    BY <1>2, <2>1, <2>2
<1>5. ASSUME Len(a) >= 2
      PROVE  Did(r, SetFilter(r, k, a), k, IF Named(a, 3, TX) THEN << >> ELSE p,
                 IF Named(a, 3, TX) THEN p ELSE << >>, << >>)
  <2>1. CASE Len(a) = 2 \/ a[3] = RX
    <3>1. SetFilter(r, k, a) = SetRXFilter(r, k, a)
      BY <2>1 DEF SetFilter
    <3>2. ~Named(a, 3, TX)
      BY <2>1 DEF Named, RX, TX
    <3>3. QED
      BY <1>4, <3>1, <3>2
  <2>2. CASE ~(Len(a) = 2 \/ a[3] = RX) /\ a[3] = TX
    <3>1. SetFilter(r, k, a) = SetTXFilter(r, a)
      BY <2>2 DEF SetFilter
    <3>2. Len(a) \in Nat
      OBVIOUS
    <3>3. 3 <= Len(a) /\ a[3] = TX
      <4>1. Len(a) # 2 /\ a[3] = TX
        BY <2>2, Zenon
      <4>2. \A n \in Nat : n >= 2 /\ n # 2 => 3 <= n
        OBVIOUS
      <4>3. QED
        BY <1>5, <3>2, <4>1, <4>2, Zenon
    <3>4. Named(a, 3, TX)
      BY <3>3 DEF Named
    <3>5. QED
      BY <1>4, <3>1, <3>4
  <2>3. CASE ~(Len(a) = 2 \/ a[3] = RX) /\ a[3] # TX
    <3>1. SetFilter(r, k, a) = Refuse(r, -1)
      BY <2>3 DEF SetFilter
    <3>2. QED
      BY <3>1, Refused
  <2>4. QED
    BY <2>1, <2>2, <2>3
<1>6. Did(r, SetRXFiltCoefs(r, k, a), k, << >>, << >>, << >>)
  <2>1. Covers(Install(<<"taps", a>>, TRUE), << >>)
    BY <1>1
  <2>2. Did(r, Done(WithRx(r, k, Install(<<"taps", a>>, TRUE))), k, << >>, << >>, << >>)
    BY <2>1, DidPut
  <2>3. QED
    BY <2>2, Zenon DEF SetRXFiltCoefs
<1>7. Did(r, SetTXFiltCoefs(r, k, a), k, << >>, << >>, << >>)
  <2> DEFINE i == Install(<<"taps", a>>, FALSE)
             s == WithTx(r, i)
             z == [zfvec |-> Transform(r.rx[k].zfvec.of, TRUE)]
  <2>1. Covers(i, << >>)
    BY <1>1
  <2>2. Covers(z, << >>)
    BY NothingPut DEF Covers, Unasked
  <2>3. SetTXFiltCoefs(r, k, a) = Done(WithRx(s, k, z))
    BY Zenon DEF SetTXFiltCoefs
  <2> HIDE DEF i, z
  <2>4. Formed(s) /\ Moved(r, s, k, << >>, << >>, << >>)
    BY <2>1, WithParts, MovedBy
  <2> HIDE DEF s
  <2>5. Moved(s, WithRx(s, k, z), k, << >>, << >>, << >>)
    BY <2>2, <2>4, MovedBy
  <2>6. Moved(r, WithRx(s, k, z), k, << >>, << >>, << >>)
    BY <2>4, <2>5, MovedThen
  <2>7. QED
    BY <2>3, <2>6, Returned DEF Did
<1>8. QED
  BY <1>5, <1>6, <1>7 DEF p

LEMMA ModeDoes ==
  ASSUME NEW r, Formed(r), NEW k \in Rx, NEW a \in Seq(Int)
  PROVE  /\ Did(r, SetMode(r, k, a), k,
               IF Named(a, 2, TX) THEN << >> ELSE [mode |-> AsIs(a[1])],
               IF Named(a, 2, TX) \/ Len(a) < 2 THEN [mode |-> AsIs(a[1])] ELSE << >>, << >>)
         /\ Did(r, SetOsc(r, k, a), k,
               IF Named(a, 2, TX) THEN << >> ELSE [osc |-> Stored("setOsc", a[1])],
               IF Named(a, 2, TX) \/ Len(a) < 2 THEN [osc |-> Stored("setOsc", a[1])] ELSE << >>,
               << >>)
         /\ Did(r, SetfixedAGC(r, k, a), k, << >>, << >>, << >>)
<1> DEFINE m == [mode |-> AsIs(a[1])]
           o == [osc |-> Stored("setOsc", a[1])]
           w == [now |-> a[1]]
           u == [mode_sdr |-> AsIs(a[1])]
           s == Addressed(r, k, a, m)
           t == IF Len(a) > 1 THEN s ELSE WithUni(s, u)
           d == CASE t.rx[k].mode = AsIs(AM)  -> [det |-> AMdet]
                  [] t.rx[k].mode = AsIs(SAM) -> [det |-> SAMdet]
                  [] OTHER                    -> << >>
           rx(p) == IF Named(a, 2, TX) THEN << >> ELSE p
           tx(p) == IF Named(a, 2, TX) \/ Len(a) < 2 THEN p ELSE << >>
<1>1. Covers(m, m) /\ Covers(o, o) /\ Covers(w, << >>) /\ Covers(u, << >>)
  BY NothingPut DEF Covers, Unasked
<1>2. Covers(d, << >>)
  <2>1. \A x : Covers([det |-> x], << >>)
    BY NothingPut DEF Covers, Unasked
  <2>2. Covers(<< >>, << >>)
    BY NothingPut DEF Covers
  <2>3. QED
    BY <2>1, <2>2, Zenon
<1>3. SetMode(r, k, a) = Done(WithRx(t, k, d))
  BY Zenon DEF SetMode
<1>4. /\ SetOsc(r, k, a) = IF a[1] >= Nyquist \/ a[1] <= -Nyquist THEN Refuse(r, -1)
                           ELSE Done(Addressed(r, k, a, o))
      /\ SetfixedAGC(r, k, a) = Done(Addressed(r, k, a, w))
  BY Zenon DEF SetOsc, SetfixedAGC
<1> HIDE DEF m, o, w, u, d
<1>5. Formed(s) /\ Moved(r, s, k, rx(m), tx(m), << >>)
  BY <1>1, AddressedPuts
<1> HIDE DEF s
<1>6. Formed(t) /\ Moved(r, t, k, rx(m), tx(m), << >>)
  <2> HIDE DEF rx, tx
  <2>1. Formed(WithUni(s, u)) /\ Moved(s, WithUni(s, u), k, << >>, << >>, << >>)
    BY <1>1, <1>5, WithParts, MovedBy
  <2>2. Moved(r, WithUni(s, u), k, rx(m), tx(m), << >>)
    BY <1>5, <2>1, MovedThen
  <2>3. QED
    BY <1>5, <2>1, <2>2
<1> HIDE DEF t
<1>7. Moved(r, WithRx(t, k, d), k, rx(m), tx(m), << >>)
  <2> HIDE DEF rx, tx
  <2>1. Moved(t, WithRx(t, k, d), k, << >>, << >>, << >>)
    BY <1>2, <1>6, MovedBy
  <2>2. QED
    BY <1>6, <2>1, MovedThen
<1>8. Did(r, SetMode(r, k, a), k, rx(m), tx(m), << >>)
  <2> HIDE DEF rx, tx
  <2>1. QED
    BY <1>3, <1>7, Returned DEF Did
<1>9. Moved(r, Addressed(r, k, a, o), k, rx(o), tx(o), << >>)
  BY <1>1, AddressedPuts
<1>10. Moved(r, Addressed(r, k, a, w), k, << >>, << >>, << >>)
  <2>1. Moved(r, Addressed(r, k, a, w), k, rx(<< >>), tx(<< >>), << >>)
    BY <1>1, AddressedPuts
  <2>2. QED
    BY <2>1
<1>11. Did(r, SetOsc(r, k, a), k, rx(o), tx(o), << >>)
  <2> HIDE DEF rx, tx
  <2>1. Did(r, Done(Addressed(r, k, a, o)), k, rx(o), tx(o), << >>)
    BY <1>9, Returned DEF Did
  <2>2. Did(r, Refuse(r, -1), k, rx(o), tx(o), << >>)
    BY Refused
  <2>3. QED
    BY <1>4, <2>1, <2>2, Zenon
<1>12. Did(r, SetfixedAGC(r, k, a), k, << >>, << >>, << >>)
  BY <1>4, <1>10, Returned DEF Did
<1>13. QED
  BY <1>8, <1>11, <1>12 DEF m, o

LEMMA UnaskedDo ==
  ASSUME NEW r, Formed(r), NEW k \in Rx, NEW a \in Seq(Int)
  PROVE  /\ Did(r, SetRXAGC(r, k, a), k, << >>, << >>, << >>)
         /\ Did(r, SetRXAGCAttack(r, k, a), k, << >>, << >>, << >>)
         /\ Did(r, SetTXWaveShapeFunc(r, a), k, << >>, << >>, << >>)
         /\ Did(r, SetSpotTone(r, k, a), k, << >>, << >>, << >>)
         /\ Did(r, SetRXPan(r, k, a), k, << >>, << >>, << >>)
         /\ Did(r, SetGain(r, k, a), k, << >>, << >>, << >>)
         /\ Did(r, SetDCBlock(r, a), k, << >>, << >>, << >>)
         /\ Did(r, SetNotch160(r, a), k, << >>, << >>, << >>)
<1>1. ASSUME NEW c, DOMAIN c \subseteq Unasked
      PROVE  /\ Did(r, Done(WithRx(r, k, c)), k, << >>, << >>, << >>)
             /\ Did(r, Done(WithTx(r, c)), k, << >>, << >>, << >>)
  <2>1. Covers(c, << >>)
    BY <1>1, NothingPut DEF Covers
  <2>2. QED
    BY <2>1, DidPut
<1>2. Did(r, Refuse(r, -1), k, << >>, << >>, << >>)
  BY Refused
<1>3. Did(r, SetRXAGC(r, k, a), k, << >>, << >>, << >>)
  <2> DEFINE x == [agc_attack |-> <<"preset", 0>>]
             y == IF a[1] \in 0 .. 4 THEN [agc_flag |-> AsIs(1)] ELSE << >>
             z == IF a[1] \in 1 .. 4
                  THEN [agc_decay |-> <<"preset", a[1]>>, agc_hangtime |-> <<"preset", a[1]>>]
                  ELSE << >>
  <2>1. DOMAIN x \subseteq {"agc_attack"} /\ DOMAIN y \subseteq {"agc_flag"}
        /\ DOMAIN z \subseteq {"agc_decay", "agc_hangtime"}
    OBVIOUS
  <2>2. SetRXAGC(r, k, a) = Done(WithRx(r, k, (x ++ y) ++ z))
    BY Zenon DEF SetRXAGC
  <2> HIDE DEF x, y, z
  <2>3. DOMAIN ((x ++ y) ++ z) = (DOMAIN x \cup DOMAIN y) \cup DOMAIN z
    BY DEF ++
  <2>4. DOMAIN ((x ++ y) ++ z) \subseteq Unasked
    BY <2>1, <2>3 DEF Unasked
  <2>5. QED
    BY <1>1, <2>2, <2>4
<1>4. /\ \A v : DOMAIN [agc_attack |-> v] \subseteq Unasked
      /\ \A v : DOMAIN [wvs_tbl |-> v] \subseteq Unasked
      /\ \A v : DOMAIN [azim |-> v] \subseteq Unasked
      /\ \A v : DOMAIN [gain_i |-> v] \subseteq Unasked
      /\ \A v : DOMAIN [gain_o |-> v] \subseteq Unasked
      /\ \A v, w : DOMAIN [spot_flag |-> v, spot_on |-> w] \subseteq Unasked
      /\ \A v : DOMAIN [spot_on |-> v] \subseteq Unasked
  BY DEF Unasked
<1>5. Did(r, SetRXAGCAttack(r, k, a), k, << >>, << >>, << >>)
  BY <1>1, <1>4, Zenon DEF SetRXAGCAttack
<1>6. Did(r, SetTXWaveShapeFunc(r, a), k, << >>, << >>, << >>)
  BY <1>1, <1>4, Zenon DEF SetTXWaveShapeFunc
<1>7. Did(r, SetSpotTone(r, k, a), k, << >>, << >>, << >>)
  <2> DEFINE c == IF a[1] # 0 THEN [spot_flag |-> AsIs(1), spot_on |-> TRUE]
                  ELSE [spot_on |-> FALSE]
  <2>1. DOMAIN c \subseteq Unasked
    BY DEF Unasked
  <2>2. SetSpotTone(r, k, a) = Done(WithRx(r, k, c))
    BY Zenon DEF SetSpotTone
  <2> HIDE DEF c
  <2>3. QED
    BY <1>1, <2>1, <2>2
<1>8. Did(r, SetRXPan(r, k, a), k, << >>, << >>, << >>)
  <2>1. \A v : Did(r, Done(WithRx(r, k, [azim |-> v])), k, << >>, << >>, << >>)
    BY <1>1, <1>4
  <2>2. QED
    BY <1>2, <2>1, Zenon DEF SetRXPan
<1>9. Did(r, SetGain(r, k, a), k, << >>, << >>, << >>)
  <2> DEFINE gain == IF Len(a) < 3 THEN AsIs(1) ELSE <<"db2lin", a[3]>>
             c == IF a[2] = 0 THEN [gain_i |-> gain] ELSE [gain_o |-> gain]
  <2>1. SetGain(r, k, a) =
          IF Len(a) < 2 \/ a[2] \notin {0, 1} \/ a[1] \notin {RX, TX} THEN Refuse(r, -1)
          ELSE Done(IF a[1] = RX THEN WithRx(r, k, c) ELSE WithTx(r, c))
    BY Zenon DEF SetGain
  <2> HIDE DEF gain
  <2>2. DOMAIN c \subseteq Unasked
    BY <1>4
  <2> HIDE DEF c
  <2>3. /\ Did(r, Done(WithRx(r, k, c)), k, << >>, << >>, << >>)
        /\ Did(r, Done(WithTx(r, c)), k, << >>, << >>, << >>)
    BY <1>1, <2>2
  <2>4. QED
    BY <1>2, <2>1, <2>3, Zenon
<1>10. Did(r, SetDCBlock(r, a), k, << >>, << >>, << >>)
       /\ Did(r, SetNotch160(r, a), k, << >>, << >>, << >>)
  BY DidNothing DEF SetDCBlock, SetNotch160
<1>11. QED
  BY <1>3, <1>5, <1>6, <1>7, <1>8, <1>9, <1>10

LEMMA CurveDoes ==
  ASSUME NEW r, Formed(r), NEW k \in Rx, NEW a \in Seq(Int), NEW spoilt, NEW size
  PROVE  /\ Did(r, SetGrphRXEQ(r, k, a, size, spoilt), k,
                [eq_parm |-> <<size, SubSeq(a, 1, size + 1)>>], << >>, << >>)
         /\ Did(r, SetGrphTXEQ(r, a, size, spoilt), k,
                << >>, [eq_parm |-> <<size, SubSeq(a, 1, size + 1)>>], << >>)
<1> DEFINE parm == <<size, SubSeq(a, 1, size + 1)>>
           p == [eq_parm |-> parm]
           at == IF size = 3 THEN 255 ELSE 254
           c(x) == SetGrphEQ(a, size, x, spoilt)
<1>1. \A x : Covers(c(x), p)
  <2> SUFFICES ASSUME NEW x PROVE Covers(c(x), p)
    OBVIOUS
  <2> DEFINE curve == IF spoilt THEN << >> ELSE <<parm, x>>
  <2>1. c(x) = [eq_parm |-> parm, eq_curve |-> curve]
    BY Zenon DEF SetGrphEQ
  <2> HIDE DEF parm, curve, c
  <2>2. QED
    BY <2>1 DEF Covers, Unasked
<1>2. /\ SetGrphRXEQ(r, k, a, size, spoilt) =
           IF Len(a) < size + 1 THEN Refuse(r, -1) ELSE Done(WithRx(r, k, c(254)))
      /\ SetGrphTXEQ(r, a, size, spoilt) =
           IF Len(a) < size + 1 THEN Refuse(r, -1) ELSE Done(WithTx(r, c(at)))
  BY Zenon DEF SetGrphRXEQ, SetGrphTXEQ
<1> HIDE DEF p, c, at
<1>3. /\ Did(r, Done(WithRx(r, k, c(254))), k, p, << >>, << >>)
      /\ Did(r, Done(WithTx(r, c(at))), k, << >>, p, << >>)
  BY <1>1, DidPut
<1>4. Did(r, Refuse(r, -1), k, p, << >>, << >>) /\ Did(r, Refuse(r, -1), k, << >>, p, << >>)
  BY Refused
<1>5. /\ Did(r, SetGrphRXEQ(r, k, a, size, spoilt), k, p, << >>, << >>)
      /\ Did(r, SetGrphTXEQ(r, a, size, spoilt), k, << >>, p, << >>)
  BY <1>2, <1>3, <1>4, Zenon
<1>6. QED
  BY <1>5 DEF p

LEMMA FlagDoes ==
  ASSUME NEW r, Formed(r), NEW k \in Rx, NEW a \in Seq(Int)
  PROVE  /\ Did(r, SetCompandSt(r, k, a), k,
                IF Named(a, 2, RX) THEN [cpd_flag |-> Flag(a)] ELSE << >>,
                IF Named(a, 2, RX) THEN << >> ELSE [cpd_flag |-> Flag(a)], << >>)
         /\ Did(r, SetCompand(r, k, a), k,
                IF Named(a, 2, RX) THEN [cpd_fac |-> AsIs(a[1])] ELSE << >>,
                IF Named(a, 2, RX) THEN << >> ELSE [cpd_fac |-> AsIs(a[1])], << >>)
         /\ Did(r, SetGrphEQcmd(r, k, a, RX), k, [eq_flag |-> Flag(a)], << >>, << >>)
         /\ Did(r, SetGrphEQcmd(r, k, a, TX), k, << >>, [eq_flag |-> Flag(a)], << >>)
         /\ Did(r, SetTXCompandSt(r, a), k, << >>, [cpd_flag |-> Flag(a)], << >>)
         /\ Did(r, SetTXCompand(r, a), k, << >>, [cpd_fac |-> AsIs(a[1])], << >>)
         /\ Did(r, SetDCBlockSt(r, a), k, << >>, [dcb_flag |-> Flag(a)], << >>)
<1> DEFINE f == [cpd_flag |-> Flag(a)]
           w == [cpd_fac |-> AsIs(a[1])]
           e == [eq_flag |-> Flag(a)]
           d == [dcb_flag |-> Flag(a)]
           named == Len(a) > 1 /\ a[2] = RX
<1>1. Named(a, 2, RX) <=> named
  <2>1. Len(a) \in Nat
    OBVIOUS
  <2>2. \A n \in Nat : 2 <= n <=> n > 1
    OBVIOUS
  <2>3. QED
    BY <2>1, <2>2, Zenon DEF Named
<1>2. /\ SetCompandSt(r, k, a) = Done(IF named THEN WithRx(r, k, f) ELSE WithTx(r, f))
      /\ SetCompand(r, k, a) = IF Len(a) < 1 THEN Refuse(r, -1)
                               ELSE Done(IF named THEN WithRx(r, k, w) ELSE WithTx(r, w))
      /\ SetTXCompandSt(r, a) = Done(WithTx(r, f))
      /\ SetTXCompand(r, a) = IF Len(a) < 1 THEN Refuse(r, -1) ELSE Done(WithTx(r, w))
      /\ SetDCBlockSt(r, a) = Done(WithTx(r, d))
  BY Zenon DEF SetCompandSt, SetCompand, SetTXCompandSt, SetTXCompand, SetDCBlockSt, Flag
<1>3. SetGrphEQcmd(r, k, a, RX) = Done(WithRx(r, k, e))
      /\ SetGrphEQcmd(r, k, a, TX) = Done(WithTx(r, e))
  BY DEF SetGrphEQcmd, RX, TX
<1> HIDE DEF f, w, e, d, named
<1>4. ASSUME NEW p PROVE /\ Did(r, Done(WithRx(r, k, p)), k, p, << >>, << >>)
                         /\ Did(r, Done(WithTx(r, p)), k, << >>, p, << >>)
                         /\ \A px, pt : Did(r, Refuse(r, -1), k, px, pt, << >>)
  BY RowCovers, DidPut, Refused
<1>5. Did(r, SetCompandSt(r, k, a), k, IF named THEN f ELSE << >>, IF named THEN << >> ELSE f, << >>)
  BY <1>2, <1>4
<1>6. Did(r, SetCompand(r, k, a), k, IF named THEN w ELSE << >>, IF named THEN << >> ELSE w, << >>)
  BY <1>2, <1>4
<1>7. /\ Did(r, SetGrphEQcmd(r, k, a, RX), k, e, << >>, << >>)
      /\ Did(r, SetGrphEQcmd(r, k, a, TX), k, << >>, e, << >>)
      /\ Did(r, SetTXCompandSt(r, a), k, << >>, f, << >>)
      /\ Did(r, SetTXCompand(r, a), k, << >>, w, << >>)
      /\ Did(r, SetDCBlockSt(r, a), k, << >>, d, << >>)
  BY <1>2, <1>3, <1>4
<1>8. QED
  BY <1>1, <1>5, <1>6, <1>7 DEF f, w, e, d

LEMMA TestDoes ==
  ASSUME NEW r, Formed(r), NEW k \in Rx, NEW a \in Seq(Int)
  PROVE  /\ Did(r, SetTEST(r, a), k, << >>, << >>, [test_mode |-> AsIs(a[1])])
         /\ Did(r, SetTestTone(r, a), k, << >>, << >>,
                [tone_amp |-> Stored("setTestTone", a[2])])
         /\ Did(r, SetTestTwoTone(r, a), k, << >>, << >>,
                [a_amp |-> Stored("setTestTwoTone", a[2]), b_amp |-> Stored("setTestTwoTone", a[4])])
         /\ Did(r, SetTestNoise(r, a), k, << >>, << >>,
                [noise_amp |-> Stored("setTestNoise", a[1])])
         /\ Did(r, SetTestThru(r, a), k, << >>, << >>, [test_thru |-> AsIs(a[1])])
<1>1. ASSUME NEW c, NEW p, Covers(c, p)
      PROVE  /\ Did(r, Done(WithUni(r, c)), k, << >>, << >>, p)
             /\ Did(r, Refuse(r, -1), k, << >>, << >>, p)
             /\ \A n : Did(r, Test(r, a, n, c), k, << >>, << >>, p)
  <2>1. /\ Did(r, Done(WithUni(r, c)), k, << >>, << >>, p)
        /\ Did(r, Refuse(r, -1), k, << >>, << >>, p)
    BY <1>1, DidPut, Refused
  <2>2. QED
    BY <2>1 DEF Test
<1>2. \A t, u, v, w :
        /\ Covers([test_mode |-> t], [test_mode |-> t])
        /\ Covers([tone_osc |-> t, tone_amp |-> u], [tone_amp |-> u])
        /\ Covers([a_osc |-> t, a_amp |-> u, b_osc |-> v, b_amp |-> w], [a_amp |-> u, b_amp |-> w])
        /\ Covers([noise_amp |-> t], [noise_amp |-> t])
        /\ Covers([test_thru |-> t], [test_thru |-> t])
  BY DEF Covers, Unasked
<1>3. Did(r, SetTEST(r, a), k, << >>, << >>, [test_mode |-> AsIs(a[1])])
  BY <1>1, <1>2, Zenon DEF SetTEST
<1>4. /\ Did(r, SetTestTone(r, a), k, << >>, << >>, [tone_amp |-> Stored("setTestTone", a[2])])
      /\ Did(r, SetTestTwoTone(r, a), k, << >>, << >>,
             [a_amp |-> Stored("setTestTwoTone", a[2]), b_amp |-> Stored("setTestTwoTone", a[4])])
      /\ Did(r, SetTestNoise(r, a), k, << >>, << >>, [noise_amp |-> Stored("setTestNoise", a[1])])
      /\ Did(r, SetTestThru(r, a), k, << >>, << >>, [test_thru |-> AsIs(a[1])])
  BY <1>1, <1>2, Zenon DEF SetTestTone, SetTestTwoTone, SetTestNoise, SetTestThru
<1>5. QED
  BY <1>3, <1>4

LEMMA SpectrumDoes ==
  ASSUME NEW r, Formed(r), NEW k \in Rx, NEW a \in Seq(Int)
  PROVE  /\ Did(r, SetSpectrumPolyphase(r, a), k, << >>, << >>, << >>)
         /\ Did(r, SetSpectrumWindow(r, a), k, << >>, << >>, [wintype |-> AsIs(a[1])])
         /\ Did(r, SetSpectrumType(r, k, a), k, << >>, << >>, << >>)
<1>1. Did(r, SetSpectrumPolyphase(r, a), k, << >>, << >>, << >>)
  <2> DEFINE on == a[1] # 0
             mask == IF on THEN "8*size-1" ELSE "size-1"
             window == IF on THEN <<"WOLA", 0>> ELSE r.uni.wintype
             c == [polyphase |-> on, mask |-> mask, window |-> window]
  <2>1. SetSpectrumPolyphase(r, a) =
          IF r.uni.polyphase = on THEN Done(r) ELSE Done(WithUni(r, c))
    BY Zenon DEF SetSpectrumPolyphase
  <2>2. DOMAIN c = {"polyphase", "mask", "window"}
    OBVIOUS
  <2> HIDE DEF on, c
  <2>3. Covers(c, << >>)
    BY <2>2, NothingPut DEF Covers, Unasked
  <2>4. Did(r, Done(WithUni(r, c)), k, << >>, << >>, << >>)
    BY <2>3, DidPut
  <2>5. QED
    BY <2>1, <2>4, DidNothing, Zenon
<1>2. Did(r, SetSpectrumWindow(r, a), k, << >>, << >>, [wintype |-> AsIs(a[1])])
  <2> DEFINE v == AsIs(a[1])
             x == [wintype |-> v]
             y == IF r.uni.polyphase THEN << >> ELSE [window |-> v]
             c == x ++ y
  <2>1. SetSpectrumWindow(r, a) = Done(WithUni(r, c))
    BY Zenon DEF SetSpectrumWindow
  <2>2. DOMAIN x = {"wintype"} /\ DOMAIN y \subseteq {"window"}
    OBVIOUS
  <2> HIDE DEF x, y
  <2>3. Covers(c, x)
    BY <2>2 DEF Covers, Unasked, ++
  <2> HIDE DEF c
  <2>4. QED
    BY <2>1, <2>3, DidPut DEF x
<1>3. Did(r, SetSpectrumType(r, k, a), k, << >>, << >>, << >>)
  <2> DEFINE c == [type  |-> IF Len(a) \in 1 .. 3 THEN a[1] ELSE 2,
                   scale |-> IF Len(a) \in 2 .. 3 THEN a[2] ELSE 1,
                   rxk   |-> IF Len(a) = 3 THEN a[3] ELSE k]
             u == WithUni(r, c)
  <2>1. DOMAIN c = {"type", "scale", "rxk"}
    OBVIOUS
  <2>2. SetSpectrumType(r, k, a) = IF Len(a) > 3 THEN Refuse(u, -1) ELSE Done(u)
    BY Zenon DEF SetSpectrumType
  <2> HIDE DEF c
  <2>3. Covers(c, << >>)
    BY <2>1, NothingPut DEF Covers, Unasked
  <2>4. Moved(r, u, k, << >>, << >>, << >>)
    BY <2>3, MovedBy
  <2> HIDE DEF u
  <2>5. QED
    BY <2>2, <2>4, Returned DEF Did
<1>4. QED
  BY <1>1, <1>2, <1>3

(* What lines of the table that are not rows put where.                    *)
LEMMA Puts ==
  ASSUME NEW c, NEW a
  PROVE  /\ c = "setFilter" =>
              /\ ToRx(c, a) = IF Named(a, 3, TX) THEN << >>
                              ELSE [lo |-> AsIs(a[1]), hi |-> AsIs(a[2])]
              /\ ToTx(c, a) = IF Named(a, 3, TX) THEN [lo |-> AsIs(a[1]), hi |-> AsIs(a[2])]
                              ELSE << >>
         /\ c = "setMode" =>
              /\ ToRx(c, a) = IF Named(a, 2, TX) THEN << >> ELSE [mode |-> AsIs(a[1])]
              /\ ToTx(c, a) = IF Named(a, 2, TX) \/ Len(a) < 2 THEN [mode |-> AsIs(a[1])]
                              ELSE << >>
         /\ c = "setOsc" =>
              /\ ToRx(c, a) = IF Named(a, 2, TX) THEN << >> ELSE [osc |-> Stored("setOsc", a[1])]
              /\ ToTx(c, a) = IF Named(a, 2, TX) \/ Len(a) < 2
                              THEN [osc |-> Stored("setOsc", a[1])] ELSE << >>
         /\ c = "setCompandSt" =>
              /\ ToRx(c, a) = IF Named(a, 2, RX) THEN [cpd_flag |-> Flag(a)] ELSE << >>
              /\ ToTx(c, a) = IF Named(a, 2, RX) THEN << >> ELSE [cpd_flag |-> Flag(a)]
         /\ c = "setCompand" =>
              /\ ToRx(c, a) = IF Named(a, 2, RX) THEN [cpd_fac |-> AsIs(a[1])] ELSE << >>
              /\ ToTx(c, a) = IF Named(a, 2, RX) THEN << >> ELSE [cpd_fac |-> AsIs(a[1])]
         /\ c \in {"setFilter", "setMode", "setOsc", "setCompandSt", "setCompand"} =>
              ToUni(c, a) = << >>
<1> USE DEF ToRx, ToTx, ToUni, RxRows, TxRows
<1>1. CASE c = "setFilter"
  BY <1>1, SMTT(60)
<1>2. CASE c = "setMode"
  BY <1>2, SMTT(60)
<1>3. CASE c = "setOsc"
  BY <1>3, SMTT(60)
<1>4. CASE c = "setCompandSt"
  BY <1>4, SMTT(60)
<1>5. CASE c = "setCompand"
  BY <1>5, SMTT(60)
<1>6. QED
  BY <1>1, <1>2, <1>3, <1>4, <1>5

LEMMA PutsOneSide ==
  ASSUME NEW c, NEW a
  PROVE  /\ c \in {"setGrphRXEQ3", "setGrphRXEQ10", "setGrphRXEQcmd"} =>
              ToTx(c, a) = << >> /\ ToUni(c, a) = << >>
         /\ c \in {"setGrphTXEQ3", "setGrphTXEQ10", "setGrphTXEQcmd", "setTXCompandSt",
                   "setTXCompand", "setDCBlockSt"} =>
              ToRx(c, a) = << >> /\ ToUni(c, a) = << >>
         /\ c = "setGrphRXEQ3" => ToRx(c, a) = [eq_parm |-> <<3, SubSeq(a, 1, 4)>>]
         /\ c = "setGrphRXEQ10" => ToRx(c, a) = [eq_parm |-> <<10, SubSeq(a, 1, 11)>>]
         /\ c = "setGrphRXEQcmd" => ToRx(c, a) = [eq_flag |-> Flag(a)]
         /\ c = "setGrphTXEQ3" => ToTx(c, a) = [eq_parm |-> <<3, SubSeq(a, 1, 4)>>]
         /\ c = "setGrphTXEQ10" => ToTx(c, a) = [eq_parm |-> <<10, SubSeq(a, 1, 11)>>]
         /\ c = "setGrphTXEQcmd" => ToTx(c, a) = [eq_flag |-> Flag(a)]
         /\ c = "setTXCompandSt" => ToTx(c, a) = [cpd_flag |-> Flag(a)]
         /\ c = "setTXCompand" => ToTx(c, a) = [cpd_fac |-> AsIs(a[1])]
         /\ c = "setDCBlockSt" => ToTx(c, a) = [dcb_flag |-> Flag(a)]
<1> USE DEF ToRx, ToTx, ToUni, RxRows, TxRows
<1>1. CASE c \in {"setGrphRXEQ3", "setGrphRXEQ10", "setGrphRXEQcmd"}
  BY <1>1, SMTT(60)
<1>2. CASE c \in {"setGrphTXEQ3", "setGrphTXEQ10", "setGrphTXEQcmd"}
  BY <1>2, SMTT(60)
<1>3. CASE c \in {"setTXCompandSt", "setTXCompand", "setDCBlockSt"}
  BY <1>3, SMTT(60)
<1>4. QED
  BY <1>1, <1>2, <1>3

LEMMA PutsShared ==
  ASSUME NEW c, NEW a
  PROVE  /\ c \in {"setSpectrumWindow", "setTEST", "setTestTone", "setTestTwoTone",
                   "setTestNoise", "setTestThru"} => ToRx(c, a) = << >> /\ ToTx(c, a) = << >>
         /\ c = "setSpectrumWindow" => ToUni(c, a) = [wintype |-> AsIs(a[1])]
         /\ c = "setTEST" => ToUni(c, a) = [test_mode |-> AsIs(a[1])]
         /\ c = "setTestTone" => ToUni(c, a) = [tone_amp |-> Stored("setTestTone", a[2])]
         /\ c = "setTestTwoTone" => ToUni(c, a) = [a_amp |-> Stored("setTestTwoTone", a[2]),
                                                   b_amp |-> Stored("setTestTwoTone", a[4])]
         /\ c = "setTestNoise" => ToUni(c, a) = [noise_amp |-> Stored("setTestNoise", a[1])]
         /\ c = "setTestThru" => ToUni(c, a) = [test_thru |-> AsIs(a[1])]
<1> USE DEF ToRx, ToTx, ToUni, RxRows, TxRows
<1>1. CASE c \in {"setSpectrumWindow", "setTEST", "setTestTone"}
  BY <1>1, SMTT(60)
<1>2. CASE c \in {"setTestTwoTone", "setTestNoise", "setTestThru"}
  BY <1>2, SMTT(60)
<1>3. QED
  BY <1>1, <1>2

LEMMA PutsNothing ==
  ASSUME NEW c, NEW a,
         c \in {"setRXFiltCoefs", "setTXFiltCoefs", "setfixedAGC", "setRXAGC", "setRXAGCAttack",
                "setTXWaveShapeFunc", "setSpotTone", "setRXPan", "setGain", "setDCBlock",
                "setNotch160", "setSpectrumPolyphase", "setSpectrumType"}
  PROVE  ToRx(c, a) = << >> /\ ToTx(c, a) = << >> /\ ToUni(c, a) = << >>
BY SMTT(60) DEF ToRx, ToTx, ToUni, RxRows, TxRows

LEMMA PutsRows ==
  ASSUME NEW c, NEW a
  PROVE  /\ c \in RxRows => ToRx(c, a) = Store(RxSet[c], c, a) /\ ToTx(c, a) = << >>
                            /\ ToUni(c, a) = << >>
         /\ c \in TxRows => c \notin RxRows /\ ToTx(c, a) = Store(TxSet[c], c, a)
                            /\ ToRx(c, a) = << >> /\ ToUni(c, a) = << >>
         /\ c = "setTXMeterMode" => c \notin RxRows /\ c \notin TxRows
                            /\ ToUni(c, a) = [meter_tx |-> AsIs(a[1])]
                            /\ ToRx(c, a) = << >> /\ ToTx(c, a) = << >>
<1> USE DEF ToRx, ToTx, ToUni, RxRows, TxRows
<1>1. CASE c \in RxRows
  <2>1. ToRx(c, a) = Store(RxSet[c], c, a)
    BY <1>1, SMTT(60)
  <2>2. ToTx(c, a) = << >> /\ c \notin TxRows /\ c # "setTXMeterMode"
    BY <1>1, SMTT(60)
  <2>3. ToUni(c, a) = << >>
    BY <1>1, SMTT(60)
  <2>4. QED
    BY <1>1, <2>1, <2>2, <2>3
<1>2. CASE c \in TxRows
  <2>1. ToTx(c, a) = Store(TxSet[c], c, a)
    BY <1>2, SMTT(60)
  <2>2. ToRx(c, a) = << >> /\ c \notin RxRows /\ c # "setTXMeterMode"
    BY <1>2, SMTT(60)
  <2>3. ToUni(c, a) = << >>
    BY <1>2, SMTT(60)
  <2>4. QED
    BY <1>2, <2>1, <2>2, <2>3
<1>3. CASE c = "setTXMeterMode"
  BY <1>3, SMTT(60)
<1>4. QED
  BY <1>1, <1>2, <1>3

(* A line does what it says.                                               *)
LEMMA LineDoes ==
  ASSUME NEW r, Formed(r), NEW k \in Rx, NEW c \in Handlers, NEW a \in Seq(Int),
         c = "setFilter" => Len(a) >= 2, NEW spoilt, NEW s, s = Run(r, k, c, a, spoilt)
  PROVE  Did(r, s, k, ToRx(c, a), ToTx(c, a), ToUni(c, a))
<1>1. CASE c \in RxRows
  <2>1. s = Done(WithRx(r, k, Store(RxSet[c], c, a)))
    BY <1>1, RxTable DEF Run
  <2>2. QED
    BY <1>1, <2>1, PutsRows, RowCovers, DidPut
<1>2. CASE c \in TxRows
  <2>1. s = Done(WithTx(r, Store(TxSet[c], c, a)))
    BY <1>2, RxTable, TxTable, PutsRows DEF Run
  <2>2. QED
    BY <1>2, <2>1, PutsRows, RowCovers, DidPut
<1>3. CASE c = "setTXMeterMode"
  <2>1. s = Done(WithUni(r, Store(Meter.set[c], c, a)))
    BY <1>3, RxTable, TxTable, PutsRows DEF Run, Meter
  <2>2. Store(Meter.set[c], c, a) = [meter_tx |-> AsIs(a[1])]
    <3>1. Meter.set[c] = <<"meter_tx">>
      BY <1>3 DEF Meter
    <3>2. Range(Meter.set[c]) = {"meter_tx"} /\ DOMAIN Meter.set[c] = {1}
      BY <3>1 DEF Range
    <3>3. (CHOOSE i \in DOMAIN Meter.set[c] : Meter.set[c][i] = "meter_tx") = 1
      BY <3>1, <3>2
    <3>4. Stored(c, a[1]) = AsIs(a[1])
      BY <1>3 DEF Stored, Computed
    <3> DEFINE row == Meter.set[c]
    <3>5. Store(row, c, a) = [f \in Range(row) |-> Stored(c, a[CHOOSE i \in DOMAIN row : row[i] = f])]
      BY Zenon DEF Store
    <3> HIDE DEF row
    <3>6. Store(row, c, a) = [f \in {"meter_tx"} |-> AsIs(a[1])]
      <4>1. Range(row) = {"meter_tx"}
        BY <3>2 DEF row
      <4>2. \A f \in {"meter_tx"} : Stored(c, a[CHOOSE i \in DOMAIN row : row[i] = f]) = AsIs(a[1])
        BY <3>3, <3>4, Zenon DEF row
      <4>3. QED
        BY <3>5, <4>1, <4>2
    <3>7. QED
      BY <3>6 DEF row
  <2>3. QED
    BY <1>3, <2>1, <2>2, PutsRows, RowCovers, DidPut
<1>4. CASE c \notin RxRows /\ c \notin TxRows /\ c # "setTXMeterMode"
  <2>0. s = RunOwn(r, k, c, a, spoilt)
    BY <1>4, RxTable, TxTable DEF Run, Meter
  <2>1. /\ Did(r, SetGrphRXEQ(r, k, a, 3, spoilt), k, [eq_parm |-> <<3, SubSeq(a, 1, 4)>>], << >>, << >>)
        /\ Did(r, SetGrphRXEQ(r, k, a, 10, spoilt), k, [eq_parm |-> <<10, SubSeq(a, 1, 11)>>], << >>, << >>)
        /\ Did(r, SetGrphTXEQ(r, a, 3, spoilt), k, << >>, [eq_parm |-> <<3, SubSeq(a, 1, 4)>>], << >>)
        /\ Did(r, SetGrphTXEQ(r, a, 10, spoilt), k, << >>, [eq_parm |-> <<10, SubSeq(a, 1, 11)>>], << >>)
    <3>1. 3 + 1 = 4 /\ 10 + 1 = 11
      OBVIOUS
    <3>2. \A size : /\ Did(r, SetGrphRXEQ(r, k, a, size, spoilt), k,
                            [eq_parm |-> <<size, SubSeq(a, 1, size + 1)>>], << >>, << >>)
                     /\ Did(r, SetGrphTXEQ(r, a, size, spoilt), k,
                            << >>, [eq_parm |-> <<size, SubSeq(a, 1, size + 1)>>], << >>)
      BY CurveDoes
    <3>3. QED
      BY <3>1, <3>2
  <2>2. CASE c = "setFilter"
    <3>1. s = SetFilter(r, k, a)
      BY <2>0, <2>2, RunsOwn
    <3>2. QED
      BY <3>1, <2>2, Puts, FilterDoes
  <2>3. CASE c = "setMode"
    <3>1. s = SetMode(r, k, a)
      BY <2>0, <2>3, RunsOwn
    <3>2. QED
      BY <3>1, <2>3, Puts, ModeDoes
  <2>4. CASE c = "setOsc"
    <3>1. s = SetOsc(r, k, a)
      BY <2>0, <2>4, RunsOwn
    <3>2. QED
      BY <3>1, <2>4, Puts, ModeDoes
  <2>5. CASE c = "setCompandSt"
    <3>1. s = SetCompandSt(r, k, a)
      BY <2>0, <2>5, RunsOwn
    <3>2. QED
      BY <3>1, <2>5, Puts, FlagDoes
  <2>6. CASE c = "setCompand"
    <3>1. s = SetCompand(r, k, a)
      BY <2>0, <2>6, RunsOwn
    <3>2. QED
      BY <3>1, <2>6, Puts, FlagDoes
  <2>7. CASE c = "setGrphRXEQcmd"
    <3>1. s = SetGrphEQcmd(r, k, a, RX)
      BY <2>0, <2>7, RunsOwn
    <3>2. QED
      BY <3>1, <2>7, PutsOneSide, FlagDoes
  <2>8. CASE c = "setGrphTXEQcmd"
    <3>1. s = SetGrphEQcmd(r, k, a, TX)
      BY <2>0, <2>8, RunsOwn
    <3>2. QED
      BY <3>1, <2>8, PutsOneSide, FlagDoes
  <2>9. CASE c = "setTXCompandSt"
    <3>1. s = SetTXCompandSt(r, a)
      BY <2>0, <2>9, RunsOwn
    <3>2. QED
      BY <3>1, <2>9, PutsOneSide, FlagDoes
  <2>10. CASE c = "setTXCompand"
    <3>1. s = SetTXCompand(r, a)
      BY <2>0, <2>10, RunsOwn
    <3>2. QED
      BY <3>1, <2>10, PutsOneSide, FlagDoes
  <2>11. CASE c = "setDCBlockSt"
    <3>1. s = SetDCBlockSt(r, a)
      BY <2>0, <2>11, RunsOwn
    <3>2. QED
      BY <3>1, <2>11, PutsOneSide, FlagDoes
  <2>12. CASE c = "setGrphRXEQ3"
    <3>1. s = SetGrphRXEQ(r, k, a, 3, spoilt)
      BY <2>0, <2>12, RunsOwn
    <3>2. QED
      BY <3>1, <2>12, PutsOneSide, <2>1
  <2>13. CASE c = "setGrphRXEQ10"
    <3>1. s = SetGrphRXEQ(r, k, a, 10, spoilt)
      BY <2>0, <2>13, RunsOwn
    <3>2. QED
      BY <3>1, <2>13, PutsOneSide, <2>1
  <2>14. CASE c = "setGrphTXEQ3"
    <3>1. s = SetGrphTXEQ(r, a, 3, spoilt)
      BY <2>0, <2>14, RunsOwn
    <3>2. QED
      BY <3>1, <2>14, PutsOneSide, <2>1
  <2>15. CASE c = "setGrphTXEQ10"
    <3>1. s = SetGrphTXEQ(r, a, 10, spoilt)
      BY <2>0, <2>15, RunsOwn
    <3>2. QED
      BY <3>1, <2>15, PutsOneSide, <2>1
  <2>16. CASE c = "setSpectrumWindow"
    <3>1. s = SetSpectrumWindow(r, a)
      BY <2>0, <2>16, RunsOwn
    <3>2. QED
      BY <3>1, <2>16, PutsShared, SpectrumDoes
  <2>17. CASE c = "setSpectrumPolyphase"
    <3>1. s = SetSpectrumPolyphase(r, a)
      BY <2>0, <2>17, RunsOwn
    <3>2. ToRx(c, a) = << >> /\ ToTx(c, a) = << >> /\ ToUni(c, a) = << >>
      BY <2>17, PutsNothing
    <3>3. QED
      BY <3>1, <3>2, SpectrumDoes
  <2>18. CASE c = "setSpectrumType"
    <3>1. s = SetSpectrumType(r, k, a)
      BY <2>0, <2>18, RunsOwn
    <3>2. ToRx(c, a) = << >> /\ ToTx(c, a) = << >> /\ ToUni(c, a) = << >>
      BY <2>18, PutsNothing
    <3>3. QED
      BY <3>1, <3>2, SpectrumDoes
  <2>19. CASE c = "setTEST"
    <3>1. s = SetTEST(r, a)
      BY <2>0, <2>19, RunsOwn
    <3>2. ToRx(c, a) = << >> /\ ToTx(c, a) = << >> /\ ToUni(c, a) = [test_mode |-> AsIs(a[1])]
      BY <2>19, PutsShared
    <3>3. QED
      BY <3>1, <3>2, TestDoes
  <2>20. CASE c = "setTestTone"
    <3>1. s = SetTestTone(r, a)
      BY <2>0, <2>20, RunsOwn
    <3>2. QED
      BY <3>1, <2>20, PutsShared, TestDoes
  <2>21. CASE c = "setTestTwoTone"
    <3>1. s = SetTestTwoTone(r, a)
      BY <2>0, <2>21, RunsOwn
    <3>2. QED
      BY <3>1, <2>21, PutsShared, TestDoes
  <2>22. CASE c = "setTestNoise"
    <3>1. s = SetTestNoise(r, a)
      BY <2>0, <2>22, RunsOwn
    <3>2. QED
      BY <3>1, <2>22, PutsShared, TestDoes
  <2>23. CASE c = "setTestThru"
    <3>1. s = SetTestThru(r, a)
      BY <2>0, <2>23, RunsOwn
    <3>2. QED
      BY <3>1, <2>23, PutsShared, TestDoes
  <2>24. CASE c = "setRXFiltCoefs"
    <3>1. s = SetRXFiltCoefs(r, k, a)
      BY <2>0, <2>24, RunsOwn
    <3>2. ToRx(c, a) = << >> /\ ToTx(c, a) = << >> /\ ToUni(c, a) = << >>
      BY <2>24, PutsNothing
    <3>3. QED
      BY <3>1, <3>2, FilterDoes
  <2>25. CASE c = "setTXFiltCoefs"
    <3>1. s = SetTXFiltCoefs(r, k, a)
      BY <2>0, <2>25, RunsOwn
    <3>2. ToRx(c, a) = << >> /\ ToTx(c, a) = << >> /\ ToUni(c, a) = << >>
      BY <2>25, PutsNothing
    <3>3. QED
      BY <3>1, <3>2, FilterDoes
  <2>26. CASE c = "setfixedAGC"
    <3>1. s = SetfixedAGC(r, k, a)
      BY <2>0, <2>26, RunsOwn
    <3>2. ToRx(c, a) = << >> /\ ToTx(c, a) = << >> /\ ToUni(c, a) = << >>
      BY <2>26, PutsNothing
    <3>3. QED
      BY <3>1, <3>2, ModeDoes
  <2>27. c \in {"setRXAGC", "setRXAGCAttack", "setTXWaveShapeFunc", "setSpotTone", "setRXPan",
               "setGain", "setDCBlock", "setNotch160"}
          => Did(r, s, k, ToRx(c, a), ToTx(c, a), ToUni(c, a))
    BY <2>0, RunsOwn, PutsNothing, UnaskedDo, SMTT(60)
  <2>28. QED
    BY <1>4, RxTable, TxTable, <2>2, <2>3, <2>4, <2>5, <2>6, <2>7, <2>8, <2>9, <2>10,
       <2>11, <2>12, <2>13, <2>14, <2>15, <2>16, <2>17, <2>18, <2>19, <2>20, <2>21, <2>22,
       <2>23, <2>24, <2>25, <2>26, <2>27
       DEF Handlers, Meter
<1>5. QED
  BY <1>1, <1>2, <1>3, <1>4

(* Which of its arguments a command puts in which field of the receiver,   *)
(* of the transmitter and of what they share, where a question asks for it. *)
(* The curves of the equalisers are apart.                                 *)
RxWrites == {
  <<"setBlkNR", "banr_flag", 1>>, <<"setBlkNRval", "banr_rate", 1>>,
  <<"setBlkANF", "banf_flag", 1>>, <<"setBlkANFval", "banf_rate", 1>>,
  <<"setNB", "nb_flag", 1>>, <<"setNBvals", "nb_thresh", 1>>, <<"setSDROM", "sdrom_flag", 1>>,
  <<"setSDROMvals", "sdrom_thresh", 1>>, <<"setBIN", "bin_flag", 1>>,
  <<"setRXAGCLimit", "agc_top", 1>>, <<"setRXAGCTop", "agc_top", 1>>,
  <<"setRXAGCCompression", "agc_top", 1>>, <<"setRXAGCDecay", "agc_decay", 1>>,
  <<"setRXAGCHang", "agc_hangtime", 1>>, <<"setRXAGCSlope", "agc_slope", 1>>,
  <<"setRXAGCHangThreshold", "agc_hangthresh", 1>>, <<"setRXAGCFix", "agc_fix", 1>>,
  <<"setANF", "anf_flag", 1>>, <<"setANFvals", "anf_taps", 1>>,
  <<"setANFvals", "anf_delay", 2>>, <<"setANFvals", "anf_rate", 3>>,
  <<"setANFvals", "anf_leak", 4>>, <<"setNR", "anr_flag", 1>>, <<"setNRvals", "anr_taps", 1>>,
  <<"setNRvals", "anr_delay", 2>>, <<"setNRvals", "anr_rate", 3>>,
  <<"setNRvals", "anr_leak", 4>>, <<"setcorrectIQ", "iq_phase", 1>>,
  <<"setcorrectIQ", "iq_gain", 2>>, <<"setcorrectIQphase", "iq_phase", 1>>,
  <<"setcorrectIQgain", "iq_gain", 1>>, <<"setSquelch", "squelch_thresh", 1>>,
  <<"setSquelchSt", "squelch_flag", 1>>, <<"setSpotToneVals", "spot_gain", 1>>,
  <<"setSpotToneVals", "spot_freq", 2>>, <<"setSpotToneVals", "spot_rise", 3>>,
  <<"setSpotToneVals", "spot_fall", 4>>, <<"setFilter", "lo", 1>>, <<"setFilter", "hi", 2>>,
  <<"setMode", "mode", 1>>, <<"setOsc", "osc", 1>>, <<"setCompandSt", "cpd_flag", 1>>,
  <<"setCompand", "cpd_fac", 1>>, <<"setGrphRXEQcmd", "eq_flag", 1>>}

(* Those of the transmitter.                                               *)
TxWrites == {
  <<"setTXLevelerAttack", "leveler_attack", 1>>, <<"setTXLevelerSt", "leveler_flag", 1>>,
  <<"setTXLevelerDecay", "leveler_decay", 1>>, <<"setTXLevelerTop", "leveler_top", 1>>,
  <<"setTXLevelerHang", "leveler_hangtime", 1>>, <<"setTXAGCFF", "spr_flag", 1>>,
  <<"setTXSpeechCompression", "spr_flag", 1>>, <<"setTXAGCFFCompression", "spr_gain", 1>>,
  <<"setTXSpeechCompressionGain", "spr_gain", 1>>, <<"setTXCarrierLevel", "carrier", 1>>,
  <<"setcorrectTXIQ", "iq_phase", 1>>, <<"setcorrectTXIQ", "iq_gain", 2>>,
  <<"setcorrectTXIQphase", "iq_phase", 1>>, <<"setcorrectTXIQgain", "iq_gain", 1>>,
  <<"setTXSquelch", "squelch_thresh", 1>>, <<"setTXSquelchSt", "squelch_flag", 1>>,
  <<"setTXWaveShapeSt", "wvs_flag", 1>>, <<"setFilter", "lo", 1>>, <<"setFilter", "hi", 2>>,
  <<"setMode", "mode", 1>>, <<"setOsc", "osc", 1>>, <<"setCompandSt", "cpd_flag", 1>>,
  <<"setCompand", "cpd_fac", 1>>, <<"setTXCompandSt", "cpd_flag", 1>>,
  <<"setTXCompand", "cpd_fac", 1>>, <<"setDCBlockSt", "dcb_flag", 1>>,
  <<"setGrphTXEQcmd", "eq_flag", 1>>}

(* Those of what the channels share.                                       *)
UniWrites == {
  <<"setTXMeterMode", "meter_tx", 1>>, <<"setSpectrumWindow", "wintype", 1>>,
  <<"setTEST", "test_mode", 1>>, <<"setTestTone", "tone_amp", 2>>,
  <<"setTestTwoTone", "a_amp", 2>>, <<"setTestTwoTone", "b_amp", 4>>,
  <<"setTestNoise", "noise_amp", 1>>, <<"setTestThru", "test_thru", 1>>}

(* c writes its word j in field f.                                         *)
Says(writes, c, f, j) == <<c, f, j>> \in writes

(* The rows of the tables, as triples.                                     *)
Rowed(row, c, writes) ==
  /\ \A f, j : Says(writes, c, f, j) <=> j \in DOMAIN row /\ f = row[j]
  /\ \A i, j \in DOMAIN row : row[i] = row[j] => i = j
  /\ DOMAIN row = 1 .. Len(row) /\ Len(row) \in Nat

LEMMA RxRowed == \A c \in RxRows : Rowed(RxSet[c], c, RxWrites)
<1>0. \A c \in RxRows : RxRow(c, RxSet[c])
  BY RxTable
<1>1. Rowed(RxSet["setBlkNR"], "setBlkNR", RxWrites)
  <2>1. RxSet["setBlkNR"] = <<"banr_flag">>
    BY <1>0 DEF RxRow, RxRows
  <2> HIDE <1>0
  <2>2. QED
    BY <2>1 DEF Rowed, Says, RxWrites
<1>2. Rowed(RxSet["setBlkNRval"], "setBlkNRval", RxWrites)
  <2>1. RxSet["setBlkNRval"] = <<"banr_rate">>
    BY <1>0 DEF RxRow, RxRows
  <2> HIDE <1>0
  <2>2. QED
    BY <2>1 DEF Rowed, Says, RxWrites
<1>3. Rowed(RxSet["setBlkANF"], "setBlkANF", RxWrites)
  <2>1. RxSet["setBlkANF"] = <<"banf_flag">>
    BY <1>0 DEF RxRow, RxRows
  <2> HIDE <1>0
  <2>2. QED
    BY <2>1 DEF Rowed, Says, RxWrites
<1>4. Rowed(RxSet["setBlkANFval"], "setBlkANFval", RxWrites)
  <2>1. RxSet["setBlkANFval"] = <<"banf_rate">>
    BY <1>0 DEF RxRow, RxRows
  <2> HIDE <1>0
  <2>2. QED
    BY <2>1 DEF Rowed, Says, RxWrites
<1>5. Rowed(RxSet["setNB"], "setNB", RxWrites)
  <2>1. RxSet["setNB"] = <<"nb_flag">>
    BY <1>0 DEF RxRow, RxRows
  <2> HIDE <1>0
  <2>2. QED
    BY <2>1 DEF Rowed, Says, RxWrites
<1>6. Rowed(RxSet["setNBvals"], "setNBvals", RxWrites)
  <2>1. RxSet["setNBvals"] = <<"nb_thresh">>
    BY <1>0 DEF RxRow, RxRows
  <2> HIDE <1>0
  <2>2. QED
    BY <2>1 DEF Rowed, Says, RxWrites
<1>7. Rowed(RxSet["setSDROM"], "setSDROM", RxWrites)
  <2>1. RxSet["setSDROM"] = <<"sdrom_flag">>
    BY <1>0 DEF RxRow, RxRows
  <2> HIDE <1>0
  <2>2. QED
    BY <2>1 DEF Rowed, Says, RxWrites
<1>8. Rowed(RxSet["setSDROMvals"], "setSDROMvals", RxWrites)
  <2>1. RxSet["setSDROMvals"] = <<"sdrom_thresh">>
    BY <1>0 DEF RxRow, RxRows
  <2> HIDE <1>0
  <2>2. QED
    BY <2>1 DEF Rowed, Says, RxWrites
<1>9. Rowed(RxSet["setBIN"], "setBIN", RxWrites)
  <2>1. RxSet["setBIN"] = <<"bin_flag">>
    BY <1>0 DEF RxRow, RxRows
  <2> HIDE <1>0
  <2>2. QED
    BY <2>1 DEF Rowed, Says, RxWrites
<1>10. Rowed(RxSet["setRXAGCLimit"], "setRXAGCLimit", RxWrites)
  <2>1. RxSet["setRXAGCLimit"] = <<"agc_top">>
    BY <1>0 DEF RxRow, RxRows
  <2> HIDE <1>0
  <2>2. QED
    BY <2>1 DEF Rowed, Says, RxWrites
<1>11. Rowed(RxSet["setRXAGCTop"], "setRXAGCTop", RxWrites)
  <2>1. RxSet["setRXAGCTop"] = <<"agc_top">>
    BY <1>0 DEF RxRow, RxRows
  <2> HIDE <1>0
  <2>2. QED
    BY <2>1 DEF Rowed, Says, RxWrites
<1>12. Rowed(RxSet["setRXAGCCompression"], "setRXAGCCompression", RxWrites)
  <2>1. RxSet["setRXAGCCompression"] = <<"agc_top">>
    BY <1>0 DEF RxRow, RxRows
  <2> HIDE <1>0
  <2>2. QED
    BY <2>1 DEF Rowed, Says, RxWrites
<1>13. Rowed(RxSet["setRXAGCDecay"], "setRXAGCDecay", RxWrites)
  <2>1. RxSet["setRXAGCDecay"] = <<"agc_decay">>
    BY <1>0 DEF RxRow, RxRows
  <2> HIDE <1>0
  <2>2. QED
    BY <2>1 DEF Rowed, Says, RxWrites
<1>14. Rowed(RxSet["setRXAGCHang"], "setRXAGCHang", RxWrites)
  <2>1. RxSet["setRXAGCHang"] = <<"agc_hangtime">>
    BY <1>0 DEF RxRow, RxRows
  <2> HIDE <1>0
  <2>2. QED
    BY <2>1 DEF Rowed, Says, RxWrites
<1>15. Rowed(RxSet["setRXAGCSlope"], "setRXAGCSlope", RxWrites)
  <2>1. RxSet["setRXAGCSlope"] = <<"agc_slope">>
    BY <1>0 DEF RxRow, RxRows
  <2> HIDE <1>0
  <2>2. QED
    BY <2>1 DEF Rowed, Says, RxWrites
<1>16. Rowed(RxSet["setRXAGCHangThreshold"], "setRXAGCHangThreshold", RxWrites)
  <2>1. RxSet["setRXAGCHangThreshold"] = <<"agc_hangthresh">>
    BY <1>0 DEF RxRow, RxRows
  <2> HIDE <1>0
  <2>2. QED
    BY <2>1 DEF Rowed, Says, RxWrites
<1>17. Rowed(RxSet["setRXAGCFix"], "setRXAGCFix", RxWrites)
  <2>1. RxSet["setRXAGCFix"] = <<"agc_fix">>
    BY <1>0 DEF RxRow, RxRows
  <2> HIDE <1>0
  <2>2. QED
    BY <2>1 DEF Rowed, Says, RxWrites
<1>18. Rowed(RxSet["setANF"], "setANF", RxWrites)
  <2>1. RxSet["setANF"] = <<"anf_flag">>
    BY <1>0 DEF RxRow, RxRows
  <2> HIDE <1>0
  <2>2. QED
    BY <2>1 DEF Rowed, Says, RxWrites
<1>19. Rowed(RxSet["setNR"], "setNR", RxWrites)
  <2>1. RxSet["setNR"] = <<"anr_flag">>
    BY <1>0 DEF RxRow, RxRows
  <2> HIDE <1>0
  <2>2. QED
    BY <2>1 DEF Rowed, Says, RxWrites
<1>20. Rowed(RxSet["setcorrectIQphase"], "setcorrectIQphase", RxWrites)
  <2>1. RxSet["setcorrectIQphase"] = <<"iq_phase">>
    BY <1>0 DEF RxRow, RxRows
  <2> HIDE <1>0
  <2>2. QED
    BY <2>1 DEF Rowed, Says, RxWrites
<1>21. Rowed(RxSet["setcorrectIQgain"], "setcorrectIQgain", RxWrites)
  <2>1. RxSet["setcorrectIQgain"] = <<"iq_gain">>
    BY <1>0 DEF RxRow, RxRows
  <2> HIDE <1>0
  <2>2. QED
    BY <2>1 DEF Rowed, Says, RxWrites
<1>22. Rowed(RxSet["setSquelch"], "setSquelch", RxWrites)
  <2>1. RxSet["setSquelch"] = <<"squelch_thresh">>
    BY <1>0 DEF RxRow, RxRows
  <2> HIDE <1>0
  <2>2. QED
    BY <2>1 DEF Rowed, Says, RxWrites
<1>23. Rowed(RxSet["setSquelchSt"], "setSquelchSt", RxWrites)
  <2>1. RxSet["setSquelchSt"] = <<"squelch_flag">>
    BY <1>0 DEF RxRow, RxRows
  <2> HIDE <1>0
  <2>2. QED
    BY <2>1 DEF Rowed, Says, RxWrites
<1>24. Rowed(RxSet["setANFvals"], "setANFvals", RxWrites)
  <2>1. RxSet["setANFvals"] = <<"anf_taps", "anf_delay", "anf_rate", "anf_leak">>
    BY <1>0 DEF RxRow, RxRows
  <2> HIDE <1>0
  <2>2. QED
    BY <2>1 DEF Rowed, Says, RxWrites
<1>25. Rowed(RxSet["setNRvals"], "setNRvals", RxWrites)
  <2>1. RxSet["setNRvals"] = <<"anr_taps", "anr_delay", "anr_rate", "anr_leak">>
    BY <1>0 DEF RxRow, RxRows
  <2> HIDE <1>0
  <2>2. QED
    BY <2>1 DEF Rowed, Says, RxWrites
<1>26. Rowed(RxSet["setcorrectIQ"], "setcorrectIQ", RxWrites)
  <2>1. RxSet["setcorrectIQ"] = <<"iq_phase", "iq_gain">>
    BY <1>0 DEF RxRow, RxRows
  <2> HIDE <1>0
  <2>2. QED
    BY <2>1 DEF Rowed, Says, RxWrites
<1>27. Rowed(RxSet["setSpotToneVals"], "setSpotToneVals", RxWrites)
  <2>1. RxSet["setSpotToneVals"] = <<"spot_gain", "spot_freq", "spot_rise", "spot_fall">>
    BY <1>0 DEF RxRow, RxRows
  <2> HIDE <1>0
  <2>2. QED
    BY <2>1 DEF Rowed, Says, RxWrites
<1>28. QED
  BY <1>1, <1>2, <1>3, <1>4, <1>5, <1>6, <1>7, <1>8, <1>9, <1>10, <1>11, <1>12, <1>13,
     <1>14, <1>15, <1>16, <1>17, <1>18, <1>19, <1>20, <1>21, <1>22, <1>23, <1>24, <1>25,
     <1>26, <1>27 DEF RxRows

LEMMA TxRowed == \A c \in TxRows : Rowed(TxSet[c], c, TxWrites)
<1>0. \A c \in TxRows : TxRow(c, TxSet[c])
  BY TxTable
<1>1. Rowed(TxSet["setTXLevelerAttack"], "setTXLevelerAttack", TxWrites)
  <2>1. TxSet["setTXLevelerAttack"] = <<"leveler_attack">>
    BY <1>0 DEF TxRow, TxRows
  <2> HIDE <1>0
  <2>2. QED
    BY <2>1 DEF Rowed, Says, TxWrites
<1>2. Rowed(TxSet["setTXLevelerSt"], "setTXLevelerSt", TxWrites)
  <2>1. TxSet["setTXLevelerSt"] = <<"leveler_flag">>
    BY <1>0 DEF TxRow, TxRows
  <2> HIDE <1>0
  <2>2. QED
    BY <2>1 DEF Rowed, Says, TxWrites
<1>3. Rowed(TxSet["setTXLevelerDecay"], "setTXLevelerDecay", TxWrites)
  <2>1. TxSet["setTXLevelerDecay"] = <<"leveler_decay">>
    BY <1>0 DEF TxRow, TxRows
  <2> HIDE <1>0
  <2>2. QED
    BY <2>1 DEF Rowed, Says, TxWrites
<1>4. Rowed(TxSet["setTXLevelerTop"], "setTXLevelerTop", TxWrites)
  <2>1. TxSet["setTXLevelerTop"] = <<"leveler_top">>
    BY <1>0 DEF TxRow, TxRows
  <2> HIDE <1>0
  <2>2. QED
    BY <2>1 DEF Rowed, Says, TxWrites
<1>5. Rowed(TxSet["setTXLevelerHang"], "setTXLevelerHang", TxWrites)
  <2>1. TxSet["setTXLevelerHang"] = <<"leveler_hangtime">>
    BY <1>0 DEF TxRow, TxRows
  <2> HIDE <1>0
  <2>2. QED
    BY <2>1 DEF Rowed, Says, TxWrites
<1>6. Rowed(TxSet["setTXAGCFF"], "setTXAGCFF", TxWrites)
  <2>1. TxSet["setTXAGCFF"] = <<"spr_flag">>
    BY <1>0 DEF TxRow, TxRows
  <2> HIDE <1>0
  <2>2. QED
    BY <2>1 DEF Rowed, Says, TxWrites
<1>7. Rowed(TxSet["setTXSpeechCompression"], "setTXSpeechCompression", TxWrites)
  <2>1. TxSet["setTXSpeechCompression"] = <<"spr_flag">>
    BY <1>0 DEF TxRow, TxRows
  <2> HIDE <1>0
  <2>2. QED
    BY <2>1 DEF Rowed, Says, TxWrites
<1>8. Rowed(TxSet["setTXAGCFFCompression"], "setTXAGCFFCompression", TxWrites)
  <2>1. TxSet["setTXAGCFFCompression"] = <<"spr_gain">>
    BY <1>0 DEF TxRow, TxRows
  <2> HIDE <1>0
  <2>2. QED
    BY <2>1 DEF Rowed, Says, TxWrites
<1>9. Rowed(TxSet["setTXSpeechCompressionGain"], "setTXSpeechCompressionGain", TxWrites)
  <2>1. TxSet["setTXSpeechCompressionGain"] = <<"spr_gain">>
    BY <1>0 DEF TxRow, TxRows
  <2> HIDE <1>0
  <2>2. QED
    BY <2>1 DEF Rowed, Says, TxWrites
<1>10. Rowed(TxSet["setTXCarrierLevel"], "setTXCarrierLevel", TxWrites)
  <2>1. TxSet["setTXCarrierLevel"] = <<"carrier">>
    BY <1>0 DEF TxRow, TxRows
  <2> HIDE <1>0
  <2>2. QED
    BY <2>1 DEF Rowed, Says, TxWrites
<1>11. Rowed(TxSet["setcorrectTXIQphase"], "setcorrectTXIQphase", TxWrites)
  <2>1. TxSet["setcorrectTXIQphase"] = <<"iq_phase">>
    BY <1>0 DEF TxRow, TxRows
  <2> HIDE <1>0
  <2>2. QED
    BY <2>1 DEF Rowed, Says, TxWrites
<1>12. Rowed(TxSet["setcorrectTXIQgain"], "setcorrectTXIQgain", TxWrites)
  <2>1. TxSet["setcorrectTXIQgain"] = <<"iq_gain">>
    BY <1>0 DEF TxRow, TxRows
  <2> HIDE <1>0
  <2>2. QED
    BY <2>1 DEF Rowed, Says, TxWrites
<1>13. Rowed(TxSet["setTXSquelch"], "setTXSquelch", TxWrites)
  <2>1. TxSet["setTXSquelch"] = <<"squelch_thresh">>
    BY <1>0 DEF TxRow, TxRows
  <2> HIDE <1>0
  <2>2. QED
    BY <2>1 DEF Rowed, Says, TxWrites
<1>14. Rowed(TxSet["setTXSquelchSt"], "setTXSquelchSt", TxWrites)
  <2>1. TxSet["setTXSquelchSt"] = <<"squelch_flag">>
    BY <1>0 DEF TxRow, TxRows
  <2> HIDE <1>0
  <2>2. QED
    BY <2>1 DEF Rowed, Says, TxWrites
<1>15. Rowed(TxSet["setTXWaveShapeSt"], "setTXWaveShapeSt", TxWrites)
  <2>1. TxSet["setTXWaveShapeSt"] = <<"wvs_flag">>
    BY <1>0 DEF TxRow, TxRows
  <2> HIDE <1>0
  <2>2. QED
    BY <2>1 DEF Rowed, Says, TxWrites
<1>16. Rowed(TxSet["setcorrectTXIQ"], "setcorrectTXIQ", TxWrites)
  <2>1. TxSet["setcorrectTXIQ"] = <<"iq_phase", "iq_gain">>
    BY <1>0 DEF TxRow, TxRows
  <2> HIDE <1>0
  <2>2. QED
    BY <2>1 DEF Rowed, Says, TxWrites
<1>17. QED
  BY <1>1, <1>2, <1>3, <1>4, <1>5, <1>6, <1>7, <1>8, <1>9, <1>10, <1>11, <1>12, <1>13,
     <1>14, <1>15, <1>16 DEF TxRows

(* Storing a row puts each argument in its field.                          *)
LEMMA RowStored ==
  ASSUME NEW row, NEW c, NEW writes, Rowed(row, c, writes), NEW a
  PROVE  /\ \A f \in DOMAIN Store(row, c, a) : \E j : Says(writes, c, f, j)
         /\ \A f, j : Says(writes, c, f, j) =>
              f \in DOMAIN Store(row, c, a) /\ Store(row, c, a)[f] = Stored(c, a[j])
<1>1. Store(row, c, a) =
        [f \in Range(row) |-> Stored(c, a[CHOOSE i \in DOMAIN row : row[i] = f])]
  BY Zenon DEF Store
<1>2. \A f : f \in Range(row) <=> \E j \in DOMAIN row : row[j] = f
  BY DEF Range
<1>3. \A j \in DOMAIN row : (CHOOSE i \in DOMAIN row : row[i] = row[j]) = j
  BY DEF Rowed
<1>4. QED
  <2>1. ASSUME NEW f, NEW j, Says(writes, c, f, j)
        PROVE  f \in DOMAIN Store(row, c, a) /\ Store(row, c, a)[f] = Stored(c, a[j])
    <3>1. j \in DOMAIN row /\ f = row[j]
      BY <2>1 DEF Rowed
    <3>2. f \in Range(row)
      BY <1>2, <3>1
    <3>3. Store(row, c, a)[f] = Stored(c, a[CHOOSE i \in DOMAIN row : row[i] = f])
      BY <1>1, <3>2, Zenon
    <3>4. (CHOOSE i \in DOMAIN row : row[i] = f) = j
      BY <1>3, <3>1, SMT
    <3>5. QED
      BY <1>1, <3>2, <3>3, <3>4, Zenon
  <2>2. ASSUME NEW f \in DOMAIN Store(row, c, a) PROVE \E j : Says(writes, c, f, j)
    <3>1. f \in Range(row)
      BY <1>1, Zenon
    <3>2. QED
      BY <1>2, <3>1 DEF Rowed
  <2>3. QED
    BY <2>1, <2>2

(* The word of a line at place i; saying nothing is saying 0.              *)
Word(a, i) == IF i <= Len(a) THEN a[i] ELSE 0
(* The switches may be left without a word; what else is written is said.  *)
Flags == {"setCompandSt", "setTXCompandSt", "setDCBlockSt", "setGrphRXEQcmd", "setGrphTXEQcmd"}
Worded(writes, c, a) == \A f, j : Says(writes, c, f, j) => j <= Len(a) \/ c \in Flags

(* Whether a line for receiver k is for its side, or for the               *)
(* transmitter's.                                                          *)
RxSide(c, a) == /\ c \in {"setMode", "setOsc"} => ~Named(a, 2, TX)
                /\ c = "setFilter" => ~Named(a, 3, TX)
                /\ c \in {"setCompandSt", "setCompand"} => Named(a, 2, RX)
TxSide(c, a) == /\ c \in {"setMode", "setOsc"} => Named(a, 2, TX) \/ Len(a) < 2
                /\ c = "setFilter" => Named(a, 3, TX)
                /\ c \in {"setCompandSt", "setCompand"} => ~Named(a, 2, RX)

(* The commands that set an equaliser's curve.                             *)
RxCurves == {"setGrphRXEQ3", "setGrphRXEQ10"}
TxCurves == {"setGrphTXEQ3", "setGrphTXEQ10"}

(* What is put, p, is what the triples say, when the line is for this side. *)
Fits(c, a, p, side, writes) ==
  /\ \A f \in DOMAIN p \ {"eq_parm"} : side /\ \E j : Says(writes, c, f, j)
  /\ \A f, j : Says(writes, c, f, j) /\ side =>
       f \in DOMAIN p /\ p[f] = Stored(c, Word(a, j))

LEMMA FlagWord ==
  ASSUME NEW c \in Flags, NEW a \in Seq(Int)
  PROVE  Flag(a) = Stored(c, Word(a, 1))
<1>1. c \notin DOMAIN Computed
  BY DEF Flags, Computed
<1>2. Len(a) \in Nat /\ \A n \in Nat : n < 1 <=> ~(1 <= n)
  OBVIOUS
<1>3. QED
  BY <1>1, <1>2, Zenon DEF Flag, Stored, Word

(* Rows of a table.                                                        *)
LEMMA RowFits ==
  ASSUME NEW row, NEW c, NEW writes, Rowed(row, c, writes), NEW a, c \notin Flags,
         \A f, j : Says(writes, c, f, j) => j <= Len(a) \/ c \in Flags, NEW p,
         p = Store(row, c, a)
  PROVE  Fits(c, a, p, TRUE, writes)
<1>1. /\ \A f \in DOMAIN p : \E j : Says(writes, c, f, j)
      /\ \A f, j : Says(writes, c, f, j) => f \in DOMAIN p /\ p[f] = Stored(c, a[j])
  BY RowStored
<1>2. \A f, j : Says(writes, c, f, j) => Word(a, j) = a[j]
  BY DEF Word
<1>3. QED
  BY <1>1, <1>2 DEF Fits

(* Two fields.                                                             *)
LEMMA BandFits ==
  ASSUME NEW c, NEW a, NEW side \in BOOLEAN, NEW writes, NEW p,
         \A h, j : Says(writes, c, h, j) <=> (h = "lo" /\ j = 1) \/ (h = "hi" /\ j = 2),
         side => DOMAIN p = {"lo", "hi"} /\ p["lo"] = Stored(c, Word(a, 1))
                 /\ p["hi"] = Stored(c, Word(a, 2)),
         ~side => DOMAIN p = {}
  PROVE  Fits(c, a, p, side, writes) /\ "eq_parm" \notin DOMAIN p
BY DEF Fits

LEMMA NothingFits ==
  ASSUME NEW c, NEW a, NEW side, NEW writes, \A f, j : ~Says(writes, c, f, j)
  PROVE  Fits(c, a, << >>, side, writes)
BY NothingPut DEF Fits

LEMMA RxFits ==
  ASSUME NEW c, NEW a \in Seq(Int), Worded(RxWrites, c, a)
  PROVE  /\ Fits(c, a, ToRx(c, a), RxSide(c, a), RxWrites)
         /\ "eq_parm" \in DOMAIN ToRx(c, a) => c \in RxCurves
<1> DEFINE p == ToRx(c, a)
<1>1. CASE c \in RxRows
  <2>1. p = Store(RxSet[c], c, a) /\ RxSide(c, a)
    <3>1. RxSide(c, a)
      BY <1>1 DEF RxSide, RxRows
    <3>2. QED
      BY <1>1, <3>1, PutsRows
  <2>2. c \notin Flags
    BY <1>1 DEF Flags, RxRows
  <2>3. Fits(c, a, p, TRUE, RxWrites)
    <3>1. \A f, j : Says(RxWrites, c, f, j) => j <= Len(a) \/ c \in Flags
      BY DEF Worded
    <3>2. Rowed(RxSet[c], c, RxWrites)
      BY <1>1, RxRowed
    <3>3. QED
      BY <2>1, <2>2, <3>1, <3>2, RowFits, Zenon
  <2>4. \A j : ~Says(RxWrites, c, "eq_parm", j)
    BY DEF Says, RxWrites
  <2>5. "eq_parm" \notin DOMAIN p
    <3>1. \A f \in DOMAIN Store(RxSet[c], c, a) : \E j : Says(RxWrites, c, f, j)
      BY <1>1, RxRowed, RowStored
    <3>2. QED
      BY <2>1, <2>4, <3>1
  <2>6. QED
    BY <2>1, <2>3, <2>5
<1>2. CASE c = "setFilter"
  <2> DEFINE side == RxSide(c, a)
             v == AsIs(a[1])  w == AsIs(a[2])
             band == [lo |-> v, hi |-> w]
  <2>1. side \in BOOLEAN /\ (side <=> ~Named(a, 3, TX))
    BY <1>2 DEF RxSide
  <2>2. p = IF side THEN band ELSE << >>
    BY <1>2, <2>1, Puts
  <2>3. \A h, j : Says(RxWrites, c, h, j) <=> (h = "lo" /\ j = 1) \/ (h = "hi" /\ j = 2)
    BY <1>2 DEF Says, RxWrites
  <2>4. 1 <= Len(a) /\ 2 <= Len(a)
    BY <1>2, <2>3 DEF Worded, Flags
  <2>5. v = Stored(c, Word(a, 1)) /\ w = Stored(c, Word(a, 2))
    BY <1>2, <2>4, Zenon DEF Stored, Word, Computed
  <2> HIDE DEF v, w, side, p
  <2>6. /\ side => DOMAIN p = {"lo", "hi"} /\ p["lo"] = v /\ p["hi"] = w
        /\ ~side => DOMAIN p = {}
    BY <2>2, NothingPut
  <2>7. Fits(c, a, p, side, RxWrites) /\ "eq_parm" \notin DOMAIN p
    BY <2>1, <2>3, <2>5, <2>6, BandFits
  <2>8. QED
    BY <2>7 DEF p, side
<1>3. CASE c = "setMode"
  <2> DEFINE side == RxSide(c, a)
             v == AsIs(a[1])
  <2>1. side \in BOOLEAN /\ (side <=> ~Named(a, 2, TX))
    BY <1>3 DEF RxSide
  <2>2. p = IF side THEN [mode |-> v] ELSE << >>
    BY <1>3, <2>1, Puts
  <2>3. \A h, j : Says(RxWrites, c, h, j) <=> h = "mode" /\ j = 1
    BY <1>3 DEF Says, RxWrites
  <2>4. v = Stored(c, Word(a, 1))
    <3>1. 1 <= Len(a)
      BY <1>3, <2>3 DEF Worded, Flags
    <3>2. QED
      BY <1>3, <3>1 DEF Stored, Word, Computed
  <2> HIDE DEF v, side, p
  <2>5. (side => DOMAIN p = {"mode"} /\ p["mode"] = v) /\ (~side => DOMAIN p = {})
    BY <2>2, NothingPut
  <2>6. Fits(c, a, p, side, RxWrites) /\ "eq_parm" \notin DOMAIN p
    BY <2>1, <2>3, <2>4, <2>5 DEF Fits
  <2>7. QED
    BY <2>6 DEF p, side
<1>4. CASE c = "setOsc"
  <2> DEFINE side == RxSide(c, a)
             v == Stored("setOsc", a[1])
  <2>1. side \in BOOLEAN /\ (side <=> ~Named(a, 2, TX))
    BY <1>4 DEF RxSide
  <2>2. p = IF side THEN [osc |-> v] ELSE << >>
    BY <1>4, <2>1, Puts
  <2>3. \A h, j : Says(RxWrites, c, h, j) <=> h = "osc" /\ j = 1
    BY <1>4 DEF Says, RxWrites
  <2>4. v = Stored(c, Word(a, 1))
    <3>1. 1 <= Len(a)
      BY <1>4, <2>3 DEF Worded, Flags
    <3>2. QED
      BY <1>4, <3>1 DEF Stored, Word, Computed
  <2> HIDE DEF v, side, p
  <2>5. (side => DOMAIN p = {"osc"} /\ p["osc"] = v) /\ (~side => DOMAIN p = {})
    BY <2>2, NothingPut
  <2>6. Fits(c, a, p, side, RxWrites) /\ "eq_parm" \notin DOMAIN p
    BY <2>1, <2>3, <2>4, <2>5 DEF Fits
  <2>7. QED
    BY <2>6 DEF p, side
<1>5. CASE c = "setCompandSt"
  <2> DEFINE side == RxSide(c, a)
             v == Flag(a)
  <2>1. side \in BOOLEAN /\ (side <=> Named(a, 2, RX))
    BY <1>5 DEF RxSide
  <2>2. p = IF side THEN [cpd_flag |-> v] ELSE << >>
    BY <1>5, <2>1, Puts
  <2>3. \A h, j : Says(RxWrites, c, h, j) <=> h = "cpd_flag" /\ j = 1
    BY <1>5 DEF Says, RxWrites
  <2>4. v = Stored(c, Word(a, 1))
    BY <1>5, FlagWord DEF Flags
  <2> HIDE DEF v, side, p
  <2>5. (side => DOMAIN p = {"cpd_flag"} /\ p["cpd_flag"] = v) /\ (~side => DOMAIN p = {})
    BY <2>2, NothingPut
  <2>6. Fits(c, a, p, side, RxWrites) /\ "eq_parm" \notin DOMAIN p
    BY <2>1, <2>3, <2>4, <2>5 DEF Fits
  <2>7. QED
    BY <2>6 DEF p, side
<1>6. CASE c = "setCompand"
  <2> DEFINE side == RxSide(c, a)
             v == AsIs(a[1])
  <2>1. side \in BOOLEAN /\ (side <=> Named(a, 2, RX))
    BY <1>6 DEF RxSide
  <2>2. p = IF side THEN [cpd_fac |-> v] ELSE << >>
    BY <1>6, <2>1, Puts
  <2>3. \A h, j : Says(RxWrites, c, h, j) <=> h = "cpd_fac" /\ j = 1
    BY <1>6 DEF Says, RxWrites
  <2>4. v = Stored(c, Word(a, 1))
    <3>1. 1 <= Len(a)
      BY <1>6, <2>3 DEF Worded, Flags
    <3>2. QED
      BY <1>6, <3>1 DEF Stored, Word, Computed
  <2> HIDE DEF v, side, p
  <2>5. (side => DOMAIN p = {"cpd_fac"} /\ p["cpd_fac"] = v) /\ (~side => DOMAIN p = {})
    BY <2>2, NothingPut
  <2>6. Fits(c, a, p, side, RxWrites) /\ "eq_parm" \notin DOMAIN p
    BY <2>1, <2>3, <2>4, <2>5 DEF Fits
  <2>7. QED
    BY <2>6 DEF p, side
<1>7. CASE c = "setGrphRXEQcmd"
  <2> DEFINE side == RxSide(c, a)
             v == Flag(a)
  <2>1. side \in BOOLEAN /\ (side <=> TRUE)
    BY <1>7 DEF RxSide
  <2>2. p = IF side THEN [eq_flag |-> v] ELSE << >>
    BY <1>7, <2>1, PutsOneSide
  <2>3. \A h, j : Says(RxWrites, c, h, j) <=> h = "eq_flag" /\ j = 1
    BY <1>7 DEF Says, RxWrites
  <2>4. v = Stored(c, Word(a, 1))
    BY <1>7, FlagWord DEF Flags
  <2> HIDE DEF v, side, p
  <2>5. (side => DOMAIN p = {"eq_flag"} /\ p["eq_flag"] = v) /\ (~side => DOMAIN p = {})
    BY <2>2, NothingPut
  <2>6. Fits(c, a, p, side, RxWrites) /\ "eq_parm" \notin DOMAIN p
    BY <2>1, <2>3, <2>4, <2>5 DEF Fits
  <2>7. QED
    BY <2>6 DEF p, side
<1>8. CASE c \notin RxRows /\ c \notin {"setFilter", "setMode", "setOsc", "setCompandSt",
                                            "setCompand", "setGrphRXEQcmd"}
  <2>1. \A f, j : ~Says(RxWrites, c, f, j)
    BY <1>8, SMTT(60) DEF Says, RxWrites, RxRows
  <2>2. CASE c \in RxCurves
    <3>1. \E v : p = [eq_parm |-> v]
      BY <2>2, PutsOneSide DEF RxCurves
    <3>2. DOMAIN p = {"eq_parm"}
      BY <3>1
    <3>3. QED
      BY <2>1, <2>2, <3>2 DEF Fits
  <2>3. CASE c \notin RxCurves
    <3>1. p = << >>
      BY <1>8, <2>3, SMTT(60) DEF ToRx, RxRows, RxCurves
    <3>2. QED
      BY <2>1, <3>1, NothingFits, NothingPut
  <2>4. QED
    BY <2>2, <2>3
<1>9. QED
  BY <1>1, <1>2, <1>3, <1>4, <1>5, <1>6, <1>7, <1>8

LEMMA TxFits ==
  ASSUME NEW c, NEW a \in Seq(Int), Worded(TxWrites, c, a)
  PROVE  /\ Fits(c, a, ToTx(c, a), TxSide(c, a), TxWrites)
         /\ "eq_parm" \in DOMAIN ToTx(c, a) => c \in TxCurves
<1> DEFINE p == ToTx(c, a)
<1>1. CASE c \in TxRows
  <2>1. p = Store(TxSet[c], c, a) /\ TxSide(c, a)
    <3>1. TxSide(c, a)
      BY <1>1 DEF TxSide, TxRows
    <3>2. QED
      BY <1>1, <3>1, PutsRows
  <2>2. c \notin Flags
    BY <1>1 DEF Flags, TxRows
  <2>3. Fits(c, a, p, TRUE, TxWrites)
    <3>1. \A f, j : Says(TxWrites, c, f, j) => j <= Len(a) \/ c \in Flags
      BY DEF Worded
    <3>2. Rowed(TxSet[c], c, TxWrites)
      BY <1>1, TxRowed
    <3>3. QED
      BY <2>1, <2>2, <3>1, <3>2, RowFits, Zenon
  <2>4. \A j : ~Says(TxWrites, c, "eq_parm", j)
    BY DEF Says, TxWrites
  <2>5. "eq_parm" \notin DOMAIN p
    <3>1. \A f \in DOMAIN Store(TxSet[c], c, a) : \E j : Says(TxWrites, c, f, j)
      BY <1>1, TxRowed, RowStored
    <3>2. QED
      BY <2>1, <2>4, <3>1
  <2>6. QED
    BY <2>1, <2>3, <2>5
<1>2. CASE c = "setFilter"
  <2> DEFINE side == TxSide(c, a)
             v == AsIs(a[1])  w == AsIs(a[2])
             band == [lo |-> v, hi |-> w]
  <2>1. side \in BOOLEAN /\ (side <=> Named(a, 3, TX))
    BY <1>2 DEF TxSide
  <2>2. p = IF side THEN band ELSE << >>
    BY <1>2, <2>1, Puts
  <2>3. \A h, j : Says(TxWrites, c, h, j) <=> (h = "lo" /\ j = 1) \/ (h = "hi" /\ j = 2)
    BY <1>2 DEF Says, TxWrites
  <2>4. 1 <= Len(a) /\ 2 <= Len(a)
    BY <1>2, <2>3 DEF Worded, Flags
  <2>5. v = Stored(c, Word(a, 1)) /\ w = Stored(c, Word(a, 2))
    BY <1>2, <2>4, Zenon DEF Stored, Word, Computed
  <2> HIDE DEF v, w, side, p
  <2>6. /\ side => DOMAIN p = {"lo", "hi"} /\ p["lo"] = v /\ p["hi"] = w
        /\ ~side => DOMAIN p = {}
    BY <2>2, NothingPut
  <2>7. Fits(c, a, p, side, TxWrites) /\ "eq_parm" \notin DOMAIN p
    BY <2>1, <2>3, <2>5, <2>6, BandFits
  <2>8. QED
    BY <2>7 DEF p, side
<1>3. CASE c = "setMode"
  <2> DEFINE side == TxSide(c, a)
             v == AsIs(a[1])
  <2>1. side \in BOOLEAN /\ (side <=> Named(a, 2, TX) \/ Len(a) < 2)
    BY <1>3 DEF TxSide
  <2>2. p = IF side THEN [mode |-> v] ELSE << >>
    BY <1>3, <2>1, Puts
  <2>3. \A h, j : Says(TxWrites, c, h, j) <=> h = "mode" /\ j = 1
    BY <1>3 DEF Says, TxWrites
  <2>4. v = Stored(c, Word(a, 1))
    <3>1. 1 <= Len(a)
      BY <1>3, <2>3 DEF Worded, Flags
    <3>2. QED
      BY <1>3, <3>1 DEF Stored, Word, Computed
  <2> HIDE DEF v, side, p
  <2>5. (side => DOMAIN p = {"mode"} /\ p["mode"] = v) /\ (~side => DOMAIN p = {})
    BY <2>2, NothingPut
  <2>6. Fits(c, a, p, side, TxWrites) /\ "eq_parm" \notin DOMAIN p
    BY <2>1, <2>3, <2>4, <2>5 DEF Fits
  <2>7. QED
    BY <2>6 DEF p, side
<1>4. CASE c = "setOsc"
  <2> DEFINE side == TxSide(c, a)
             v == Stored("setOsc", a[1])
  <2>1. side \in BOOLEAN /\ (side <=> Named(a, 2, TX) \/ Len(a) < 2)
    BY <1>4 DEF TxSide
  <2>2. p = IF side THEN [osc |-> v] ELSE << >>
    BY <1>4, <2>1, Puts
  <2>3. \A h, j : Says(TxWrites, c, h, j) <=> h = "osc" /\ j = 1
    BY <1>4 DEF Says, TxWrites
  <2>4. v = Stored(c, Word(a, 1))
    <3>1. 1 <= Len(a)
      BY <1>4, <2>3 DEF Worded, Flags
    <3>2. QED
      BY <1>4, <3>1 DEF Stored, Word, Computed
  <2> HIDE DEF v, side, p
  <2>5. (side => DOMAIN p = {"osc"} /\ p["osc"] = v) /\ (~side => DOMAIN p = {})
    BY <2>2, NothingPut
  <2>6. Fits(c, a, p, side, TxWrites) /\ "eq_parm" \notin DOMAIN p
    BY <2>1, <2>3, <2>4, <2>5 DEF Fits
  <2>7. QED
    BY <2>6 DEF p, side
<1>5. CASE c = "setCompandSt"
  <2> DEFINE side == TxSide(c, a)
             v == Flag(a)
  <2>1. side \in BOOLEAN /\ (side <=> ~Named(a, 2, RX))
    BY <1>5 DEF TxSide
  <2>2. p = IF side THEN [cpd_flag |-> v] ELSE << >>
    BY <1>5, <2>1, Puts
  <2>3. \A h, j : Says(TxWrites, c, h, j) <=> h = "cpd_flag" /\ j = 1
    BY <1>5 DEF Says, TxWrites
  <2>4. v = Stored(c, Word(a, 1))
    BY <1>5, FlagWord DEF Flags
  <2> HIDE DEF v, side, p
  <2>5. (side => DOMAIN p = {"cpd_flag"} /\ p["cpd_flag"] = v) /\ (~side => DOMAIN p = {})
    BY <2>2, NothingPut
  <2>6. Fits(c, a, p, side, TxWrites) /\ "eq_parm" \notin DOMAIN p
    BY <2>1, <2>3, <2>4, <2>5 DEF Fits
  <2>7. QED
    BY <2>6 DEF p, side
<1>6. CASE c = "setCompand"
  <2> DEFINE side == TxSide(c, a)
             v == AsIs(a[1])
  <2>1. side \in BOOLEAN /\ (side <=> ~Named(a, 2, RX))
    BY <1>6 DEF TxSide
  <2>2. p = IF side THEN [cpd_fac |-> v] ELSE << >>
    BY <1>6, <2>1, Puts
  <2>3. \A h, j : Says(TxWrites, c, h, j) <=> h = "cpd_fac" /\ j = 1
    BY <1>6 DEF Says, TxWrites
  <2>4. v = Stored(c, Word(a, 1))
    <3>1. 1 <= Len(a)
      BY <1>6, <2>3 DEF Worded, Flags
    <3>2. QED
      BY <1>6, <3>1 DEF Stored, Word, Computed
  <2> HIDE DEF v, side, p
  <2>5. (side => DOMAIN p = {"cpd_fac"} /\ p["cpd_fac"] = v) /\ (~side => DOMAIN p = {})
    BY <2>2, NothingPut
  <2>6. Fits(c, a, p, side, TxWrites) /\ "eq_parm" \notin DOMAIN p
    BY <2>1, <2>3, <2>4, <2>5 DEF Fits
  <2>7. QED
    BY <2>6 DEF p, side
<1>7. CASE c = "setTXCompandSt"
  <2> DEFINE side == TxSide(c, a)
             v == Flag(a)
  <2>1. side \in BOOLEAN /\ (side <=> TRUE)
    BY <1>7 DEF TxSide
  <2>2. p = IF side THEN [cpd_flag |-> v] ELSE << >>
    BY <1>7, <2>1, PutsOneSide
  <2>3. \A h, j : Says(TxWrites, c, h, j) <=> h = "cpd_flag" /\ j = 1
    BY <1>7 DEF Says, TxWrites
  <2>4. v = Stored(c, Word(a, 1))
    BY <1>7, FlagWord DEF Flags
  <2> HIDE DEF v, side, p
  <2>5. (side => DOMAIN p = {"cpd_flag"} /\ p["cpd_flag"] = v) /\ (~side => DOMAIN p = {})
    BY <2>2, NothingPut
  <2>6. Fits(c, a, p, side, TxWrites) /\ "eq_parm" \notin DOMAIN p
    BY <2>1, <2>3, <2>4, <2>5 DEF Fits
  <2>7. QED
    BY <2>6 DEF p, side
<1>8. CASE c = "setTXCompand"
  <2> DEFINE side == TxSide(c, a)
             v == AsIs(a[1])
  <2>1. side \in BOOLEAN /\ (side <=> TRUE)
    BY <1>8 DEF TxSide
  <2>2. p = IF side THEN [cpd_fac |-> v] ELSE << >>
    BY <1>8, <2>1, PutsOneSide
  <2>3. \A h, j : Says(TxWrites, c, h, j) <=> h = "cpd_fac" /\ j = 1
    BY <1>8 DEF Says, TxWrites
  <2>4. v = Stored(c, Word(a, 1))
    <3>1. 1 <= Len(a)
      BY <1>8, <2>3 DEF Worded, Flags
    <3>2. QED
      BY <1>8, <3>1 DEF Stored, Word, Computed
  <2> HIDE DEF v, side, p
  <2>5. (side => DOMAIN p = {"cpd_fac"} /\ p["cpd_fac"] = v) /\ (~side => DOMAIN p = {})
    BY <2>2, NothingPut
  <2>6. Fits(c, a, p, side, TxWrites) /\ "eq_parm" \notin DOMAIN p
    BY <2>1, <2>3, <2>4, <2>5 DEF Fits
  <2>7. QED
    BY <2>6 DEF p, side
<1>9. CASE c = "setDCBlockSt"
  <2> DEFINE side == TxSide(c, a)
             v == Flag(a)
  <2>1. side \in BOOLEAN /\ (side <=> TRUE)
    BY <1>9 DEF TxSide
  <2>2. p = IF side THEN [dcb_flag |-> v] ELSE << >>
    BY <1>9, <2>1, PutsOneSide
  <2>3. \A h, j : Says(TxWrites, c, h, j) <=> h = "dcb_flag" /\ j = 1
    BY <1>9 DEF Says, TxWrites
  <2>4. v = Stored(c, Word(a, 1))
    BY <1>9, FlagWord DEF Flags
  <2> HIDE DEF v, side, p
  <2>5. (side => DOMAIN p = {"dcb_flag"} /\ p["dcb_flag"] = v) /\ (~side => DOMAIN p = {})
    BY <2>2, NothingPut
  <2>6. Fits(c, a, p, side, TxWrites) /\ "eq_parm" \notin DOMAIN p
    BY <2>1, <2>3, <2>4, <2>5 DEF Fits
  <2>7. QED
    BY <2>6 DEF p, side
<1>10. CASE c = "setGrphTXEQcmd"
  <2> DEFINE side == TxSide(c, a)
             v == Flag(a)
  <2>1. side \in BOOLEAN /\ (side <=> TRUE)
    BY <1>10 DEF TxSide
  <2>2. p = IF side THEN [eq_flag |-> v] ELSE << >>
    BY <1>10, <2>1, PutsOneSide
  <2>3. \A h, j : Says(TxWrites, c, h, j) <=> h = "eq_flag" /\ j = 1
    BY <1>10 DEF Says, TxWrites
  <2>4. v = Stored(c, Word(a, 1))
    BY <1>10, FlagWord DEF Flags
  <2> HIDE DEF v, side, p
  <2>5. (side => DOMAIN p = {"eq_flag"} /\ p["eq_flag"] = v) /\ (~side => DOMAIN p = {})
    BY <2>2, NothingPut
  <2>6. Fits(c, a, p, side, TxWrites) /\ "eq_parm" \notin DOMAIN p
    BY <2>1, <2>3, <2>4, <2>5 DEF Fits
  <2>7. QED
    BY <2>6 DEF p, side
<1>11. CASE c \notin TxRows /\ c \notin {"setFilter", "setMode", "setOsc", "setCompandSt", "setCompand",
                                             "setTXCompandSt", "setTXCompand", "setDCBlockSt",
                                             "setGrphTXEQcmd"}
  <2>1. \A f, j : ~Says(TxWrites, c, f, j)
    BY <1>11, SMTT(60) DEF Says, TxWrites, TxRows
  <2>2. CASE c \in TxCurves
    <3>1. \E v : p = [eq_parm |-> v]
      BY <2>2, PutsOneSide DEF TxCurves
    <3>2. DOMAIN p = {"eq_parm"}
      BY <3>1
    <3>3. QED
      BY <2>1, <2>2, <3>2 DEF Fits
  <2>3. CASE c \notin TxCurves
    <3>1. p = << >>
      BY <1>11, <2>3, SMTT(60) DEF ToTx, TxRows, TxCurves
    <3>2. QED
      BY <2>1, <3>1, NothingFits, NothingPut
  <2>4. QED
    BY <2>2, <2>3
<1>12. QED
  BY <1>1, <1>2, <1>3, <1>4, <1>5, <1>6, <1>7, <1>8, <1>9, <1>10, <1>11

LEMMA UniFits ==
  ASSUME NEW c, NEW a \in Seq(Int), Worded(UniWrites, c, a)
  PROVE  Fits(c, a, ToUni(c, a), TRUE, UniWrites)
<1> DEFINE p == ToUni(c, a)
<1>2. \A f, j : Says(UniWrites, c, f, j) => Word(a, j) = a[j]
  <2>1. \A f, j : Says(UniWrites, c, f, j) => c \notin Flags
    BY DEF Says, UniWrites, Flags
  <2>2. QED
    BY <2>1 DEF Worded, Word
<1>3. CASE c \in {"setTXMeterMode", "setSpectrumWindow", "setTEST", "setTestThru"}
  <2> DEFINE v == AsIs(a[1])
  <2>1. v = Stored(c, a[1])
    BY <1>3 DEF Stored, Computed
  <2>2. /\ c = "setTXMeterMode" => p = [meter_tx |-> v]
        /\ c = "setSpectrumWindow" => p = [wintype |-> v]
        /\ c = "setTEST" => p = [test_mode |-> v]
        /\ c = "setTestThru" => p = [test_thru |-> v]
    BY PutsRows, PutsShared
  <2>3. /\ c = "setTXMeterMode" => \A f, j : Says(UniWrites, c, f, j) <=> f = "meter_tx" /\ j = 1
        /\ c = "setSpectrumWindow" => \A f, j : Says(UniWrites, c, f, j) <=> f = "wintype" /\ j = 1
        /\ c = "setTEST" => \A f, j : Says(UniWrites, c, f, j) <=> f = "test_mode" /\ j = 1
        /\ c = "setTestThru" => \A f, j : Says(UniWrites, c, f, j) <=> f = "test_thru" /\ j = 1
    BY DEF Says, UniWrites
  <2> HIDE DEF p, v
  <2>4. /\ c = "setTXMeterMode" => DOMAIN p = {"meter_tx"} /\ p["meter_tx"] = v
        /\ c = "setSpectrumWindow" => DOMAIN p = {"wintype"} /\ p["wintype"] = v
        /\ c = "setTEST" => DOMAIN p = {"test_mode"} /\ p["test_mode"] = v
        /\ c = "setTestThru" => DOMAIN p = {"test_thru"} /\ p["test_thru"] = v
    BY <2>2
  <2>5. QED
    BY <1>2, <1>3, <2>1, <2>3, <2>4 DEF Fits, p
<1>4. CASE c \in {"setTestTone", "setTestNoise", "setTestTwoTone"}
  <2> DEFINE v == Stored(c, a[1])  w == Stored(c, a[2])  x == Stored(c, a[4])
  <2>1. /\ c = "setTestTone" => p = [tone_amp |-> w]
        /\ c = "setTestNoise" => p = [noise_amp |-> v]
        /\ c = "setTestTwoTone" => p = [a_amp |-> w, b_amp |-> x]
    BY PutsShared
  <2>2. /\ c = "setTestTone" => \A f, j : Says(UniWrites, c, f, j) <=> f = "tone_amp" /\ j = 2
        /\ c = "setTestNoise" => \A f, j : Says(UniWrites, c, f, j) <=> f = "noise_amp" /\ j = 1
        /\ c = "setTestTwoTone" => \A f, j : Says(UniWrites, c, f, j) <=>
                                     (f = "a_amp" /\ j = 2) \/ (f = "b_amp" /\ j = 4)
    BY DEF Says, UniWrites
  <2> HIDE DEF p, v, w, x
  <2>3. /\ c = "setTestTone" => DOMAIN p = {"tone_amp"} /\ p["tone_amp"] = w
        /\ c = "setTestNoise" => DOMAIN p = {"noise_amp"} /\ p["noise_amp"] = v
        /\ c = "setTestTwoTone" =>
             DOMAIN p = {"a_amp", "b_amp"} /\ p["a_amp"] = w /\ p["b_amp"] = x
    BY <2>1
  <2>4. QED
    BY <1>2, <1>4, <2>2, <2>3 DEF Fits, p, v, w, x
<1>5. CASE c \notin {"setTXMeterMode", "setSpectrumWindow", "setTEST", "setTestThru",
                     "setTestTone", "setTestNoise", "setTestTwoTone"}
  <2>1. p = << >>
    BY <1>5 DEF ToUni
  <2>2. \A f, j : ~Says(UniWrites, c, f, j)
    BY <1>5 DEF Says, UniWrites
  <2>3. QED
    BY <2>1, <2>2, NothingFits
<1>6. QED
  BY <1>3, <1>4, <1>5

(* The words that a handler reads without counting them.                   *)
Enough(c, a) ==
  /\ c \in DOMAIN RxSet => Len(RxSet[c]) <= Len(a)
  /\ c \in DOMAIN TxSet => Len(TxSet[c]) <= Len(a)
  /\ c \in {"setTXMeterMode", "setMode", "setOsc", "setSpectrumWindow"} => 1 <= Len(a)
  /\ c = "setFilter" => 2 <= Len(a)

(* A handler that counts its words accepts no line with fewer.             *)
LEMMA Counts ==
  ASSUME NEW r, NEW k, NEW a \in Seq(Int), NEW spoilt
  PROVE  /\ SetCompand(r, k, a).code = 0 => 1 <= Len(a)
         /\ SetTXCompand(r, a).code = 0 => 1 <= Len(a)
         /\ SetTEST(r, a).code = 0 => 1 <= Len(a)
         /\ SetTestTone(r, a).code = 0 => 2 <= Len(a)
         /\ SetTestTwoTone(r, a).code = 0 => 4 <= Len(a)
         /\ SetTestNoise(r, a).code = 0 => 1 <= Len(a)
         /\ SetTestThru(r, a).code = 0 => 1 <= Len(a)
         /\ SetGrphRXEQ(r, k, a, 3, spoilt).code = 0 => 4 <= Len(a)
         /\ SetGrphRXEQ(r, k, a, 10, spoilt).code = 0 => 11 <= Len(a)
         /\ SetGrphTXEQ(r, a, 3, spoilt).code = 0 => 4 <= Len(a)
         /\ SetGrphTXEQ(r, a, 10, spoilt).code = 0 => 11 <= Len(a)
<1> DEFINE n == Len(a)
<1>1. n \in Nat
  OBVIOUS
<1>2. Refuse(r, -1).code # 0
  BY DEF Refuse
<1>3. (SetCompand(r, k, a).code = 0 => ~(n < 1)) /\ (SetTXCompand(r, a).code = 0 => ~(n < 1))
  BY <1>2, Zenon DEF SetCompand, SetTXCompand
<1>4. /\ SetTEST(r, a).code = 0 => n = 1
      /\ \A m, c : Test(r, a, m, c).code = 0 => n = m
  BY <1>2, Zenon DEF SetTEST, Test
<1>5. /\ SetTestTone(r, a).code = 0 => n = 2
      /\ SetTestTwoTone(r, a).code = 0 => n = 4
      /\ SetTestNoise(r, a).code = 0 => n = 1
      /\ SetTestThru(r, a).code = 0 => n = 1
  BY <1>4, Zenon DEF SetTestTone, SetTestTwoTone, SetTestNoise, SetTestThru
<1>6. \A size : /\ SetGrphRXEQ(r, k, a, size, spoilt).code = 0 => ~(n < size + 1)
                /\ SetGrphTXEQ(r, a, size, spoilt).code = 0 => ~(n < size + 1)
  BY <1>2, Zenon DEF SetGrphRXEQ, SetGrphTXEQ
<1> HIDE DEF n
<1>7. (~(n < 1) => 1 <= n) /\ (~(n < 3 + 1) => 4 <= n) /\ (~(n < 10 + 1) => 11 <= n)
      /\ (n = 1 => 1 <= n) /\ (n = 2 => 2 <= n) /\ (n = 4 => 4 <= n)
  BY <1>1
<1>8. QED
  BY <1>3, <1>4, <1>5, <1>6, <1>7, Zenon DEF n

(* An accepted line has the words that its handler stores.                 *)
LEMMA CountedWords ==
  ASSUME NEW r, NEW k, NEW c, NEW a \in Seq(Int), NEW spoilt,
         NEW s, s = RunOwn(r, k, c, a, spoilt), s.code = 0
  PROVE  /\ c = "setCompand" => 1 <= Len(a)
         /\ c = "setTXCompand" => 1 <= Len(a)
         /\ c = "setTEST" => 1 <= Len(a)
         /\ c = "setTestTone" => 2 <= Len(a)
         /\ c = "setTestTwoTone" => 4 <= Len(a)
         /\ c = "setTestNoise" => 1 <= Len(a)
         /\ c = "setTestThru" => 1 <= Len(a)
         /\ c \in {"setGrphRXEQ3", "setGrphTXEQ3"} => 4 <= Len(a)
         /\ c \in {"setGrphRXEQ10", "setGrphTXEQ10"} => 11 <= Len(a)
<1>1. /\ c = "setCompand" => s = SetCompand(r, k, a)
      /\ c = "setTXCompand" => s = SetTXCompand(r, a)
      /\ c = "setTEST" => s = SetTEST(r, a)
      /\ c = "setTestTone" => s = SetTestTone(r, a)
      /\ c = "setTestTwoTone" => s = SetTestTwoTone(r, a)
      /\ c = "setTestNoise" => s = SetTestNoise(r, a)
      /\ c = "setTestThru" => s = SetTestThru(r, a)
      /\ c = "setGrphRXEQ3" => s = SetGrphRXEQ(r, k, a, 3, spoilt)
      /\ c = "setGrphRXEQ10" => s = SetGrphRXEQ(r, k, a, 10, spoilt)
      /\ c = "setGrphTXEQ3" => s = SetGrphTXEQ(r, a, 3, spoilt)
      /\ c = "setGrphTXEQ10" => s = SetGrphTXEQ(r, a, 10, spoilt)
  BY RunsOwn
<1>2. QED
  BY <1>1, Counts

LEMMA AcceptedWords ==
  ASSUME NEW r, NEW k, NEW c \in Handlers, NEW a \in Seq(Int), Enough(c, a), NEW spoilt,
         NEW s, s = Run(r, k, c, a, spoilt), s.code = 0
  PROVE  /\ Worded(RxWrites, c, a) /\ Worded(TxWrites, c, a) /\ Worded(UniWrites, c, a)
         /\ c \in {"setGrphRXEQ3", "setGrphTXEQ3"} => 4 <= Len(a)
         /\ c \in {"setGrphRXEQ10", "setGrphTXEQ10"} => 11 <= Len(a)
<1>0. Len(a) \in Nat
  OBVIOUS
<1>1. CASE c \in RxRows
  <2>1. Worded(RxWrites, c, a)
    <3>1. Rowed(RxSet[c], c, RxWrites) /\ Len(RxSet[c]) <= Len(a)
      BY <1>1, RxRowed, RxTable DEF Enough
    <3>2. QED
      BY <1>0, <3>1 DEF Rowed, Worded
  <2>2. \A f, j : ~Says(TxWrites, c, f, j) /\ ~Says(UniWrites, c, f, j)
    BY <1>1, SMTT(60) DEF Says, TxWrites, UniWrites, RxRows
  <2>3. c \notin RxCurves /\ c \notin TxCurves
    BY <1>1 DEF RxRows, RxCurves, TxCurves
  <2>4. QED
    BY <2>1, <2>2, <2>3 DEF Worded, RxCurves, TxCurves
<1>2. CASE c \in TxRows
  <2>1. Worded(TxWrites, c, a)
    <3>1. Rowed(TxSet[c], c, TxWrites) /\ Len(TxSet[c]) <= Len(a)
      BY <1>2, TxRowed, TxTable DEF Enough
    <3>2. QED
      BY <1>0, <3>1 DEF Rowed, Worded
  <2>2. \A f, j : ~Says(RxWrites, c, f, j) /\ ~Says(UniWrites, c, f, j)
    BY <1>2, SMTT(60) DEF Says, RxWrites, UniWrites, TxRows
  <2>3. c \notin RxCurves /\ c \notin TxCurves
    BY <1>2 DEF TxRows, RxCurves, TxCurves
  <2>4. QED
    BY <2>1, <2>2, <2>3 DEF Worded, RxCurves, TxCurves
<1>3. CASE c \notin RxRows /\ c \notin TxRows
  <2>1. c # "setTXMeterMode" => s = RunOwn(r, k, c, a, spoilt)
    BY <1>3, RxTable, TxTable DEF Run, Meter
  <2>2. \A f, j : Says(RxWrites, c, f, j) \/ Says(TxWrites, c, f, j) =>
          \/ c = "setFilter" /\ j \in {1, 2}
          \/ c \in {"setMode", "setOsc", "setCompand", "setTXCompand"} /\ j = 1
          \/ c \in Flags
    <3>1. \A f, j : Says(RxWrites, c, f, j) =>
          \/ c = "setFilter" /\ j \in {1, 2}
          \/ c \in {"setMode", "setOsc", "setCompand"} /\ j = 1
          \/ c \in Flags
      BY <1>3, SMTT(60) DEF Says, RxWrites, RxRows, Flags
    <3>2. \A f, j : Says(TxWrites, c, f, j) =>
          \/ c = "setFilter" /\ j \in {1, 2}
          \/ c \in {"setMode", "setOsc", "setCompand", "setTXCompand"} /\ j = 1
          \/ c \in Flags
      BY <1>3, SMTT(60) DEF Says, TxWrites, TxRows, Flags
    <3>3. QED
      BY <3>1, <3>2
  <2>3. \A f, j : Says(UniWrites, c, f, j) =>
          \/ c \in {"setTXMeterMode", "setSpectrumWindow", "setTEST", "setTestNoise",
                    "setTestThru"} /\ j = 1
          \/ c = "setTestTone" /\ j = 2
          \/ c = "setTestTwoTone" /\ j \in {2, 4}
    BY DEF Says, UniWrites
  <2>4. /\ c \in {"setCompand", "setTXCompand", "setTEST", "setTestNoise", "setTestThru"} => 1 <= Len(a)
        /\ c = "setTestTone" => 2 <= Len(a)
        /\ c = "setTestTwoTone" => 2 <= Len(a) /\ 4 <= Len(a)
        /\ c \in {"setGrphRXEQ3", "setGrphTXEQ3"} => 4 <= Len(a)
        /\ c \in {"setGrphRXEQ10", "setGrphTXEQ10"} => 11 <= Len(a)
    <3>1. CASE c = "setTXMeterMode"
      BY <3>1
    <3>2. CASE c # "setTXMeterMode"
      BY <1>0, <2>1, <3>2, CountedWords
    <3>3. QED
      BY <3>1, <3>2
  <2>5. /\ c \in {"setTXMeterMode", "setMode", "setOsc", "setSpectrumWindow"} => 1 <= Len(a)
        /\ c = "setFilter" => 1 <= Len(a) /\ 2 <= Len(a)
    BY <1>0 DEF Enough
  <2>6. Worded(RxWrites, c, a) /\ Worded(TxWrites, c, a)
    BY <2>2, <2>4, <2>5 DEF Worded
  <2>7. Worded(UniWrites, c, a)
    BY <2>3, <2>4, <2>5 DEF Worded
  <2>8. QED
    BY <2>4, <2>6, <2>7
<1>4. QED
  BY <1>1, <1>2, <1>3

(* The commands that About names for a number are the ones that write it. *)
Matches(set, f, writes) ==
  /\ \A t \in set : t = <<t[1], t[2]>>
  /\ \A c, j : <<c, j>> \in set <=> Says(writes, c, f, j)
  /\ f \notin Unasked /\ f # "eq_parm" /\ f # "iq_gain"
(* Question q answers each number from the field its commands write.       *)
AsAsked(q, row, writes) ==
  \A i \in DOMAIN About[q] :
    i \in DOMAIN row /\ (About[q][i] = {} \/ Matches(About[q][i], row[i], writes))

LEMMA RxAsked == \A q \in RxQuestions : AsAsked(q, Questions[q], RxWrites)
<1>1. AsAsked("getBlkNR", Questions["getBlkNR"], RxWrites)
  <2> DEFINE s1 == {<<"setBlkNR", 1>>}  s2 == {<<"setBlkNRval", 1>>}
  <2>1. About["getBlkNR"] = <<s1, s2>>
    BY DEF About
  <2>2. Questions["getBlkNR"] = <<"banr_flag", "banr_rate">>
    BY AskTable DEF AskRow, RxQuestions, TxQuestions
  <2>3. /\ Matches(s1, "banr_flag", RxWrites)
        /\ Matches(s2, "banr_rate", RxWrites)
    BY DEF Matches, Says, RxWrites, Unasked
  <2> HIDE DEF s1, s2
  <2>4. QED
    BY <2>1, <2>2, <2>3 DEF AsAsked
<1>2. AsAsked("getNB", Questions["getNB"], RxWrites)
  <2> DEFINE s1 == {<<"setNB", 1>>}  s2 == {<<"setNBvals", 1>>}
  <2>1. About["getNB"] = <<s1, s2>>
    BY DEF About
  <2>2. Questions["getNB"] = <<"nb_flag", "nb_thresh">>
    BY AskTable DEF AskRow, RxQuestions, TxQuestions
  <2>3. /\ Matches(s1, "nb_flag", RxWrites)
        /\ Matches(s2, "nb_thresh", RxWrites)
    BY DEF Matches, Says, RxWrites, Unasked
  <2> HIDE DEF s1, s2
  <2>4. QED
    BY <2>1, <2>2, <2>3 DEF AsAsked
<1>3. AsAsked("getSDROM", Questions["getSDROM"], RxWrites)
  <2> DEFINE s1 == {<<"setSDROM", 1>>}  s2 == {<<"setSDROMvals", 1>>}
  <2>1. About["getSDROM"] = <<s1, s2>>
    BY DEF About
  <2>2. Questions["getSDROM"] = <<"sdrom_flag", "sdrom_thresh">>
    BY AskTable DEF AskRow, RxQuestions, TxQuestions
  <2>3. /\ Matches(s1, "sdrom_flag", RxWrites)
        /\ Matches(s2, "sdrom_thresh", RxWrites)
    BY DEF Matches, Says, RxWrites, Unasked
  <2> HIDE DEF s1, s2
  <2>4. QED
    BY <2>1, <2>2, <2>3 DEF AsAsked
<1>4. AsAsked("getANF", Questions["getANF"], RxWrites)
  <2> DEFINE s1 == {<<"setANF", 1>>}  s2 == {<<"setANFvals", 1>>}
             s3 == {<<"setANFvals", 2>>}  s4 == {<<"setANFvals", 3>>}
             s5 == {<<"setANFvals", 4>>}
  <2>1. About["getANF"] = <<s1, s2, s3, s4, s5>>
    BY DEF About
  <2>2. Questions["getANF"] = <<"anf_flag", "anf_taps", "anf_delay", "anf_rate",
          "anf_leak">>
    BY AskTable DEF AskRow, RxQuestions, TxQuestions
  <2>3. /\ Matches(s1, "anf_flag", RxWrites)
        /\ Matches(s2, "anf_taps", RxWrites)
        /\ Matches(s3, "anf_delay", RxWrites)
        /\ Matches(s4, "anf_rate", RxWrites)
        /\ Matches(s5, "anf_leak", RxWrites)
    BY DEF Matches, Says, RxWrites, Unasked
  <2> HIDE DEF s1, s2, s3, s4, s5
  <2>4. QED
    BY <2>1, <2>2, <2>3 DEF AsAsked
<1>5. AsAsked("getANR", Questions["getANR"], RxWrites)
  <2> DEFINE s1 == {<<"setNR", 1>>}  s2 == {<<"setNRvals", 1>>}  s3 == {<<"setNRvals", 2>>}
             s4 == {<<"setNRvals", 3>>}  s5 == {<<"setNRvals", 4>>}
  <2>1. About["getANR"] = <<s1, s2, s3, s4, s5>>
    BY DEF About
  <2>2. Questions["getANR"] = <<"anr_flag", "anr_taps", "anr_delay", "anr_rate",
          "anr_leak">>
    BY AskTable DEF AskRow, RxQuestions, TxQuestions
  <2>3. /\ Matches(s1, "anr_flag", RxWrites)
        /\ Matches(s2, "anr_taps", RxWrites)
        /\ Matches(s3, "anr_delay", RxWrites)
        /\ Matches(s4, "anr_rate", RxWrites)
        /\ Matches(s5, "anr_leak", RxWrites)
    BY DEF Matches, Says, RxWrites, Unasked
  <2> HIDE DEF s1, s2, s3, s4, s5
  <2>4. QED
    BY <2>1, <2>2, <2>3 DEF AsAsked
<1>6. AsAsked("getRXIQ", Questions["getRXIQ"], RxWrites)
  <2>1. About["getRXIQ"] = <<{<<"setcorrectIQ", 1>>, <<"setcorrectIQphase", 1>>}>>
    BY DEF About
  <2>2. Questions["getRXIQ"] = <<"iq_phase", "iq_gain">>
    BY AskTable DEF AskRow, RxQuestions, TxQuestions
  <2>3. Matches({<<"setcorrectIQ", 1>>, <<"setcorrectIQphase", 1>>}, "iq_phase", RxWrites)
    BY DEF Matches, Says, RxWrites, Unasked
  <2>4. QED
    BY <2>1, <2>2, <2>3 DEF AsAsked
<1>7. AsAsked("getRXAGC", Questions["getRXAGC"], RxWrites)
  <2> DEFINE s3 == {<<"setRXAGCFix", 1>>}
             s5 == {<<"setRXAGCTop", 1>>, <<"setRXAGCCompression", 1>>, <<"setRXAGCLimit", 1>>}
             s8 == {<<"setRXAGCHangThreshold", 1>>}  s10 == {<<"setRXAGCSlope", 1>>}
  <2>1. About["getRXAGC"] = <<{}, {}, s3, {}, s5, {}, {}, s8, {}, s10>>
    BY DEF About
  <2>2. Questions["getRXAGC"] = <<"agc_flag", "agc_bottom", "agc_fix", "agc_limit",
          "agc_top", "agc_attack", "agc_decay", "agc_hangthresh", "agc_hangtime",
          "agc_slope">>
    BY AskTable DEF AskRow, RxQuestions, TxQuestions
  <2>3. /\ Matches(s3, "agc_fix", RxWrites)
        /\ Matches(s5, "agc_top", RxWrites)
        /\ Matches(s8, "agc_hangthresh", RxWrites)
        /\ Matches(s10, "agc_slope", RxWrites)
    BY DEF Matches, Says, RxWrites, Unasked
  <2> HIDE DEF s3, s5, s8, s10
  <2>4. QED
    BY <2>1, <2>2, <2>3 DEF AsAsked
<1>8. AsAsked("getRXSquelch", Questions["getRXSquelch"], RxWrites)
  <2> DEFINE s1 == {<<"setSquelchSt", 1>>}  s2 == {<<"setSquelch", 1>>}
  <2>1. About["getRXSquelch"] = <<s1, s2>>
    BY DEF About
  <2>2. Questions["getRXSquelch"] = <<"squelch_flag", "squelch_thresh">>
    BY AskTable DEF AskRow, RxQuestions, TxQuestions
  <2>3. /\ Matches(s1, "squelch_flag", RxWrites)
        /\ Matches(s2, "squelch_thresh", RxWrites)
    BY DEF Matches, Says, RxWrites, Unasked
  <2> HIDE DEF s1, s2
  <2>4. QED
    BY <2>1, <2>2, <2>3 DEF AsAsked
<1>9. AsAsked("getRXMode", Questions["getRXMode"], RxWrites)
  <2>1. About["getRXMode"] = <<{<<"setMode", 1>>}>>
    BY DEF About
  <2>2. Questions["getRXMode"] = <<"mode">>
    BY AskTable DEF AskRow, RxQuestions, TxQuestions
  <2>3. Matches({<<"setMode", 1>>}, "mode", RxWrites)
    BY DEF Matches, Says, RxWrites, Unasked
  <2>4. QED
    BY <2>1, <2>2, <2>3 DEF AsAsked
<1>10. AsAsked("getRXOsc", Questions["getRXOsc"], RxWrites)
  <2>1. About["getRXOsc"] = <<{<<"setOsc", 1>>}>>
    BY DEF About
  <2>2. Questions["getRXOsc"] = <<"osc">>
    BY AskTable DEF AskRow, RxQuestions, TxQuestions
  <2>3. Matches({<<"setOsc", 1>>}, "osc", RxWrites)
    BY DEF Matches, Says, RxWrites, Unasked
  <2>4. QED
    BY <2>1, <2>2, <2>3 DEF AsAsked
<1>11. AsAsked("getRXFilter", Questions["getRXFilter"], RxWrites)
  <2> DEFINE s1 == {<<"setFilter", 1>>}  s2 == {<<"setFilter", 2>>}
  <2>1. About["getRXFilter"] = <<s1, s2>>
    BY DEF About
  <2>2. Questions["getRXFilter"] = <<"lo", "hi">>
    BY AskTable DEF AskRow, RxQuestions, TxQuestions
  <2>3. /\ Matches(s1, "lo", RxWrites)
        /\ Matches(s2, "hi", RxWrites)
    BY DEF Matches, Says, RxWrites, Unasked
  <2> HIDE DEF s1, s2
  <2>4. QED
    BY <2>1, <2>2, <2>3 DEF AsAsked
<1>12. AsAsked("getRXCompand", Questions["getRXCompand"], RxWrites)
  <2> DEFINE s1 == {<<"setCompandSt", 1>>}  s2 == {<<"setCompand", 1>>}
  <2>1. About["getRXCompand"] = <<s1, s2>>
    BY DEF About
  <2>2. Questions["getRXCompand"] = <<"cpd_flag", "cpd_fac">>
    BY AskTable DEF AskRow, RxQuestions, TxQuestions
  <2>3. /\ Matches(s1, "cpd_flag", RxWrites)
        /\ Matches(s2, "cpd_fac", RxWrites)
    BY DEF Matches, Says, RxWrites, Unasked
  <2> HIDE DEF s1, s2
  <2>4. QED
    BY <2>1, <2>2, <2>3 DEF AsAsked
<1>13. QED
  BY <1>1, <1>2, <1>3, <1>4, <1>5, <1>6, <1>7, <1>8, <1>9, <1>10, <1>11, <1>12 DEF RxQuestions

LEMMA TxAsked == \A q \in TxQuestions : AsAsked(q, Questions[q], TxWrites)
<1>1. AsAsked("getTXIQ", Questions["getTXIQ"], TxWrites)
  <2>1. About["getTXIQ"] = <<{<<"setcorrectTXIQ", 1>>, <<"setcorrectTXIQphase", 1>>}>>
    BY DEF About
  <2>2. Questions["getTXIQ"] = <<"iq_phase", "iq_gain">>
    BY AskTable DEF AskRow, RxQuestions, TxQuestions
  <2>3. Matches({<<"setcorrectTXIQ", 1>>, <<"setcorrectTXIQphase", 1>>}, "iq_phase", TxWrites)
    BY DEF Matches, Says, TxWrites, Unasked
  <2>4. QED
    BY <2>1, <2>2, <2>3 DEF AsAsked
<1>2. AsAsked("getTXLeveler", Questions["getTXLeveler"], TxWrites)
  <2> DEFINE s1 == {<<"setTXLevelerSt", 1>>}  s2 == {<<"setTXLevelerTop", 1>>}
             s3 == {<<"setTXLevelerAttack", 1>>}  s4 == {<<"setTXLevelerDecay", 1>>}
             s5 == {<<"setTXLevelerHang", 1>>}
  <2>1. About["getTXLeveler"] = <<s1, s2, s3, s4, s5>>
    BY DEF About
  <2>2. Questions["getTXLeveler"] = <<"leveler_flag", "leveler_top", "leveler_attack",
          "leveler_decay", "leveler_hangtime">>
    BY AskTable DEF AskRow, RxQuestions, TxQuestions
  <2>3. /\ Matches(s1, "leveler_flag", TxWrites)
        /\ Matches(s2, "leveler_top", TxWrites)
        /\ Matches(s3, "leveler_attack", TxWrites)
        /\ Matches(s4, "leveler_decay", TxWrites)
        /\ Matches(s5, "leveler_hangtime", TxWrites)
    BY DEF Matches, Says, TxWrites, Unasked
  <2> HIDE DEF s1, s2, s3, s4, s5
  <2>4. QED
    BY <2>1, <2>2, <2>3 DEF AsAsked
<1>3. AsAsked("getTXSpeechCompression", Questions["getTXSpeechCompression"], TxWrites)
  <2> DEFINE s1 == {<<"setTXSpeechCompression", 1>>, <<"setTXAGCFF", 1>>}
             s3 == {<<"setTXSpeechCompressionGain", 1>>, <<"setTXAGCFFCompression", 1>>}
  <2>1. About["getTXSpeechCompression"] = <<s1, {}, s3>>
    BY DEF About
  <2>2. Questions["getTXSpeechCompression"] = <<"spr_flag", "spr_k", "spr_gain">>
    BY AskTable DEF AskRow, RxQuestions, TxQuestions
  <2>3. /\ Matches(s1, "spr_flag", TxWrites)
        /\ Matches(s3, "spr_gain", TxWrites)
    BY DEF Matches, Says, TxWrites, Unasked
  <2> HIDE DEF s1, s3
  <2>4. QED
    BY <2>1, <2>2, <2>3 DEF AsAsked
<1>4. AsAsked("getTXSquelch", Questions["getTXSquelch"], TxWrites)
  <2> DEFINE s1 == {<<"setTXSquelchSt", 1>>}  s2 == {<<"setTXSquelch", 1>>}
  <2>1. About["getTXSquelch"] = <<s1, s2>>
    BY DEF About
  <2>2. Questions["getTXSquelch"] = <<"squelch_flag", "squelch_thresh">>
    BY AskTable DEF AskRow, RxQuestions, TxQuestions
  <2>3. /\ Matches(s1, "squelch_flag", TxWrites)
        /\ Matches(s2, "squelch_thresh", TxWrites)
    BY DEF Matches, Says, TxWrites, Unasked
  <2> HIDE DEF s1, s2
  <2>4. QED
    BY <2>1, <2>2, <2>3 DEF AsAsked
<1>5. AsAsked("getTXMode", Questions["getTXMode"], TxWrites)
  <2>1. About["getTXMode"] = <<{<<"setMode", 1>>}>>
    BY DEF About
  <2>2. Questions["getTXMode"] = <<"mode">>
    BY AskTable DEF AskRow, RxQuestions, TxQuestions
  <2>3. Matches({<<"setMode", 1>>}, "mode", TxWrites)
    BY DEF Matches, Says, TxWrites, Unasked
  <2>4. QED
    BY <2>1, <2>2, <2>3 DEF AsAsked
<1>6. AsAsked("getTXOsc", Questions["getTXOsc"], TxWrites)
  <2>1. About["getTXOsc"] = <<{<<"setOsc", 1>>}>>
    BY DEF About
  <2>2. Questions["getTXOsc"] = <<"osc">>
    BY AskTable DEF AskRow, RxQuestions, TxQuestions
  <2>3. Matches({<<"setOsc", 1>>}, "osc", TxWrites)
    BY DEF Matches, Says, TxWrites, Unasked
  <2>4. QED
    BY <2>1, <2>2, <2>3 DEF AsAsked
<1>7. AsAsked("getTXFilter", Questions["getTXFilter"], TxWrites)
  <2> DEFINE s1 == {<<"setFilter", 1>>}  s2 == {<<"setFilter", 2>>}
  <2>1. About["getTXFilter"] = <<s1, s2>>
    BY DEF About
  <2>2. Questions["getTXFilter"] = <<"lo", "hi">>
    BY AskTable DEF AskRow, RxQuestions, TxQuestions
  <2>3. /\ Matches(s1, "lo", TxWrites)
        /\ Matches(s2, "hi", TxWrites)
    BY DEF Matches, Says, TxWrites, Unasked
  <2> HIDE DEF s1, s2
  <2>4. QED
    BY <2>1, <2>2, <2>3 DEF AsAsked
<1>8. AsAsked("getTXCompand", Questions["getTXCompand"], TxWrites)
  <2> DEFINE s1 == {<<"setCompandSt", 1>>, <<"setTXCompandSt", 1>>}
             s2 == {<<"setCompand", 1>>, <<"setTXCompand", 1>>}
  <2>1. About["getTXCompand"] = <<s1, s2>>
    BY DEF About
  <2>2. Questions["getTXCompand"] = <<"cpd_flag", "cpd_fac">>
    BY AskTable DEF AskRow, RxQuestions, TxQuestions
  <2>3. /\ Matches(s1, "cpd_flag", TxWrites)
        /\ Matches(s2, "cpd_fac", TxWrites)
    BY DEF Matches, Says, TxWrites, Unasked
  <2> HIDE DEF s1, s2
  <2>4. QED
    BY <2>1, <2>2, <2>3 DEF AsAsked
<1>9. AsAsked("getDCBlock", Questions["getDCBlock"], TxWrites)
  <2>1. About["getDCBlock"] = <<{<<"setDCBlockSt", 1>>}>>
    BY DEF About
  <2>2. Questions["getDCBlock"] = <<"dcb_flag">>
    BY AskTable DEF AskRow, RxQuestions, TxQuestions
  <2>3. Matches({<<"setDCBlockSt", 1>>}, "dcb_flag", TxWrites)
    BY DEF Matches, Says, TxWrites, Unasked
  <2>4. QED
    BY <2>1, <2>2, <2>3 DEF AsAsked
<1>10. AsAsked("getTXCarrierLevel", Questions["getTXCarrierLevel"], TxWrites)
  <2>1. About["getTXCarrierLevel"] = <<{<<"setTXCarrierLevel", 1>>}>>
    BY DEF About
  <2>2. Questions["getTXCarrierLevel"] = <<"carrier">>
    BY AskTable DEF AskRow, RxQuestions, TxQuestions
  <2>3. Matches({<<"setTXCarrierLevel", 1>>}, "carrier", TxWrites)
    BY DEF Matches, Says, TxWrites, Unasked
  <2>4. QED
    BY <2>1, <2>2, <2>3 DEF AsAsked
<1>11. QED
  BY <1>1, <1>2, <1>3, <1>4, <1>5, <1>6, <1>7, <1>8, <1>9, <1>10 DEF TxQuestions

LEMMA UniAsked == \A q \in UniQuestions : AsAsked(q, OfUni[q], UniWrites)
<1>1. AsAsked("getTXMeterMode", OfUni["getTXMeterMode"], UniWrites)
  <2>1. About["getTXMeterMode"] = <<{<<"setTXMeterMode", 1>>}>>
    BY DEF About
  <2>2. OfUni["getTXMeterMode"] = <<"meter_tx">>
    BY UniTable DEF UniRow, UniQuestions
  <2>3. Matches({<<"setTXMeterMode", 1>>}, "meter_tx", UniWrites)
    BY DEF Matches, Says, UniWrites, Unasked
  <2>4. QED
    BY <2>1, <2>2, <2>3 DEF AsAsked
<1>2. AsAsked("getSpectrumInfo", OfUni["getSpectrumInfo"], UniWrites)
  <2> DEFINE s2 == {<<"setSpectrumWindow", 1>>}
  <2>1. About["getSpectrumInfo"] = <<{}, s2, {}, {}, {}>>
    BY DEF About
  <2>2. OfUni["getSpectrumInfo"] = <<"polyphase", "wintype", "type", "scale", "rxk">>
    BY UniTable DEF UniRow, UniQuestions
  <2>3. Matches(s2, "wintype", UniWrites)
    BY DEF Matches, Says, UniWrites, Unasked
  <2> HIDE DEF s2
  <2>4. QED
    BY <2>1, <2>2, <2>3 DEF AsAsked
<1>3. AsAsked("getTEST", OfUni["getTEST"], UniWrites)
  <2> DEFINE s1 == {<<"setTestTone", 2>>}  s3 == {<<"setTestTwoTone", 2>>}
             s5 == {<<"setTestTwoTone", 4>>}  s7 == {<<"setTestNoise", 1>>}
             s8 == {<<"setTEST", 1>>}  s9 == {<<"setTestThru", 1>>}
  <2>1. About["getTEST"] = <<s1, {}, s3, {}, s5, {}, s7, s8, s9>>
    BY DEF About
  <2>2. OfUni["getTEST"] = <<"tone_amp", "tone_freq", "a_amp", "a_freq", "b_amp", "b_freq",
          "noise_amp", "test_mode", "test_thru">>
    BY UniTable DEF UniRow, UniQuestions
  <2>3. /\ Matches(s1, "tone_amp", UniWrites)
        /\ Matches(s3, "a_amp", UniWrites)
        /\ Matches(s5, "b_amp", UniWrites)
        /\ Matches(s7, "noise_amp", UniWrites)
        /\ Matches(s8, "test_mode", UniWrites)
        /\ Matches(s9, "test_thru", UniWrites)
    BY DEF Matches, Says, UniWrites, Unasked
  <2> HIDE DEF s1, s3, s5, s7, s8, s9
  <2>4. QED
    BY <2>1, <2>2, <2>3 DEF AsAsked
<1>4. QED
  BY <1>1, <1>2, <1>3 DEF UniQuestions

(* The curves of the equalisers.                                           *)
LEMMA EqPlaces ==
  ASSUME NEW u, NEW z1, NEW z2, NEW z3, NEW z4, NEW v,
         v = <<u, {}>> \o <<z1, z2, z3, z4>>
  PROVE  DOMAIN v = 1 .. 6 /\ v[1] = u /\ v[2] = {} /\ v[3] = z1 /\ v[4] = z2 /\ v[5] = z3
         /\ v[6] = z4
<1> DEFINE S == {u, {}, z1, z2, z3, z4}  h == <<u, {}>>  w == <<z1, z2, z3, z4>>
<1>1. h \in Seq(S) /\ w \in Seq(S) /\ v = h \o w
  OBVIOUS
<1>2. Len(h) = 2 /\ Len(w) = 4 /\ h[1] = u /\ h[2] = {}
      /\ w[1] = z1 /\ w[2] = z2 /\ w[3] = z3 /\ w[4] = z4
  OBVIOUS
<1> HIDE DEF S, h, w
<1>3. QED
  BY <1>1, <1>2

(* The same of the equaliser: its flag, and its curve's bands in order.    *)
EqAskedAs(q, writes, curves) ==
  /\ DOMAIN About[q] = 1 .. 6 /\ About[q][2] = {}
  /\ Matches(About[q][1], "eq_flag", writes)
  /\ \A i \in 3 .. 6 : \A t \in About[q][i] : t[1] \in curves /\ t[2] = i - 2
  /\ \A i \in 3 .. 6 : \A c \in curves : \E t \in About[q][i] : t[1] = c

LEMMA EqAsked ==
  /\ EqAskedAs("getGrphRXEQ", RxWrites, RxCurves)
  /\ EqAskedAs("getGrphTXEQ", TxWrites, TxCurves)
<1> DEFINE x(i) == {<<"setGrphRXEQ3", i>>, <<"setGrphRXEQ10", i>>}
           y(i) == {<<"setGrphTXEQ3", i>>, <<"setGrphTXEQ10", i>>}
           f == {<<"setGrphRXEQcmd", 1>>}  g == {<<"setGrphTXEQcmd", 1>>}
<1>1. /\ About["getGrphRXEQ"] = <<f, {}>> \o [i \in 1 .. 4 |-> x(i)]
      /\ About["getGrphTXEQ"] = <<g, {}>> \o [i \in 1 .. 4 |-> y(i)]
  BY DEF About
<1>2. Matches(f, "eq_flag", RxWrites) /\ Matches(g, "eq_flag", TxWrites)
  BY DEF Matches, Says, RxWrites, TxWrites, Unasked
<1>3. /\ \A i : \A t \in x(i) : t[1] \in RxCurves /\ t[2] = i
      /\ \A i : \A c \in RxCurves : \E t \in x(i) : t[1] = c
      /\ \A i : \A t \in y(i) : t[1] \in TxCurves /\ t[2] = i
      /\ \A i : \A c \in TxCurves : \E t \in y(i) : t[1] = c
  BY DEF RxCurves, TxCurves
<1> HIDE DEF x, y, f, g
<1>4. /\ [i \in 1 .. 4 |-> x(i)] = <<x(1), x(2), x(3), x(4)>>
      /\ [i \in 1 .. 4 |-> y(i)] = <<y(1), y(2), y(3), y(4)>>
  OBVIOUS
<1>5. ASSUME NEW q \in {"getGrphRXEQ"} PROVE EqAskedAs(q, RxWrites, RxCurves)
  <2> DEFINE v == About[q]
  <2>1. v = <<f, {}>> \o <<x(1), x(2), x(3), x(4)>>
    BY <1>1, <1>4
  <2> HIDE DEF v
  <2>2. DOMAIN v = 1 .. 6 /\ v[1] = f /\ v[2] = {} /\ v[3] = x(1) /\ v[4] = x(2)
        /\ v[5] = x(3) /\ v[6] = x(4)
    BY <2>1, EqPlaces
  <2>3. \A i \in 3 .. 6 : v[i] = x(i - 2)
    BY <2>2
  <2>4. QED
    BY <1>2, <1>3, <2>2, <2>3 DEF EqAskedAs, v
<1>6. ASSUME NEW q \in {"getGrphTXEQ"} PROVE EqAskedAs(q, TxWrites, TxCurves)
  <2> DEFINE v == About[q]
  <2>1. v = <<g, {}>> \o <<y(1), y(2), y(3), y(4)>>
    BY <1>1, <1>4
  <2> HIDE DEF v
  <2>2. DOMAIN v = 1 .. 6 /\ v[1] = g /\ v[2] = {} /\ v[3] = y(1) /\ v[4] = y(2)
        /\ v[5] = y(3) /\ v[6] = y(4)
    BY <2>1, EqPlaces
  <2>3. \A i \in 3 .. 6 : v[i] = y(i - 2)
    BY <2>2
  <2>4. QED
    BY <1>2, <1>3, <2>2, <2>3 DEF EqAskedAs, v
<1>7. QED
  BY <1>5, <1>6

(* The place of the radio that a number of an answer is read from, and     *)
(* what a line for receiver k puts there.                                  *)
FieldAt(q, i) ==
  IF q \in EqQuestions THEN IF i = 1 THEN "eq_flag" ELSE "eq_parm"
  ELSE IF q \in UniQuestions THEN OfUni[q][i] ELSE Questions[q][i]
Part(r, rl, q) ==
  IF q \in UniQuestions THEN r.uni ELSE IF q \in OfTx THEN r.tx ELSE r.rx[rl]
PutTo(q, rl, k, c, a) ==
  IF q \in UniQuestions THEN ToUni(c, a) ELSE IF q \in OfTx THEN ToTx(c, a)
  ELSE IF k = rl THEN ToRx(c, a) ELSE << >>
SideOf(q, rl, k, c, a) ==
  IF q \in UniQuestions THEN TRUE ELSE IF q \in OfTx THEN TxSide(c, a)
  ELSE k = rl /\ RxSide(c, a)
WritesOf(q) ==
  IF q \in UniQuestions THEN UniWrites ELSE IF q \in OfTx THEN TxWrites ELSE RxWrites
CurvesOf(q) == IF q \in OfTx THEN TxCurves ELSE RxCurves

(* The place holds the number v: a band is one of the equaliser's parameters. *)
Holds(part, q, i, v) ==
  /\ FieldAt(q, i) \in DOMAIN part
  /\ IF FieldAt(q, i) = "eq_parm"
     THEN part["eq_parm"] # << >> /\ AsIs(part["eq_parm"][2][i - 2]) = v
     ELSE part[FieldAt(q, i)] = v

LEMMA SpeaksSide ==
  ASSUME NEW e, NEW q, NEW rl
  PROVE  SpeaksTo(e, q, rl) <=> SideOf(q, rl, e.rl, e.cmd, e.args)
<1> DEFINE c == e.cmd  a == e.args
<1>1. \A i, trx : Names(e, i, trx) <=> Named(a, i, trx)
  BY DEF Names, Named
<1>2. DOMAIN OfUni = UniQuestions
  BY UniTable
<1>3. CASE c \in {"setMode", "setOsc"}
  BY <1>1, <1>2, <1>3 DEF SpeaksTo, SideOf, RxSide, TxSide
<1>4. CASE c = "setFilter"
  BY <1>1, <1>2, <1>4 DEF SpeaksTo, SideOf, RxSide, TxSide
<1>5. CASE c \in {"setCompandSt", "setCompand"}
  BY <1>1, <1>2, <1>5 DEF SpeaksTo, SideOf, RxSide, TxSide
<1>6. CASE c \notin {"setMode", "setOsc", "setFilter", "setCompandSt", "setCompand"}
  BY <1>1, <1>2, <1>6 DEF SpeaksTo, SideOf, RxSide, TxSide
<1>7. QED
  BY <1>3, <1>4, <1>5, <1>6

(* A number is read from a plain field, or from the parameters of an       *)
(* equaliser.                                                              *)
Plain(q, i) ==
  /\ Matches(About[q][i], FieldAt(q, i), WritesOf(q))
Banded(q, i) ==
  /\ q \in EqQuestions /\ i \in 3 .. 6
  /\ \A t \in About[q][i] : t[1] \in CurvesOf(q) /\ t[2] = i - 2
  /\ \A c \in CurvesOf(q) : \E t \in About[q][i] : t[1] = c

LEMMA Apart4 ==
  /\ UniQuestions \cap (RxQuestions \cup TxQuestions \cup EqQuestions) = {}
  /\ EqQuestions \cap (RxQuestions \cup TxQuestions) = {}
BY DEF UniQuestions, RxQuestions, TxQuestions, EqQuestions

LEMMA AboutPlaces ==
  ASSUME NEW q \in DOMAIN About, NEW i \in DOMAIN About[q], About[q][i] # {}
  PROVE  Plain(q, i) \/ Banded(q, i)
<1>1. CASE q \in RxQuestions
  <2>1. WritesOf(q) = RxWrites /\ FieldAt(q, i) = Questions[q][i]
    BY <1>1, Apart4, Side DEF WritesOf, FieldAt
  <2>2. QED
    BY <1>1, <2>1, RxAsked DEF AsAsked, Plain
<1>2. CASE q \in TxQuestions
  <2>1. WritesOf(q) = TxWrites /\ FieldAt(q, i) = Questions[q][i]
    BY <1>2, Apart4, Side DEF WritesOf, FieldAt
  <2>2. QED
    BY <1>2, <2>1, TxAsked DEF AsAsked, Plain
<1>3. CASE q \in UniQuestions
  <2>1. WritesOf(q) = UniWrites /\ FieldAt(q, i) = OfUni[q][i]
    BY <1>3, Apart4 DEF WritesOf, FieldAt
  <2>2. QED
    BY <1>3, <2>1, UniAsked DEF AsAsked, Plain
<1>4. CASE q \in EqQuestions
  <2>1. EqAskedAs(q, WritesOf(q), CurvesOf(q))
    BY <1>4, EqAsked, Side, Apart4 DEF WritesOf, CurvesOf, EqQuestions
  <2>2. i \in 1 .. 6 /\ i # 2
    BY <2>1 DEF EqAskedAs
  <2>3. CASE i = 1
    BY <1>4, <2>1, <2>3 DEF EqAskedAs, Plain, FieldAt
  <2>4. CASE i \in 3 .. 6
    BY <1>4, <2>1, <2>4 DEF EqAskedAs, Banded
  <2>5. QED
    BY <2>2, <2>3, <2>4
<1>5. QED
  BY <1>1, <1>2, <1>3, <1>4, AboutDomain

(* What an accepted line puts into a part of the radio is what it says.    *)
LEMMA PutFits ==
  ASSUME NEW q, NEW rl, NEW k, NEW c, NEW a \in Seq(Int),
         Worded(RxWrites, c, a), Worded(TxWrites, c, a), Worded(UniWrites, c, a)
  PROVE  /\ Fits(c, a, PutTo(q, rl, k, c, a), SideOf(q, rl, k, c, a), WritesOf(q))
         /\ q \notin UniQuestions => ("eq_parm" \in DOMAIN PutTo(q, rl, k, c, a) =>
              c \in CurvesOf(q) /\ SideOf(q, rl, k, c, a))
<1>1. CASE q \in UniQuestions
  BY <1>1, UniFits DEF PutTo, SideOf, WritesOf
<1>2. CASE q \notin UniQuestions /\ q \in OfTx
  <2>1. c \in TxCurves => TxSide(c, a)
    BY DEF TxCurves, TxSide
  <2>2. QED
    BY <1>2, <2>1, TxFits DEF PutTo, SideOf, WritesOf, CurvesOf
<1>3. CASE q \notin UniQuestions /\ q \notin OfTx /\ k = rl
  <2>1. c \in RxCurves => RxSide(c, a)
    BY DEF RxCurves, RxSide
  <2>2. PutTo(q, rl, k, c, a) = ToRx(c, a) /\ SideOf(q, rl, k, c, a) = RxSide(c, a)
        /\ WritesOf(q) = RxWrites /\ CurvesOf(q) = RxCurves
    BY <1>3 DEF PutTo, SideOf, WritesOf, CurvesOf, RxSide
  <2>3. QED
    BY <2>1, <2>2, RxFits
<1>4. CASE q \notin UniQuestions /\ q \notin OfTx /\ k # rl
  <2>1. PutTo(q, rl, k, c, a) = << >> /\ ~SideOf(q, rl, k, c, a)
    BY <1>4 DEF PutTo, SideOf
  <2>2. QED
    BY <2>1, NothingPut DEF Fits
<1>5. QED
  BY <1>1, <1>2, <1>3, <1>4

LEMMA SubSeqAt ==
  ASSUME NEW a \in Seq(Int), NEW m \in Nat, m <= Len(a), NEW j \in 1 .. m
  PROVE  SubSeq(a, 1, m)[j] = a[j]
OBVIOUS

LEMMA LineSays ==
  ASSUME NEW q \in DOMAIN About, NEW i \in DOMAIN About[q], About[q][i] # {},
         NEW rl, NEW k, NEW c, NEW a \in Seq(Int),
         Worded(RxWrites, c, a), Worded(TxWrites, c, a), Worded(UniWrites, c, a),
         c \in {"setGrphRXEQ3", "setGrphTXEQ3"} => 4 <= Len(a),
         c \in {"setGrphRXEQ10", "setGrphTXEQ10"} => 11 <= Len(a),
         NEW p, p = PutTo(q, rl, k, c, a), NEW side, side <=> SideOf(q, rl, k, c, a)
  PROVE  /\ FieldAt(q, i) \notin Unasked
         /\ side => \A t \in About[q][i] : t[1] = c => Holds(p, q, i, Stored(c, Word(a, t[2])))
         /\ ~(side /\ \E t \in About[q][i] : t[1] = c) => FieldAt(q, i) \notin DOMAIN p
<1>1. Fits(c, a, p, SideOf(q, rl, k, c, a), WritesOf(q))
  BY PutFits
<1>2. CASE Plain(q, i)
  <2> DEFINE f == FieldAt(q, i)  w == WritesOf(q)  set == About[q][i]
             sd == SideOf(q, rl, k, c, a)
  <2>1. /\ \A t \in set : t = <<t[1], t[2]>>
        /\ \A d, j : <<d, j>> \in set <=> Says(w, d, f, j)
        /\ f \notin Unasked /\ f # "eq_parm"
    BY <1>2 DEF Plain, Matches
  <2>2. /\ \A g \in DOMAIN p \ {"eq_parm"} : sd /\ \E j : Says(w, c, g, j)
        /\ \A g, j : Says(w, c, g, j) /\ sd => g \in DOMAIN p /\ p[g] = Stored(c, Word(a, j))
    BY <1>1 DEF Fits
  <2>3. \A v : Holds(p, q, i, v) <=> f \in DOMAIN p /\ p[f] = v
    BY <2>1 DEF Holds
  <2> HIDE DEF f, w, set, sd
  <2>5. ASSUME sd, NEW t \in set, t[1] = c PROVE Holds(p, q, i, Stored(c, Word(a, t[2])))
    <3>1. <<c, t[2]>> \in set
      BY <2>1, <2>5
    <3>2. Says(w, c, f, t[2])
      BY <2>1, <3>1
    <3>3. QED
      BY <2>2, <2>3, <2>5, <3>2
  <2>6. ASSUME f \in DOMAIN p PROVE sd /\ \E t \in set : t[1] = c
    <3>1. sd /\ \E j : Says(w, c, f, j)
      BY <2>1, <2>2, <2>6
    <3>2. PICK j : <<c, j>> \in set
      BY <2>1, <3>1
    <3>3. <<c, j>>[1] = c
      OBVIOUS
    <3>4. QED
      BY <3>1, <3>2, <3>3
  <2>7. QED
    BY <2>1, <2>5, <2>6 DEF f, set, sd
<1>3. CASE Banded(q, i)
  <2>1. /\ q \in EqQuestions /\ i \in 3 .. 6 /\ q \notin UniQuestions
        /\ \A t \in About[q][i] : t[1] \in CurvesOf(q) /\ t[2] = i - 2
        /\ \A d \in CurvesOf(q) : \E t \in About[q][i] : t[1] = d
    BY <1>3, Apart4 DEF Banded
  <2>2. FieldAt(q, i) = "eq_parm"
    BY <2>1 DEF FieldAt
  <2>3. "eq_parm" \in DOMAIN p => c \in CurvesOf(q) /\ side
    BY <2>1, PutFits
  <2>4. ASSUME side, c \in CurvesOf(q) PROVE Holds(p, q, i, Stored(c, Word(a, i - 2)))
    <3>1. \E n \in {3, 10} : n + 1 <= Len(a) /\ p = [eq_parm |-> <<n, SubSeq(a, 1, n + 1)>>]
      <4>1. 3 + 1 = 4 /\ 10 + 1 = 11
        OBVIOUS
      <4>2. CASE q \in OfTx
        <5>1. p = ToTx(c, a) /\ c \in TxCurves
          BY <2>1, <2>4, <4>2 DEF PutTo, CurvesOf
        <5>2. CASE c = "setGrphTXEQ3"
          <6>1. p = [eq_parm |-> <<3, SubSeq(a, 1, 4)>>] /\ 4 <= Len(a)
            BY <5>1, <5>2, PutsOneSide
          <6>2. QED
            BY <4>1, <6>1
        <5>3. CASE c = "setGrphTXEQ10"
          <6>1. p = [eq_parm |-> <<10, SubSeq(a, 1, 11)>>] /\ 11 <= Len(a)
            BY <5>1, <5>3, PutsOneSide
          <6>2. QED
            BY <4>1, <6>1
        <5>4. QED
          BY <5>1, <5>2, <5>3 DEF TxCurves
      <4>3. CASE q \notin OfTx
        <5>1. p = ToRx(c, a) /\ c \in RxCurves
          BY <2>1, <2>4, <4>3 DEF PutTo, CurvesOf, SideOf
        <5>2. CASE c = "setGrphRXEQ3"
          <6>1. p = [eq_parm |-> <<3, SubSeq(a, 1, 4)>>] /\ 4 <= Len(a)
            BY <5>1, <5>2, PutsOneSide
          <6>2. QED
            BY <4>1, <6>1
        <5>3. CASE c = "setGrphRXEQ10"
          <6>1. p = [eq_parm |-> <<10, SubSeq(a, 1, 11)>>] /\ 11 <= Len(a)
            BY <5>1, <5>3, PutsOneSide
          <6>2. QED
            BY <4>1, <6>1
        <5>4. QED
          BY <5>1, <5>2, <5>3 DEF RxCurves
      <4>4. QED
        BY <4>2, <4>3
    <3>2. PICK n \in {3, 10} : n + 1 <= Len(a) /\ p = [eq_parm |-> <<n, SubSeq(a, 1, n + 1)>>]
      BY <3>1
    <3> DEFINE z == SubSeq(a, 1, n + 1)
    <3>3. z[i - 2] = a[i - 2] /\ i - 2 <= Len(a)
      <4>1. i - 2 \in 1 .. n + 1 /\ n + 1 \in Nat /\ Len(a) \in Nat
        BY <2>1
      <4>2. z[i - 2] = a[i - 2]
        BY <3>2, <4>1, SubSeqAt
      <4>3. QED
        BY <3>2, <4>1
    <3>4. Word(a, i - 2) = a[i - 2]
      BY <3>3 DEF Word
    <3>5. Stored(c, a[i - 2]) = AsIs(a[i - 2])
      BY <2>4 DEF CurvesOf, RxCurves, TxCurves, Stored, Computed
    <3> HIDE DEF z
    <3>6. DOMAIN p = {"eq_parm"} /\ p["eq_parm"] = <<n, z>>
      BY <3>2 DEF z
    <3>7. p["eq_parm"] # << >> /\ p["eq_parm"][2] = z
      BY <3>6
    <3>8. QED
      BY <2>2, <3>3, <3>4, <3>5, <3>6, <3>7 DEF Holds
  <2>5. "eq_parm" \notin Unasked
    BY DEF Unasked
  <2>6. QED
    BY <2>1, <2>2, <2>3, <2>4, <2>5
<1>4. QED
  BY <1>2, <1>3, AboutPlaces

(* What is put into one part of the radio.                                 *)
LEMMA PartPut ==
  ASSUME NEW r, NEW n, NEW k, NEW rl \in Rx, NEW px, NEW pt, NEW pu,
         Moved(r, n, k, px, pt, pu), NEW q
  PROVE  Put(Part(n, rl, q),
             IF q \in UniQuestions THEN pu ELSE IF q \in OfTx THEN pt
             ELSE IF k = rl THEN px ELSE << >>, Part(r, rl, q))
<1>1. CASE q \in UniQuestions
  BY <1>1 DEF Moved, Part
<1>2. CASE q \notin UniQuestions /\ q \in OfTx
  BY <1>2 DEF Moved, Part
<1>3. CASE q \notin UniQuestions /\ q \notin OfTx /\ k = rl
  BY <1>3 DEF Moved, Part
<1>4. CASE q \notin UniQuestions /\ q \notin OfTx /\ k # rl
  <2>1. n.rx[rl] = r.rx[rl]
    BY <1>4 DEF Moved
  <2>2. QED
    BY <1>4, <2>1, NothingPut DEF Part
<1>5. QED
  BY <1>1, <1>2, <1>3, <1>4

LEMMA HoldsPut ==
  ASSUME NEW new, NEW p, NEW old, Put(new, p, old), NEW q, NEW i, FieldAt(q, i) \notin Unasked,
         NEW v
  PROVE  /\ Holds(p, q, i, v) => Holds(new, q, i, v)
         /\ FieldAt(q, i) \notin DOMAIN p /\ Holds(old, q, i, v) => Holds(new, q, i, v)
BY DEF Put, Holds

LEMMA AfterTwo ==
  ASSUME NEW x, NEW y, NEW m \in Nat, 4 <= m, NEW w, w = [j \in 1 .. m |-> w[j]],
         NEW i \in 3 .. 6
  PROVE  (<<x, y>> \o w)[i] = w[i - 2]
<1> DEFINE h == <<x, y>>  S == {x, y} \cup {w[j] : j \in 1 .. m}
<1>1. h \in Seq(S) /\ w \in Seq(S) /\ Len(h) = 2 /\ Len(w) = m
  OBVIOUS
<1>2. i - 2 \in 1 .. m /\ i \in 1 .. 2 + m /\ ~(i <= 2)
  OBVIOUS
<1> HIDE DEF h, S
<1>3. (h \o w)[i] = w[i - Len(h)]
  <2>1. \A j \in 1 .. Len(h) + Len(w) :
          (h \o w)[j] = IF j <= Len(h) THEN h[j] ELSE w[j - Len(h)]
    BY <1>1, ConcatProperties, Zenon
  <2>2. QED
    BY <1>1, <1>2, <2>1
<1>4. QED
  BY <1>1, <1>3 DEF h

(* The number that a place holds is the one that is told.                  *)
LEMMA HoldsTold ==
  ASSUME NEW q \in DOMAIN About, NEW i \in DOMAIN About[q], About[q][i] # {}, NEW r, NEW rl,
         NEW v, Holds(Part(r, rl, q), q, i, v)
  PROVE  Tell(r, rl, q)[i] = v
<1> DEFINE part == Part(r, rl, q)
<1>1. GrphRXEQAsk \cup GrphTXEQAsk = EqQuestions /\ DOMAIN OfUni = UniQuestions
  BY UniTable DEF GrphRXEQAsk, GrphTXEQAsk, EqQuestions
<1>2. CASE q \in UniQuestions
  <2>1. i \in DOMAIN OfUni[q] /\ FieldAt(q, i) = OfUni[q][i] /\ q \notin EqQuestions
    BY <1>2, Apart4, UniAsked DEF AsAsked, FieldAt
  <2>2. Tell(r, rl, q) = [j \in DOMAIN OfUni[q] |-> r.uni[OfUni[q][j]]]
    BY <1>1, <1>2, <2>1 DEF Tell
  <2>3. FieldAt(q, i) # "eq_parm"
    BY <1>2, <2>1, UniAsked DEF AsAsked, Matches
  <2>4. QED
    BY <1>2, <2>1, <2>2, <2>3 DEF Holds, Part
<1>3. CASE q \in RxQuestions \cup TxQuestions
  <2> DEFINE from == IF q \in OfTx THEN r.tx ELSE r.rx[rl]
  <2>1. q \notin UniQuestions /\ q \notin EqQuestions /\ FieldAt(q, i) = Questions[q][i]
    BY <1>3, Apart4 DEF FieldAt
  <2>2. /\ i \in DOMAIN Questions[q] /\ FieldAt(q, i) # "eq_parm"
        /\ Questions[q][i] # "iq_gain"
    BY <1>3, <2>1, RxAsked, TxAsked DEF AsAsked, Matches
  <2>3. Tell(r, rl, q) = [j \in DOMAIN Questions[q] |->
                           IF Questions[q][j] = "iq_gain" THEN ToldIQ(from.iq_gain)
                           ELSE from[Questions[q][j]]]
    BY <1>1, <2>1 DEF Tell
  <2>4. part = from
    BY <2>1 DEF Part
  <2> HIDE DEF from
  <2>5. QED
    BY <2>1, <2>2, <2>3, <2>4 DEF Holds
<1>4. CASE q \in EqQuestions
  <2>1. Tell(r, rl, q) = TellEQ(part)
    BY <1>1, <1>4, Apart4 DEF Tell, Part
  <2> HIDE DEF part
  <2>2. CASE Plain(q, i)
    <3>1. i = 1 /\ FieldAt(q, i) = "eq_flag"
      BY <1>4, <2>2 DEF Plain, Matches, FieldAt
    <3>2. TellEQ(part)[1] = part.eq_flag
      BY DEF TellEQ
    <3>3. QED
      BY <2>1, <3>1, <3>2 DEF Holds, part
  <2>3. CASE Banded(q, i)
    <3>1. FieldAt(q, i) = "eq_parm" /\ i \in 3 .. 6
      BY <1>4, <2>3 DEF Banded, FieldAt
    <3>2. part.eq_parm # << >> /\ AsIs(part.eq_parm[2][i - 2]) = v
      BY <3>1 DEF Holds, part
    <3>3. TellEQ(part)[i] = AsIs(part.eq_parm[2][i - 2])
      <4> DEFINE parm == part.eq_parm
                 bands == IF parm = << >> \/ parm[1] # 3 THEN 10 ELSE 3
                 w == [j \in 1 .. bands + 1 |-> IF parm = << >> THEN Fresh ELSE AsIs(parm[2][j])]
      <4>1. PICK x, y : TellEQ(part) = <<x, y>> \o w
        BY Zenon DEF TellEQ
      <4>2. bands + 1 \in Nat /\ 4 <= bands + 1
        OBVIOUS
      <4>3. w[i - 2] = AsIs(parm[2][i - 2])
        BY <3>1, <3>2, <4>2
      <4>4. w = [j \in 1 .. bands + 1 |-> w[j]]
        OBVIOUS
      <4> HIDE DEF bands, w, parm
      <4>5. TellEQ(part)[i] = w[i - 2]
        BY <3>1, <4>1, <4>2, <4>4, AfterTwo
      <4>6. QED
        BY <4>3, <4>5 DEF parm
    <3>4. QED
      BY <2>1, <3>2, <3>3
  <2>4. QED
    BY <2>2, <2>3, AboutPlaces
<1>5. QED
  BY <1>2, <1>3, <1>4, AboutDomain

-----------------------------------------------------------------------------
(* The latest line that set a number is the one that is told.              *)

(* Line e of the history sets number i of the answer to q about receiver   *)
(* rl.                                                                     *)
SetsPlace(e, q, i, rl) ==
  /\ e.code = 0 /\ SpeaksTo(e, q, rl)
  /\ \E t \in About[q][i] : t[1] = e.cmd

(* Line n is the latest to do so.                                          *)
LastSet(lines, n, q, i, rl) ==
  /\ SetsPlace(lines[n], q, i, rl)
  /\ \A m \in DOMAIN lines : m > n => ~SetsPlace(lines[m], q, i, rl)

(* The radio r holds there what e said.                                    *)
Answers(r, e, q, i, rl) ==
  \A t \in About[q][i] : t[1] = e.cmd =>
     Holds(Part(r, rl, q), q, i, Stored(e.cmd, Said(e, t[2])))

(* No line has set the number, or the latest that did is what is held.     *)
Answered(r, lines, q, i, rl) ==
  \/ \A n \in DOMAIN lines : ~SetsPlace(lines[n], q, i, rl)
  \/ \E n \in DOMAIN lines : LastSet(lines, n, q, i, rl) /\ Answers(r, lines[n], q, i, rl)

(* The invariant: every number of every answer is the latest line's. It    *)
(* names the line, which the step carries on, so that no induction over    *)
(* the history is needed.                                                  *)
LatestInv ==
  \A q \in DOMAIN About : \A i \in DOMAIN About[q] : \A rl \in Rx :
    Answered(radio, history, q, i, rl)

(* One line more, which does what it says.                                 *)
LEMMA OneMore ==
  ASSUME NEW lines \in Lines, NEW e \in [rl : Rx, cmd : Handlers, args : Seq(Int), code : Int],
         NEW r, NEW n, NEW q, NEW i, NEW rl,
         Answered(r, lines, q, i, rl),
         SetsPlace(e, q, i, rl) => Answers(n, e, q, i, rl),
         ~SetsPlace(e, q, i, rl) =>
           \A v : Holds(Part(r, rl, q), q, i, v) => Holds(Part(n, rl, q), q, i, v)
  PROVE  Answered(n, Append(lines, e), q, i, rl)
<1> DEFINE more == Append(lines, e)
<1>1. /\ Len(lines) \in Nat /\ DOMAIN lines = 1 .. Len(lines)
      /\ DOMAIN more = 1 .. Len(lines) + 1
      /\ more[Len(lines) + 1] = e /\ \A m \in DOMAIN lines : more[m] = lines[m]
  BY DEF Lines
<1> HIDE DEF more
<1>2. CASE SetsPlace(e, q, i, rl)
  <2>1. LastSet(more, Len(lines) + 1, q, i, rl)
    BY <1>1, <1>2 DEF LastSet
  <2>2. QED
    BY <1>1, <1>2, <2>1 DEF Answered, more
<1>3. CASE ~SetsPlace(e, q, i, rl)
  <2>1. CASE \A m \in DOMAIN lines : ~SetsPlace(lines[m], q, i, rl)
    <3>1. \A m \in DOMAIN more : ~SetsPlace(more[m], q, i, rl)
      BY <1>1, <1>3, <2>1
    <3>2. QED
      BY <3>1 DEF Answered, more
  <2>2. ASSUME NEW m \in DOMAIN lines, LastSet(lines, m, q, i, rl), Answers(r, lines[m], q, i, rl)
        PROVE  Answered(n, more, q, i, rl)
    <3>1. LastSet(more, m, q, i, rl)
      BY <1>1, <1>3, <2>2 DEF LastSet
    <3>2. Answers(n, more[m], q, i, rl)
      BY <1>1, <1>3, <2>2 DEF Answers
    <3>3. QED
      BY <1>1, <3>1, <3>2 DEF Answered
  <2>3. QED
    BY <2>1, <2>2 DEF Answered, more
<1>4. QED
  BY <1>2, <1>3

LEMMA LineAnswers ==
  ASSUME NEW r, Formed(r), NEW k \in Rx, NEW c \in Handlers, NEW a \in Seq(Int), Enough(c, a),
         NEW spoilt, NEW s, s = Run(r, k, c, a, spoilt), s.code \in Int,
         NEW e, e = [rl |-> k, cmd |-> c, args |-> a, code |-> s.code],
         NEW q \in DOMAIN About, NEW i \in DOMAIN About[q], About[q][i] # {}, NEW rl \in Rx
  PROVE  /\ SetsPlace(e, q, i, rl) => Answers(s.radio, e, q, i, rl)
         /\ ~SetsPlace(e, q, i, rl) =>
              \A v : Holds(Part(r, rl, q), q, i, v) => Holds(Part(s.radio, rl, q), q, i, v)
<1> DEFINE p == PutTo(q, rl, k, c, a)
           side == SideOf(q, rl, k, c, a)
           named == \E t \in About[q][i] : t[1] = c
           old == Part(r, rl, q)
           new == Part(s.radio, rl, q)
<1>1. Did(r, s, k, ToRx(c, a), ToTx(c, a), ToUni(c, a))
  BY LineDoes DEF Enough
<1>2. SetsPlace(e, q, i, rl) <=> s.code = 0 /\ side /\ named
  BY SpeaksSide DEF SetsPlace
<1>3. e.cmd = c /\ e.args = a /\ \A j : Said(e, j) = Word(a, j)
  BY DEF Said, Word
<1>4. FieldAt(q, i) \notin Unasked
  <2>1. Plain(q, i) => FieldAt(q, i) \notin Unasked
    BY DEF Plain, Matches
  <2>2. Banded(q, i) => FieldAt(q, i) \notin Unasked
    BY DEF Banded, FieldAt, Unasked
  <2>3. QED
    BY <2>1, <2>2, AboutPlaces
<1>5. CASE s.code = 0
  <2>1. Put(new, p, old)
    <3>1. Moved(r, s.radio, k, ToRx(c, a), ToTx(c, a), ToUni(c, a))
      BY <1>1, <1>5 DEF Did
    <3>2. QED
      BY <3>1, PartPut DEF PutTo
  <2>2. /\ side => \A t \in About[q][i] : t[1] = c => Holds(p, q, i, Stored(c, Word(a, t[2])))
        /\ ~(side /\ named) => FieldAt(q, i) \notin DOMAIN p
    <3>1. /\ Worded(RxWrites, c, a) /\ Worded(TxWrites, c, a) /\ Worded(UniWrites, c, a)
          /\ c \in {"setGrphRXEQ3", "setGrphTXEQ3"} => 4 <= Len(a)
          /\ c \in {"setGrphRXEQ10", "setGrphTXEQ10"} => 11 <= Len(a)
      BY <1>5, AcceptedWords
    <3>2. QED
      BY <3>1, LineSays
  <2> HIDE DEF p, side, named, old, new
  <2>3. /\ \A v : Holds(p, q, i, v) => Holds(new, q, i, v)
        /\ FieldAt(q, i) \notin DOMAIN p => \A v : Holds(old, q, i, v) => Holds(new, q, i, v)
    BY <1>4, <2>1, HoldsPut
  <2>4. ASSUME side, NEW t \in About[q][i], t[1] = e.cmd
        PROVE  Holds(new, q, i, Stored(e.cmd, Said(e, t[2])))
    <3>1. e.cmd = c /\ Said(e, t[2]) = Word(a, t[2])
      BY <1>3
    <3>2. Holds(p, q, i, Stored(c, Word(a, t[2])))
      BY <2>2, <2>4, <3>1
    <3> DEFINE w == Stored(c, Word(a, t[2]))
    <3>3. Stored(e.cmd, Said(e, t[2])) = w /\ Holds(p, q, i, w)
      BY <3>1, <3>2
    <3> HIDE DEF w
    <3>4. Holds(new, q, i, w)
      BY <2>3, <3>3
    <3>5. QED
      BY <3>3, <3>4
  <2>5. ASSUME ~(side /\ named), NEW v, Holds(old, q, i, v) PROVE Holds(new, q, i, v)
    <3>1. FieldAt(q, i) \notin DOMAIN p
      BY <2>2, <2>5
    <3>2. QED
      BY <2>3, <2>5, <3>1
  <2>6. QED
    BY <1>2, <1>5, <2>4, <2>5, Zenon DEF old, new, Answers
<1>6. CASE s.code # 0
  <2>1. Put(new, << >>, old)
    <3>1. Moved(r, s.radio, k, << >>, << >>, << >>)
      BY <1>1, <1>6 DEF Did
    <3>2. QED
      BY <3>1, PartPut
  <2>2. \A v : Holds(old, q, i, v) => Holds(new, q, i, v)
    BY <1>4, <2>1, HoldsPut, NothingPut
  <2>3. QED
    BY <1>2, <1>6, <2>2
<1>7. QED
  BY <1>5, <1>6

LEMMA LatestStep ==
  ASSUME SettingsInv, LatestInv, NEW k \in Rx, NEW c \in session, NEW spoilt \in BOOLEAN,
         NEW a \in Arguments[c], Line(k, c, a, spoilt)
  PROVE  LatestInv'
<1>1. /\ AllTold(radio) /\ history \in Lines /\ session \in Sessions
      /\ c \in Handlers /\ a \in Seq(Int) /\ Enough(c, a) /\ Formed(radio)
      /\ c = "setFilter" => Len(a) >= 2
  BY LinesAssumption DEF SettingsInv, AllTold, Enough, Meter
<1> DEFINE s == Run(radio, k, c, a, spoilt)
           e == [rl |-> k, cmd |-> c, args |-> a, code |-> s.code]
<1>2. radio' = s.radio /\ history' = Append(history, e) /\ (spoilt => Measure)
  BY DEF Line
<1>3. s = Run(radio, k, c, a, spoilt)
  OBVIOUS
<1> HIDE DEF s
<1>4. s.code \in Int
  BY <1>1, <1>2, <1>3, RunFair
<1>5. e \in [rl : Rx, cmd : Handlers, args : Seq(Int), code : Int]
  BY <1>1, <1>4
<1>6. ASSUME NEW q \in DOMAIN About, NEW i \in DOMAIN About[q], NEW rl \in Rx
      PROVE  Answered(s.radio, Append(history, e), q, i, rl)
  <2>1. Answered(radio, history, q, i, rl)
    BY DEF LatestInv
  <2>2. CASE About[q][i] # {}
    <3>1. /\ SetsPlace(e, q, i, rl) => Answers(s.radio, e, q, i, rl)
          /\ ~SetsPlace(e, q, i, rl) =>
              \A v : Holds(Part(radio, rl, q), q, i, v) => Holds(Part(s.radio, rl, q), q, i, v)
      BY <1>1, <1>3, <1>4, <2>2, LineAnswers
    <3> HIDE DEF e
    <3>2. QED
      BY <1>1, <1>5, <2>1, <3>1, OneMore
  <2>3. CASE About[q][i] = {}
    BY <2>3 DEF Answered, SetsPlace
  <2>4. QED
    BY <2>2, <2>3
<1>7. QED
  BY <1>2, <1>6 DEF LatestInv

(* THEOREM. For any number of receivers and any lines with any arguments,  *)
(* accepted or refused: whatever is asked about receiver rl, each number   *)
(* of the answer is the one that the latest accepted line addressed there  *)
(* gave it. No other line, no other receiver's and no refused one has      *)
(* since written the field the answer is read from (update.c's setters and *)
(* the questions that read them).                                          *)
THEOREM LatestIsTold == SettingsSpec => []TellsLatest
<1>1. SettingsInit => LatestInv
  <2> SUFFICES ASSUME SettingsInit PROVE LatestInv
    OBVIOUS
  <2>1. DOMAIN history = {}
    BY DEF SettingsInit
  <2>2. QED
    BY <2>1 DEF LatestInv, Answered
<1>2. SettingsInv /\ LatestInv /\ [SettingsNext]_settingsVars => LatestInv'
  <2> SUFFICES ASSUME SettingsInv, LatestInv, [SettingsNext]_settingsVars PROVE LatestInv'
    OBVIOUS
  <2>1. CASE SettingsNext
    BY <2>1, LatestStep DEF SettingsNext
  <2>2. CASE UNCHANGED settingsVars
    BY <2>2 DEF settingsVars, LatestInv
  <2>3. QED
    BY <2>1, <2>2
<1>3. SettingsInv /\ LatestInv => TellsLatest
  <2> SUFFICES ASSUME SettingsInv, LatestInv, NEW at \in Concerned[session], NEW rl \in Rx
               PROVE  LET q == at[1]
                          i == at[2]
                          Sets(e) == e.code = 0 /\ SpeaksTo(e, q, rl)
                                     /\ \E s \in About[q][i] : s[1] = e.cmd
                          n == SelectLastInSeq(history, Sets)
                      IN  n > 0 =>
                            LET e == history[n]
                                s == CHOOSE t \in About[q][i] : t[1] = e.cmd
                            IN  Tell(radio, rl, q)[i] = Stored(e.cmd, Said(e, s[2]))
    BY DEF TellsLatest
  <2> DEFINE q == at[1]  i == at[2]
             Sets(e) == e.code = 0 /\ SpeaksTo(e, q, rl) /\ \E s \in About[q][i] : s[1] = e.cmd
             n == SelectLastInSeq(history, Sets)
             e == history[n]
             s == CHOOSE t \in About[q][i] : t[1] = e.cmd
  <2>1. q \in DOMAIN About /\ i \in DOMAIN About[q]
    BY DEF SettingsInv, Concerned
  <2>2. Answered(radio, history, q, i, rl)
    BY <2>1 DEF LatestInv
  <2>3. \A x : Sets(x) <=> SetsPlace(x, q, i, rl)
    BY DEF SetsPlace
  <2>4. DOMAIN history = 1 .. Len(history) /\ Len(history) \in Nat
    BY DEF SettingsInv, Lines
  <2> DEFINE I == {m \in 1 .. Len(history) : Sets(history[m])}
  <2>5. n = IF I # {} THEN Max(I) ELSE 0
    BY DEF SelectLastInSeq
  <2> HIDE DEF q, i, Sets, n
  <2>6. ASSUME n > 0 PROVE Tell(radio, rl, q)[i] = Stored(e.cmd, Said(e, s[2]))
    <3>1. I # {}
      BY <2>5, <2>6
    <3>2. PICK m \in DOMAIN history : LastSet(history, m, q, i, rl) /\ Answers(radio, history[m], q, i, rl)
      BY <2>2, <2>3, <2>4, <3>1 DEF Answered
    <3>3. m \in I /\ \A x \in I : m >= x
      BY <2>3, <2>4, <3>2 DEF LastSet
    <3>4. Max(I) = m
      <4>1. I \subseteq Int
        OBVIOUS
      <4> HIDE DEF I
      <4>2. QED
        BY <3>3, <4>1 DEF Max
    <3>5. n = m
      BY <2>5, <3>1, <3>4
    <3>6. s \in About[q][i] /\ s[1] = e.cmd
      BY <3>2, <3>5 DEF LastSet, SetsPlace
    <3>7. Holds(Part(radio, rl, q), q, i, Stored(e.cmd, Said(e, s[2])))
      BY <3>2, <3>5, <3>6 DEF Answers
    <3>8. QED
      BY <2>1, <3>6, <3>7, HoldsTold
  <2>7. QED
    BY <2>6 DEF q, i, Sets, n
<1>4. QED
  BY <1>1, <1>2, <1>3, SettingsInvariant, PTL DEF SettingsSpec

=============================================================================
