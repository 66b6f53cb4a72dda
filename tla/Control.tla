------------------------------ MODULE Control ------------------------------
(***************************************************************************)
(* The threads of sdr-main.c and the semaphore that serialises them.       *)
(*                                                                         *)
(*   main   execute: reads the rcfile, starts the audio, joins the others  *)
(*   upd    process_updates_thread: one command datagram at a time         *)
(*   trx    process_samples_thread: one block of samples at a time         *)
(*   mtr, pws  meter_thread and spectrum_thread: send what was asked for   *)
(*                                                                         *)
(* Both main and upd run commands through do_update of update.c, out of    *)
(* the one buffer top->parm.buff: split leaves pointers into it, so the    *)
(* command's words are read from the buffer when the command runs.         *)
(***************************************************************************)
EXTENDS Integers, Sequences, FiniteSets

CONSTANTS
  Kinds,         \* what a datagram may ask for
  RcLines,       \* what the lines of the rcfile ask for
  Senders,       \* the measuring threads that exist (meter.flag, spec.flag)
  MaxDatagrams   \* bound: datagrams that arrive

AllKinds == {"set", "get", "bad", "finished", "mtr", "pws"}

ASSUME ControlAssumption ==
  /\ Kinds \subseteq AllKinds /\ RcLines \in Seq(AllKinds)
  /\ Senders \subseteq {"mtr", "pws"} /\ MaxDatagrams \in Nat

VARIABLES
  pc,         \* where each thread is
  upd,        \* value of top->sync.upd.sem
  buff,       \* the command in top->parm.buff
  thunk,      \* the command whose handler a do_update has looked up
  resp,       \* whose answer is in top->resp.buff, 0 for resp.size = 0
  rtn,        \* rtn in process_updates_thread
  running,    \* top->running
  active,     \* JACK has been started
  cancelled,  \* the threads main has cancelled
  nline,      \* rcfile lines read
  nrecv,      \* datagrams received
  sem,        \* values of top->sync.mtr.sem and pws.sem
  label,      \* label of the latest snapshot of each kind
  sent,       \* label of the last packet of each kind
  got,        \* the command each do_update was called with
  crossed     \* the last datagram shared the buffer with an rcfile line

vars == <<pc, upd, buff, thunk, resp, rtn, running, active, cancelled, nline,
          nrecv, sem, label, sent, got, crossed>>

Updaters == {"main", "upd"}
Threads  == Updaters \cup {"trx"} \cup Senders

(* Datagrams are numbered from 1, the rcfile's lines after them.           *)
Command  == [id : Nat, kind : AllKinds \cup {"none"}]
NoCommand == [id |-> 0, kind |-> "none"]
RcLine(n) == [id |-> MaxDatagrams + n, kind |-> RcLines[n]]

Goto(t, l) == pc' = [pc EXCEPT ![t] = l]

(* setup_threading: every semaphore starts at 0.                           *)
Init ==
  /\ pc = [t \in Threads |-> IF t = "main" THEN "start" ELSE "top"]
  /\ upd = 0 /\ sem = [s \in Senders |-> 0]
  /\ buff = NoCommand /\ thunk = [t \in Updaters |-> NoCommand]
  /\ resp = 0 /\ rtn = 0
  /\ running = TRUE /\ active = FALSE /\ cancelled = {}
  /\ nline = 0 /\ nrecv = 0
  /\ label = [s \in Senders |-> 0] /\ sent = [s \in Senders |-> 0]
  /\ got = [t \in Updaters |-> NoCommand] /\ crossed = FALSE

-----------------------------------------------------------------------------
(* do_update, called by main and by the update thread.                     *)

(* From the moment the buffer is filled to the end of the reply.           *)
Busy(t) == pc[t] \in {"lookup", "lock", "run", "unlock", "reply"}

(* Where do_update returns to.                                             *)
Return(t, val) ==
  IF t = "main" THEN Goto(t, "line") /\ UNCHANGED rtn
                ELSE Goto(t, "reply") /\ rtn' = val

(* split, then Thunk_lookup; an unknown command is refused here, before    *)
(* the semaphore.                                                          *)
LookUp(t) ==
  /\ pc[t] = "lookup"
  /\ thunk' = [thunk EXCEPT ![t] = buff]
  /\ IF buff.kind = "bad" THEN Return(t, -1)
                          ELSE Goto(t, "lock") /\ UNCHANGED rtn
  /\ UNCHANGED <<upd, buff, resp, running, active, cancelled, nline, nrecv,
                 sem, label, sent, got, crossed>>

(* sem_wait(top->sync.upd.sem), by any thread.                             *)
Lock(t) ==
  /\ pc[t] = "lock" /\ upd > 0
  /\ upd' = upd - 1
  /\ Goto(t, "run")
  /\ UNCHANGED <<buff, thunk, resp, rtn, running, active, cancelled, nline,
                 nrecv, sem, label, sent, got, crossed>>

(* Mutant: the snapshot is taken but its thread is not woken.              *)
MutRunRequest(t) ==
  LET s == thunk[t].kind IN
  /\ pc[t] = "run" /\ s \in Senders
  /\ label' = [label EXCEPT ![s] = buff.id]
  /\ sem' = [sem EXCEPT ![s] = IF sent[s] = 0 THEN @ + 1 ELSE @]
  /\ Goto(t, "unlock")
  /\ UNCHANGED <<upd, buff, thunk, resp, rtn, running, active, cancelled,
                 nline, nrecv, sent, got, crossed>>

(* reqMeter, reqSpectrum and their kin: snapshot, label, and a post.       *)
RunRequest(t) ==
  LET s == thunk[t].kind IN
  /\ pc[t] = "run" /\ s \in Senders
  /\ label' = [label EXCEPT ![s] = buff.id]
  /\ sem' = [sem EXCEPT ![s] = @ + 1]
  /\ Goto(t, "unlock")
  /\ UNCHANGED <<upd, buff, thunk, resp, rtn, running, active, cancelled,
                 nline, nrecv, sent, got, crossed>>

(* Mutant: a command returns without posting the semaphore.                *)
MutRunCommand(t) ==
  /\ pc[t] = "run" /\ thunk[t].kind \in {"set", "get"}
  /\ resp' = IF thunk[t].kind = "get" THEN buff.id ELSE resp
  /\ Return(t, 0)
  /\ UNCHANGED <<upd, buff, thunk, running, active, cancelled, nline, nrecv,
                 sem, label, sent, got, crossed>>

(* Any other command: a setting, or a question that leaves its answer in   *)
(* top->resp.                                                              *)
RunCommand(t) ==
  /\ pc[t] = "run" /\ thunk[t].kind \in {"set", "get"}
  /\ resp' = IF thunk[t].kind = "get" THEN buff.id ELSE resp
  /\ Goto(t, "unlock")
  /\ UNCHANGED <<upd, buff, thunk, rtn, running, active, cancelled, nline,
                 nrecv, sem, label, sent, got, crossed>>

(* setFinished: the thread that runs it ends here, semaphore in hand.      *)
RunFinished(t) ==
  /\ pc[t] = "run" /\ thunk[t].kind = "finished"
  /\ running' = FALSE
  /\ Goto(t, "exited")
  /\ UNCHANGED <<upd, buff, thunk, resp, rtn, active, cancelled, nline, nrecv,
                 sem, label, sent, got, crossed>>

(* sem_post(top->sync.upd.sem); return val.                                *)
Unlock(t) ==
  /\ pc[t] = "unlock"
  /\ upd' = upd + 1
  /\ Return(t, 0)
  /\ UNCHANGED <<buff, thunk, resp, running, active, cancelled, nline, nrecv,
                 sem, label, sent, got, crossed>>

DoUpdate(t) ==
  LookUp(t) \/ Lock(t) \/ RunRequest(t) \/ RunCommand(t) \/ RunFinished(t)
  \/ Unlock(t)

-----------------------------------------------------------------------------
(* execute.                                                                *)

(* sem_post(top->sync.upd.sem): let updates run.                           *)
Start ==
  /\ pc["main"] = "start"
  /\ upd' = upd + 1
  /\ Goto("main", "line")
  /\ UNCHANGED <<buff, thunk, resp, rtn, running, active, cancelled, nline,
                 nrecv, sem, label, sent, got, crossed>>

(* fgets(top->parm.buff, ...) on the rcfile.                               *)
ReadRcLine ==
  /\ pc["main"] = "line" /\ nline < Len(RcLines)
  /\ nline' = nline + 1
  /\ buff' = RcLine(nline + 1)
  /\ got' = [got EXCEPT !["main"] = RcLine(nline + 1)]
  /\ crossed' = (crossed \/ Busy("upd"))
  /\ Goto("main", "lookup")
  /\ UNCHANGED <<upd, thunk, resp, rtn, running, active, cancelled, nrecv,
                 sem, label, sent>>

(* jack_activate.                                                          *)
Activate ==
  /\ pc["main"] = "line" /\ nline = Len(RcLines)
  /\ active' = TRUE
  /\ Goto("main", "join")
  /\ UNCHANGED <<upd, buff, thunk, resp, rtn, running, cancelled, nline,
                 nrecv, sem, label, sent, got, crossed>>

(* Mutant: the samples thread is joined without being cancelled.           *)
MutCancel ==
  /\ pc["main"] = "join" /\ pc["upd"] = "exited"
  /\ cancelled' = Senders
  /\ Goto("main", "joinall")
  /\ UNCHANGED <<upd, buff, thunk, resp, rtn, running, active, nline, nrecv,
                 sem, label, sent, got, crossed>>

(* The update thread has ended: cancel the others.                         *)
Cancel ==
  /\ pc["main"] = "join" /\ pc["upd"] = "exited"
  /\ cancelled' = {"trx"} \cup Senders
  /\ Goto("main", "joinall")
  /\ UNCHANGED <<upd, buff, thunk, resp, rtn, running, active, nline, nrecv,
                 sem, label, sent, got, crossed>>

JoinAll ==
  /\ pc["main"] = "joinall"
  /\ \A t \in {"trx"} \cup Senders : pc[t] = "exited"
  /\ Goto("main", "exited")
  /\ UNCHANGED <<upd, buff, thunk, resp, rtn, running, active, cancelled,
                 nline, nrecv, sem, label, sent, got, crossed>>

Main ==
  Start \/ ReadRcLine \/ DoUpdate("main") \/ Activate \/ Cancel \/ JoinAll

-----------------------------------------------------------------------------
(* while (top->running), at the head of every other thread.                *)
Top(t, l) ==
  /\ pc[t] = "top"
  /\ Goto(t, IF running THEN l ELSE "exited")
  /\ UNCHANGED <<upd, buff, thunk, resp, rtn, running, active, cancelled,
                 nline, nrecv, sem, label, sent, got, crossed>>

(* process_updates_thread.                                                 *)

(* Mutant: the answer to the last question is not cleared away.            *)
MutReceive ==
  /\ pc["upd"] = "recv" /\ nrecv < MaxDatagrams
  /\ nrecv' = nrecv + 1
  /\ \E k \in Kinds :
       LET c == [id |-> nrecv + 1, kind |-> k] IN
       buff' = c /\ got' = [got EXCEPT !["upd"] = c]
  /\ crossed' = Busy("main")
  /\ Goto("upd", "lookup")
  /\ UNCHANGED <<upd, thunk, resp, rtn, running, active, cancelled, nline,
                 sem, label, sent>>

(* recvfrom(..., top->parm.buff, ...); top->resp.size = 0.                 *)
Receive ==
  /\ pc["upd"] = "recv" /\ nrecv < MaxDatagrams
  /\ nrecv' = nrecv + 1
  /\ \E k \in Kinds :
       LET c == [id |-> nrecv + 1, kind |-> k] IN
       buff' = c /\ got' = [got EXCEPT !["upd"] = c]
  /\ crossed' = Busy("main")
  /\ resp' = 0
  /\ Goto("upd", "lookup")
  /\ UNCHANGED <<upd, thunk, rtn, running, active, cancelled, nline, sem,
                 label, sent>>

(* What is sent back: an error, or ok and the text in top->resp if any.    *)
Answer == IF rtn # 0 THEN <<"error", 0>> ELSE <<"ok", resp>>

Reply ==
  /\ pc["upd"] = "reply"
  /\ Goto("upd", "top")
  /\ UNCHANGED <<upd, buff, thunk, resp, rtn, running, active, cancelled,
                 nline, nrecv, sem, label, sent, got, crossed>>

UpdThread == Top("upd", "recv") \/ Receive \/ DoUpdate("upd") \/ Reply

-----------------------------------------------------------------------------
(* process_samples_thread: sem_wait(buf) and gethold may or may not find a *)
(* block, run_play and the others work under the semaphore.                *)
TrxHold ==
  /\ pc["trx"] \in {"wait", "hold"}
  /\ pc["trx"] = "wait" => active
  /\ \E l \in {"lock", "top"} : Goto("trx", l)
  /\ UNCHANGED <<upd, buff, thunk, resp, rtn, running, active, cancelled,
                 nline, nrecv, sem, label, sent, got, crossed>>

TrxLock == Lock("trx")

TrxUnlock ==
  /\ pc["trx"] = "run"
  /\ upd' = upd + 1
  /\ Goto("trx", "hold")
  /\ UNCHANGED <<buff, thunk, resp, rtn, running, active, cancelled, nline,
                 nrecv, sem, label, sent, got, crossed>>

TrxThread == Top("trx", "wait") \/ TrxHold \/ TrxLock \/ TrxUnlock

(* meter_thread and spectrum_thread.                                       *)
SenderWait(s) ==
  /\ pc[s] = "wait" /\ sem[s] > 0
  /\ sem' = [sem EXCEPT ![s] = @ - 1]
  /\ Goto(s, "lock")
  /\ UNCHANGED <<upd, buff, thunk, resp, rtn, running, active, cancelled,
                 nline, nrecv, label, sent, got, crossed>>

(* Pack up the latest snapshot and its label, and send them.               *)
SenderSend(s) ==
  /\ pc[s] = "run"
  /\ sent' = [sent EXCEPT ![s] = label[s]]
  /\ Goto(s, "unlock")
  /\ UNCHANGED <<upd, buff, thunk, resp, rtn, running, active, cancelled,
                 nline, nrecv, sem, label, got, crossed>>

SenderUnlock(s) ==
  /\ pc[s] = "unlock"
  /\ upd' = upd + 1
  /\ Goto(s, "top")
  /\ UNCHANGED <<buff, thunk, resp, rtn, running, active, cancelled, nline,
                 nrecv, sem, label, sent, got, crossed>>

SenderThread(s) ==
  Top(s, "wait") \/ SenderWait(s) \/ Lock(s) \/ SenderSend(s) \/ SenderUnlock(s)

(* A cancelled thread ends in its next sem_wait or sendto.                 *)
ActOnCancel(t) ==
  /\ t \in cancelled
  /\ pc[t] \in {"wait", "lock"} \/ (t \in Senders /\ pc[t] = "unlock")
  /\ Goto(t, "exited")
  /\ UNCHANGED <<upd, buff, thunk, resp, rtn, running, active, cancelled,
                 nline, nrecv, sem, label, sent, got, crossed>>

-----------------------------------------------------------------------------
Next ==
  \/ Main \/ UpdThread \/ TrxThread
  \/ \E s \in Senders : SenderThread(s)
  \/ \E t \in {"trx"} \cup Senders : ActOnCancel(t)

Spec == Init /\ [][Next]_vars

(* Every thread that can run does, except that datagrams need not come and *)
(* JACK need not deliver samples; a thread in sem_wait(upd) is not passed  *)
(* over for ever; cancellation takes effect, in the samples thread's next  *)
(* sem_wait even when it never has to wait there.                          *)
Fairness ==
  /\ WF_vars(Main)
  /\ WF_vars(Top("upd", "recv") \/ DoUpdate("upd") \/ Reply)
  /\ WF_vars(TrxThread)
  /\ \A s \in Senders : WF_vars(SenderThread(s))
  /\ \A t \in Threads \ {"trx"} : SF_vars(Lock(t))
  /\ \A s \in Senders : WF_vars(ActOnCancel(s))
  /\ SF_vars(ActOnCancel("trx"))

FairSpec == Spec /\ Fairness

-----------------------------------------------------------------------------
TypeOK ==
  /\ pc \in [Threads -> {"start", "line", "join", "joinall", "top", "recv",
                         "lookup", "lock", "run", "unlock", "reply", "wait",
                         "hold", "exited"}]
  /\ upd \in 0 .. 1 /\ sem \in [Senders -> Nat]
  /\ buff \in Command /\ thunk \in [Updaters -> Command]
  /\ got \in [Updaters -> Command]
  /\ resp \in Nat /\ rtn \in {0, -1}
  /\ running \in BOOLEAN /\ active \in BOOLEAN /\ cancelled \subseteq Threads
  /\ nline \in 0 .. Len(RcLines) /\ nrecv \in 0 .. MaxDatagrams
  /\ label \in [Senders -> Nat] /\ sent \in [Senders -> Nat]
  /\ crossed \in BOOLEAN

(* The threads that are between sem_wait(upd) and sem_post(upd).           *)
Inside == {t \in Threads : pc[t] \in {"run", "unlock"}}

(* At most one thread works on the radio's state at a time: a command, a   *)
(* block of samples, or the packing of a measurement; never two.           *)
OneAtATime == Cardinality(Inside) + upd <= 1

(* The answer a client gets is the answer to what it asked, unless the     *)
(* rcfile was being read meanwhile.                                        *)
AnswersOwn ==
  pc["upd"] = "reply" /\ ~crossed =>
    Answer = CASE got["upd"].kind = "bad" -> <<"error", 0>>
               [] got["upd"].kind = "get" -> <<"ok", got["upd"].id>>
               [] OTHER                   -> <<"ok", 0>>

(* A command that has been received is answered, however busy the samples  *)
(* thread and the measuring threads keep the semaphore, unless the program *)
(* is finishing.                                                           *)
EveryCommandAnswered ==
  (pc["upd"] = "lookup") ~> (pc["upd"] \in {"top", "exited"} \/ ~running)

(* A measurement that was asked for is sent, with a snapshot no older than *)
(* the request, unless the program is finishing.                           *)
RequestsServed ==
  \A s \in Senders, n \in 1 .. MaxDatagrams :
    (label[s] = n) ~> (sent[s] >= n \/ ~running)

(* Once setFinished has run in a radio that has started its audio, every   *)
(* thread ends, wherever it was.                                           *)
RunningRadioStops ==
  (~running /\ active) ~> (\A t \in Threads : pc[t] = "exited")

(* sdr-main.c, execute: "final shutdown always starts in update thread, so *)
(* join it first".  Once setFinished has run, every thread ends.           *)
ShutdownCompletes == ~running ~> (\A t \in Threads : pc[t] = "exited")

(* sdr-main.c, usage: "Read update commands from <load-file> at startup".  *)
(* A command runs with the words it was called with.                       *)
RunsWhatItGot ==
  \A t \in Updaters : pc[t] = "run" => thunk[t] = got[t] /\ buff = got[t]
=============================================================================
