------------------------------ MODULE Commands ------------------------------
(***************************************************************************)
(* What update.c makes of a command line: which receiver it is for, what   *)
(* it does to the set of active receivers, how it is recorded in the       *)
(* replay file, and how setNewBuflen runs the replay file again on a fresh *)
(* workspace.                                                              *)
(*                                                                         *)
(* All of it runs under the update semaphore, one command at a time        *)
(* (module Control), so a command is one step; a replay is one step per    *)
(* line of the file.                                                       *)
(***************************************************************************)
EXTENDS Integers, Sequences, FiniteSets

CONSTANTS
  NRx,         \* uni->multirx.nrx
  Redirects,   \* the k of "@k": receivers a line may be directed to
  Ops,         \* the commands that are sent
  MaxLog       \* bound: lines in the replay file

Rx   == 0 .. NRx - 1
None == -1

AllOps == {"setRXListen", "setRXOn", "setRXOff", "setSquelchSt",
           "setNewBuflen", "unknown"}

ASSUME CommandsAssumption ==
  /\ NRx \in Nat \ {0} /\ Redirects \subseteq Nat /\ MaxLog \in Nat
  /\ Ops \subseteq AllOps

VARIABLES
  radio,     \* the listening receiver, the active ones and their number,
             \* and one setting of each receiver
  log,       \* the replay file
  pos,       \* the next line replay_updates reads; 0 outside a replay
  switcheroo, tmpRL,   \* the locals of replay_updates
  back,      \* oldRL of the do_update that called setNewBuflen, or None
  wild       \* a command has been run for a receiver that does not exist

vars == <<radio, log, pos, switcheroo, tmpRL, back, wild>>

Radio == [lis : Rx, act : SUBSET Rx, nac : Int, sq : [Rx -> BOOLEAN]]

(* A line: the redirect, the command and its argument.                     *)
Argument(op) ==
  CASE op \in {"setRXOn", "setRXOff"} -> (0 .. NRx) \cup {None}
    [] op = "setRXListen"            -> 0 .. NRx
    [] op = "setSquelchSt"           -> {0, 1}
    [] OTHER                         -> {None}

Line ==
  {c \in [at : Redirects \cup {None}, op : Ops, arg : (0 .. NRx + 1) \cup {None}] :
     c.arg \in Argument(c.op)}

(* setup_workspace: receiver 0 alone is active.                            *)
Fresh == [lis |-> 0, act |-> {0}, nac |-> 1, sq |-> [k \in Rx |-> FALSE]]

Init ==
  /\ radio = Fresh
  /\ log = <<>> /\ pos = 0
  /\ switcheroo = FALSE /\ tmpRL = 0 /\ back = None /\ wild = FALSE

-----------------------------------------------------------------------------
(* The handlers.  RL is r.lis; a handler that refuses changes nothing.     *)

Meant(r, k) == IF k = None THEN r.lis ELSE k

SetRXListen(r, k) == IF k \in Rx THEN [r EXCEPT !.lis = k] ELSE r

SetRXOn(r, k) ==
  LET j == Meant(r, k) IN
  IF j \in Rx \ r.act THEN [r EXCEPT !.act = @ \cup {j}, !.nac = @ + 1] ELSE r

(* Mutant: a receiver that is off already is counted off again.            *)
MutSetRXOff(r, k) ==
  LET j == Meant(r, k) IN
  IF j \in Rx THEN [r EXCEPT !.act = @ \ {j}, !.nac = @ - 1] ELSE r

SetRXOff(r, k) ==
  LET j == Meant(r, k) IN
  IF j \in Rx \cap r.act THEN [r EXCEPT !.act = @ \ {j}, !.nac = @ - 1] ELSE r

(* setSquelchSt, for the many settings of one receiver.                    *)
SetSquelchSt(r, v) == [r EXCEPT !.sq[r.lis] = (v # 0)]

(* The call of the handler, for every command but setNewBuflen.            *)
Handled(r, c) ==
  IF c.op = "setRXListen" THEN SetRXListen(r, c.arg)
  ELSE IF c.op = "setRXOn" THEN SetRXOn(r, c.arg)
  ELSE IF c.op = "setRXOff" THEN SetRXOff(r, c.arg)
  ELSE IF c.op = "setSquelchSt" THEN SetSquelchSt(r, c.arg)
  ELSE r

(* oldRL = RL, RL = tmpRL; the command; RL = oldRL.                        *)
Redirected(r, c, k) ==
  [Handled([r EXCEPT !.lis = k], c) EXCEPT !.lis = r.lis]

Accepted(c) == c.at = None \/ c.at \in Rx

(* What do_update does to the radio.                                       *)
Updated(r, c) ==
  IF ~Accepted(c) THEN r
  ELSE IF c.at = None THEN Handled(r, c)
  ELSE Redirected(r, c, c.at)

-----------------------------------------------------------------------------
(* A "!" line is written to the replay file before anything is known about *)
(* it.                                                                     *)
Record(c) ==
  \/ UNCHANGED log
  \/ Len(log) < MaxLog /\ log' = Append(log, c)

DoUpdate(c) ==
  /\ pos = 0 /\ c.op # "setNewBuflen"
  /\ Record(c)
  /\ radio' = Updated(radio, c)
  /\ UNCHANGED <<pos, switcheroo, tmpRL, back, wild>>

(* reset_for_buflen, then replay_updates from the first line.              *)
Restart ==
  /\ radio' = Fresh
  /\ pos' = 1
  /\ switcheroo' = FALSE

SetNewBuflen(c) ==
  /\ pos = 0 /\ c.op = "setNewBuflen"
  /\ Record(c)
  /\ IF Accepted(c)
     THEN Restart /\ back' = (IF c.at = None THEN None ELSE radio.lis)
     ELSE UNCHANGED <<radio, pos, switcheroo, back>>
  /\ UNCHANGED <<tmpRL, wild>>

(* Mutant: switcheroo is set before the redirect is checked.               *)
MutSkipLine(c) ==
  /\ tmpRL' = c.at
  /\ switcheroo' = TRUE
  /\ pos' = pos + 1
  /\ UNCHANGED <<radio, wild>>

(* replay_updates, the body of the loop.  A redirect to no receiver leaves *)
(* tmpRL behind; switcheroo, once set, stays.                              *)
SkipLine(c) ==
  /\ tmpRL' = c.at
  /\ pos' = pos + 1
  /\ UNCHANGED <<radio, switcheroo, wild>>

NoteRedirect(c) ==
  /\ tmpRL' = IF c.at = None THEN tmpRL ELSE c.at
  /\ switcheroo' = (switcheroo \/ c.at # None)

(* The handlers that index rx[RL] or act[RL].                              *)
UsesRL(c) ==
  c.op = "setSquelchSt" \/ (c.op \in {"setRXOn", "setRXOff"} /\ c.arg = None)

RunLine(c) ==
  /\ NoteRedirect(c)
  /\ IF switcheroo' /\ tmpRL' \notin Rx /\ UsesRL(c)
     THEN wild' = TRUE /\ UNCHANGED radio
     ELSE /\ radio' = IF switcheroo' THEN Redirected(radio, c, tmpRL')
                                     ELSE Handled(radio, c)
          /\ UNCHANGED wild
  /\ pos' = pos + 1

(* A recorded setNewBuflen starts the replay over, one call deeper, and    *)
(* meets itself again: such a replay never ends.                           *)
NestedBuflen(c) ==
  /\ Restart
  /\ UNCHANGED <<tmpRL, wild>>

ReplayLine ==
  /\ pos \in 1 .. Len(log)
  /\ LET c == log[pos] IN
     \/ ~Accepted(c) /\ SkipLine(c)
     \/ Accepted(c) /\ c.op = "setNewBuflen" /\ NestedBuflen(c)
     \/ Accepted(c) /\ c.op # "setNewBuflen" /\ RunLine(c)
  /\ UNCHANGED <<log, back>>

(* End of file: setNewBuflen returns, and do_update undoes its redirect.   *)
EndReplay ==
  /\ pos > Len(log)
  /\ pos' = 0
  /\ radio' = IF back = None THEN radio ELSE [radio EXCEPT !.lis = back]
  /\ switcheroo' = FALSE
  /\ tmpRL' = 0
  /\ back' = None
  /\ UNCHANGED <<log, wild>>

Next ==
  \/ \E c \in Line : DoUpdate(c) \/ SetNewBuflen(c)
  \/ ReplayLine
  \/ EndReplay

Spec == Init /\ [][Next]_vars

-----------------------------------------------------------------------------
TypeOK ==
  /\ radio \in Radio
  /\ log \in Seq(Line) /\ Len(log) <= MaxLog /\ pos \in 0 .. MaxLog + 1
  /\ switcheroo \in BOOLEAN /\ tmpRL \in Redirects \cup {0}
  /\ back \in Rx \cup {None} /\ wild \in BOOLEAN

(* getRXCount tells the truth: the count kept by setRXOn and setRXOff is   *)
(* the number of active receivers, through redirects, refusals, repeated   *)
(* commands and replays.                                                   *)
ActiveCount == radio.nac = Cardinality(radio.act)

(* The recorded lines as do_update would run them on a fresh workspace.    *)
Rebuilt ==
  LET f[n \in 0 .. Len(log)] ==
        IF n = 0 THEN Fresh ELSE Updated(f[n - 1], log[n])
  IN f[Len(log)]

(* update.c: "temporary redirect of a command to another RX".  A replay    *)
(* leaves the radio as the recorded commands left it when they came in:    *)
(* setNewBuflen loses no recorded setting and gives none to another        *)
(* receiver.                                                               *)
ReplayRestores == pos > Len(log) => radio = Rebuilt

(* The same of a file that redirects no command to an existing receiver:   *)
(* settings, refused commands and refused redirects come out of a replay   *)
(* as they came in, and no command is run for a receiver that does not     *)
(* exist.                                                                  *)
PlainReplayRestores ==
  (\A n \in 1 .. Len(log) : log[n].at \notin Rx) => ReplayRestores /\ ~wild
=============================================================================
