--------------------------- MODULE CommandsProofs ---------------------------
(***************************************************************************)
(* For any number of receivers, any commands and any replay file, the      *)
(* count of active receivers is right.  A replay may leave the listening   *)
(* receiver at a number that is no receiver (a skipped line's redirect     *)
(* stays in tmpRL), so what every step keeps asks only for a number.  And  *)
(* a file that redirects no command to an existing receiver replays to     *)
(* what the recorded commands made, by induction over its lines.           *)
(***************************************************************************)
EXTENDS Commands, FiniteSetTheorems, WellFoundedInduction, TLAPS

Counted == [lis : Int, act : SUBSET Rx, nac : Int, sq : [Rx -> BOOLEAN]]

Good(r) == r \in Counted /\ r.nac = Cardinality(r.act)

Consistent ==
  Good(radio) /\ log \in Seq(Line) /\ pos \in Nat /\ tmpRL \in Int /\ back \in Int

(* The receivers are finitely many, and 0 is one of them.                  *)
LEMMA RxFinite == IsFiniteSet(Rx) /\ 0 \in Rx /\ Rx \subseteq Int
<1>1. NRx \in Nat /\ NRx # 0
  BY CommandsAssumption
<1>2. QED
  BY <1>1, FS_Interval DEF Rx

(* setup_workspace starts with a true count.                               *)
LEMMA FreshGood == Good(Fresh)
<1>1. Cardinality({0}) = 1
  BY FS_Singleton
<1>2. QED
  BY <1>1, RxFinite DEF Good, Counted, Fresh

(* The fields a redirect or setRXListen changes have no say in the count.  *)
LEMMA ListenGood ==
  ASSUME NEW r, NEW k \in Int, Good(r)
  PROVE  Good([r EXCEPT !.lis = k])
BY DEF Good, Counted

(* setRXOn and setRXOff keep the count, whatever they are given.           *)
LEMMA SwitchGood ==
  ASSUME NEW r, NEW k, Good(r)
  PROVE  Good(SetRXOn(r, k)) /\ Good(SetRXOff(r, k))
<1> DEFINE j == Meant(r, k)
<1>1. IsFiniteSet(r.act) /\ r.act \subseteq Rx /\ r.nac = Cardinality(r.act) /\ r.nac \in Int
  BY RxFinite, FS_Subset DEF Good, Counted
<1>2. Good(SetRXOn(r, k))
  <2>1. CASE j \in Rx \ r.act
    <3> DEFINE s == [r EXCEPT !.act = @ \cup {j}, !.nac = @ + 1]
    <3>1. Cardinality(r.act \cup {j}) = Cardinality(r.act) + 1
      BY <1>1, <2>1, FS_AddElement
    <3>2. s \in Counted
      <4>1. r.act \cup {j} \in SUBSET Rx /\ r.nac + 1 \in Int
        BY <1>1, <2>1
      <4>2. r \in Counted
        BY DEF Good
      <4> HIDE DEF j
      <4>3. QED
        BY <4>1, <4>2 DEF Counted
    <3>3. s.act = r.act \cup {j} /\ s.nac = r.nac + 1
      BY DEF Good, Counted
    <3>4. SetRXOn(r, k) = s
      BY <2>1 DEF SetRXOn
    <3> HIDE DEF s, j
    <3>5. s.nac = Cardinality(s.act)
      BY <1>1, <3>1, <3>3
    <3>6. QED
      BY <3>2, <3>4, <3>5 DEF Good
  <2>2. CASE j \notin Rx \ r.act
    BY <2>2 DEF SetRXOn
  <2>3. QED
    BY <2>1, <2>2
<1>3. Good(SetRXOff(r, k))
  <2>1. CASE j \in Rx \cap r.act
    <3> DEFINE s == [r EXCEPT !.act = @ \ {j}, !.nac = @ - 1]
    <3>1. Cardinality(r.act \ {j}) = Cardinality(r.act) - 1
      BY <1>1, <2>1, FS_RemoveElement
    <3>2. s \in Counted
      <4>1. r.act \ {j} \in SUBSET Rx /\ r.nac - 1 \in Int
        BY <1>1, <2>1
      <4>2. r \in Counted
        BY DEF Good
      <4> HIDE DEF j
      <4>3. QED
        BY <4>1, <4>2 DEF Counted
    <3>3. s.act = r.act \ {j} /\ s.nac = r.nac - 1
      BY DEF Good, Counted
    <3>4. SetRXOff(r, k) = s
      BY <2>1 DEF SetRXOff
    <3> HIDE DEF s, j
    <3>5. s.nac = Cardinality(s.act)
      BY <1>1, <3>1, <3>3
    <3>6. QED
      BY <3>2, <3>4, <3>5 DEF Good
  <2>2. CASE j \notin Rx \cap r.act
    BY <2>2 DEF SetRXOff
  <2>3. QED
    BY <2>1, <2>2
<1>4. QED
  BY <1>2, <1>3

(* No handler upsets the count.                                            *)
LEMMA HandledGood ==
  ASSUME NEW r, NEW c, Good(r)
  PROVE  Good(Handled(r, c))
<1>1. Good(SetRXListen(r, c.arg))
  BY RxFinite, ListenGood DEF SetRXListen
<1>2. Good(SetSquelchSt(r, c.arg))
  BY DEF SetSquelchSt, Good, Counted
<1>3. QED
  BY <1>1, <1>2, SwitchGood DEF Handled

(* Nor does running it for another receiver.                               *)
LEMMA RedirectedGood ==
  ASSUME NEW r, NEW c, NEW k \in Int, Good(r)
  PROVE  Good(Redirected(r, c, k))
<1>1. Good([r EXCEPT !.lis = k])
  BY ListenGood
<1>2. Good(Handled([r EXCEPT !.lis = k], c))
  BY <1>1, HandledGood
<1>3. r.lis \in Int
  BY DEF Good, Counted
<1>4. QED
  BY <1>2, <1>3, ListenGood DEF Redirected

(* A line of the protocol has a number, or None, for its redirect.         *)
LEMMA LineRedirect ==
  ASSUME NEW c \in Line
  PROVE  c.at \in Int
<1>1. c.at \in Redirects \cup {None}
  BY DEF Line
<1>2. Redirects \subseteq Int /\ None \in Int
  BY CommandsAssumption DEF None
<1>3. QED
  BY <1>1, <1>2

LEMMA UpdatedGood ==
  ASSUME NEW r, NEW c \in Line, Good(r)
  PROVE  Good(Updated(r, c))
BY LineRedirect, HandledGood, RedirectedGood DEF Updated

(* Every step keeps the count.                                             *)
LEMMA ConsistentKept == Consistent /\ [Next]_vars => Consistent'
<1> SUFFICES ASSUME Consistent, [Next]_vars PROVE Consistent'
  OBVIOUS
<1> USE DEF Consistent
<1>1. ASSUME NEW c \in Line, Record(c) PROVE log' \in Seq(Line)
  BY <1>1 DEF Record
<1>2. ASSUME NEW c \in Line, DoUpdate(c) PROVE Consistent'
  <2>1. Good(radio')
    BY <1>2, UpdatedGood DEF DoUpdate
  <2>2. QED
    BY <1>1, <1>2, <2>1 DEF DoUpdate
<1>3. ASSUME NEW c \in Line, SetNewBuflen(c) PROVE Consistent'
  <2>1. Good(radio') /\ pos' \in Nat
    BY <1>3, FreshGood DEF SetNewBuflen, Restart
  <2>2. back' \in Int
    BY <1>3 DEF SetNewBuflen, None, Good, Counted
  <2>3. QED
    BY <1>1, <1>3, <2>1, <2>2 DEF SetNewBuflen
<1>4. CASE ReplayLine
  <2> DEFINE c == log[pos]
  <2>1. c \in Line
    BY <1>4 DEF ReplayLine
  <2>2. c.at \in Int
    BY <2>1, LineRedirect
  <2>3. UNCHANGED <<log, back>>
    BY <1>4 DEF ReplayLine
  <2>4. CASE SkipLine(c)
    BY <2>2, <2>3, <2>4 DEF SkipLine
  <2>5. CASE NestedBuflen(c)
    BY <2>3, <2>5, FreshGood DEF NestedBuflen, Restart
  <2>6. CASE RunLine(c)
    <3>1. tmpRL' \in Int /\ pos' \in Nat
      BY <2>2, <2>6 DEF RunLine, NoteRedirect
    <3>2. Good(radio')
      BY <2>6, <3>1, HandledGood, RedirectedGood DEF RunLine
    <3>3. QED
      BY <2>3, <3>1, <3>2
  <2>7. QED
    BY <1>4, <2>4, <2>5, <2>6 DEF ReplayLine
<1>5. CASE EndReplay
  <2>1. Good(radio')
    BY <1>5, ListenGood DEF EndReplay
  <2>2. QED
    BY <1>5, <2>1 DEF EndReplay, None
<1>6. CASE UNCHANGED vars
  BY <1>6 DEF vars
<1>7. QED
  BY <1>2, <1>3, <1>4, <1>5, <1>6 DEF Next

(* getRXCount tells the truth, for any number of receivers and whatever    *)
(* lines are sent, recorded and replayed: setRXOn and setRXOff (update.c)  *)
(* count each receiver once, and setup_workspace starts the count at one.  *)
THEOREM CountTrue == Spec => []ActiveCount
<1>1. Init => Consistent
  BY FreshGood DEF Init, Consistent, None
<1>2. Consistent => ActiveCount
  BY DEF Consistent, Good, ActiveCount
<1>3. QED
  BY <1>1, <1>2, ConsistentKept, PTL DEF Spec
-----------------------------------------------------------------------------
(* Induction over the natural numbers, with the set of the numbers that    *)
(* have the property in the place of the property.                         *)

(* Numbers of which there are any have a least one.                        *)
LEMMA LeastNumber ==
  ASSUME NEW T, T \subseteq Nat, T # {}
  PROVE  \E m \in T : \A k \in T : m <= k
<1> DEFINE R == {ss \in Nat \X Nat : ss[1] < ss[2]}
<1>1. IsWellFoundedOn(R, Nat)
  BY NatLessThanWellFounded DEF OpToRel
<1>2. PICK m \in T : \A y \in T : ~(<<y, m>> \in R)
  <2> HIDE DEF R
  <2>1. QED
    BY <1>1, WFMin, Zenon
<1>3. \A k \in T : k \in Nat /\ m \in Nat /\ ~(k < m)
  BY <1>2
<1>4. QED
  BY <1>2, <1>3

LEMMA Induction ==
  ASSUME NEW S, 0 \in S, \A n \in Nat : n \in S => n + 1 \in S
  PROVE  \A n \in Nat : n \in S
<1> SUFFICES ASSUME Nat \ S # {} PROVE FALSE
  OBVIOUS
<1>1. PICK m \in Nat \ S : \A k \in Nat \ S : m <= k
  BY LeastNumber
<1>2. m - 1 \in Nat /\ m # 0
  BY <1>1
<1>3. m - 1 \in S
  BY <1>1, <1>2
<1>4. QED
  BY <1>1, <1>2, <1>3

(* A function that starts with base and goes on by step, N times.          *)
Runs(S, N, base, step) ==
  \E g \in [0 .. N -> S] : g[0] = base /\ \A n \in 1 .. N : g[n] = step[<<g[n - 1], n>>]

LEMMA Recursion ==
  ASSUME NEW S, NEW base \in S, NEW N \in Nat, NEW step \in [S \X (1 .. N) -> S]
  PROVE  Runs(S, N, base, step)
<1> DEFINE Begun(n) == \E g \in [0 .. n -> S] :
                          g[0] = base /\ \A i \in 1 .. n : g[i] = step[<<g[i - 1], i>>]
           P == {n \in Nat : n <= N => Begun(n)}
<1>1. 0 \in P
  <2> DEFINE g == [i \in 0 .. 0 |-> base]
  <2>1. g \in [0 .. 0 -> S] /\ g[0] = base /\ \A i \in 1 .. 0 : g[i] = step[<<g[i - 1], i>>]
    OBVIOUS
  <2>2. QED
    BY <2>1
<1>2. ASSUME NEW n \in Nat, n \in P PROVE n + 1 \in P
  <2> SUFFICES ASSUME n + 1 <= N PROVE Begun(n + 1)
    OBVIOUS
  <2>1. PICK g \in [0 .. n -> S] : g[0] = base /\ \A i \in 1 .. n : g[i] = step[<<g[i - 1], i>>]
    BY <1>2
  <2> DEFINE w == step[<<g[n], n + 1>>]
             h == [i \in 0 .. n + 1 |-> IF i <= n THEN g[i] ELSE w]
  <2>2. w \in S
    <3>1. <<g[n], n + 1>> \in S \X (1 .. N)
      BY <2>1
    <3>2. QED
      BY <3>1
  <2>3. h \in [0 .. n + 1 -> S] /\ h[0] = base
    <3> HIDE DEF w
    <3>1. QED
      BY <2>1, <2>2
  <2>4. ASSUME NEW i \in 1 .. n + 1 PROVE h[i] = step[<<h[i - 1], i>>]
    <3>1. CASE i <= n
      <4>1. h[i] = g[i] /\ h[i - 1] = g[i - 1]
        BY <3>1
      <4>2. QED
        BY <2>1, <3>1, <4>1
    <3>2. CASE i = n + 1
      <4>1. h[i] = w /\ h[i - 1] = g[n]
        BY <3>2
      <4>2. QED
        BY <3>2, <4>1
    <3>3. QED
      BY <3>1, <3>2
  <2> HIDE DEF h
  <2>5. QED
    BY <2>3, <2>4
<1> HIDE DEF P
<1>3. N \in P
  BY <1>1, <1>2, Induction
<1>4. QED
  BY <1>3 DEF P, Runs

-----------------------------------------------------------------------------
(* A replay.  Played(lg)[n] is the radio after the first n lines of lg.    *)
Played(lg) ==
  LET f[n \in 0 .. Len(lg)] == IF n = 0 THEN Fresh ELSE Updated(f[n - 1], lg[n])
  IN  f

LEMMA PlayedStepwise ==
  ASSUME NEW lg \in Seq(Line)
  PROVE  /\ Played(lg)[0] = Fresh
         /\ \A n \in 1 .. Len(lg) : Played(lg)[n] = Updated(Played(lg)[n - 1], lg[n])
<1> DEFINE N == Len(lg)
           S == {q \in Counted : Good(q)}
           step == [p \in S \X (1 .. N) |-> Updated(p[1], lg[p[2]])]
           Plays(g) == g = [n \in 0 .. N |-> IF n = 0 THEN Fresh ELSE Updated(g[n - 1], lg[n])]
<1>1. N \in Nat /\ \A n \in 1 .. N : lg[n] \in Line
  OBVIOUS
<1>2. Fresh \in S
  BY FreshGood DEF Good
<1>3. \A q \in S : \A n \in 1 .. N : Updated(q, lg[n]) \in S
  BY <1>1, UpdatedGood DEF Good
<1>4. step \in [S \X (1 .. N) -> S]
  BY <1>3
<1>5. \A q \in S : \A n \in 1 .. N : step[<<q, n>>] = Updated(q, lg[n])
  OBVIOUS
<1> HIDE DEF N, S, step
<1>6. PICK g \in [0 .. N -> S] : g[0] = Fresh /\ \A n \in 1 .. N : g[n] = step[<<g[n - 1], n>>]
  <2>1. Runs(S, N, Fresh, step)
    BY <1>1, <1>2, <1>4, Recursion
  <2>2. QED
    BY <2>1 DEF Runs
<1>7. \A n \in 1 .. N : g[n] = Updated(g[n - 1], lg[n])
  <2> SUFFICES ASSUME NEW n \in 1 .. N PROVE g[n] = Updated(g[n - 1], lg[n])
    OBVIOUS
  <2>1. g[n - 1] \in S
    BY <1>1, <1>6
  <2>2. QED
    BY <1>5, <1>6, <2>1
<1>8. Plays(g)
  <2>1. \A n \in 0 .. N : g[n] = IF n = 0 THEN Fresh ELSE Updated(g[n - 1], lg[n])
    BY <1>1, <1>6, <1>7
  <2>2. QED
    BY <1>6, <2>1
<1>9. Played(lg) = CHOOSE h : Plays(h)
  BY DEF Played, N
<1>10. Plays(Played(lg))
  <2> HIDE DEF Plays
  <2>1. QED
    BY <1>8, <1>9
<1> DEFINE f == Played(lg)
<1> HIDE DEF f
<1>11. f = [n \in 0 .. N |-> IF n = 0 THEN Fresh ELSE Updated(f[n - 1], lg[n])]
  BY <1>10 DEF f
<1>12. f[0] = Fresh /\ \A n \in 1 .. N : f[n] = Updated(f[n - 1], lg[n])
  BY <1>1, <1>11
<1>13. QED
  BY <1>12 DEF f, N

(* A file that redirects no command to an existing receiver.               *)
Plain(lg) == \A n \in 1 .. Len(lg) : lg[n].at \notin Rx

(* What a replay has done so far: the lines before the next one, in order, *)
(* on a fresh workspace.                                                   *)
ReplayInv ==
  /\ pos = 0 => ~switcheroo
  /\ Plain(log) =>
       /\ ~wild /\ ~switcheroo
       /\ pos > 0 => pos <= Len(log) + 1 /\ radio = Played(log)[pos - 1]

(* A file that grows was plain before.                                     *)
LEMMA PlainBefore ==
  ASSUME NEW lg \in Seq(Line), NEW c \in Line, Plain(Append(lg, c))
  PROVE  Plain(lg)
<1> SUFFICES ASSUME NEW n \in 1 .. Len(lg) PROVE lg[n].at \notin Rx
  BY DEF Plain
<1>1. Append(lg, c)[n] = lg[n] /\ n \in 1 .. Len(Append(lg, c))
  OBVIOUS
<1>2. QED
  BY <1>1 DEF Plain

LEMMA ReplayKept == Consistent /\ ReplayInv /\ [Next]_vars => ReplayInv'
<1> SUFFICES ASSUME Consistent, ReplayInv, [Next]_vars PROVE ReplayInv'
  OBVIOUS
<1>0. log \in Seq(Line) /\ pos \in Nat /\ Len(log) \in Nat
  BY DEF Consistent
<1>1. ASSUME NEW c \in Line, Record(c)
      PROVE  log' \in Seq(Line) /\ (Plain(log)' => Plain(log))
  <2>1. CASE UNCHANGED log
    BY <1>0, <2>1 DEF Plain
  <2>2. CASE log' = Append(log, c)
    <3>1. Append(log, c) \in Seq(Line) /\ (Plain(Append(log, c)) => Plain(log))
      BY <1>0, PlainBefore
    <3>2. Plain(log)' <=> Plain(Append(log, c))
      BY <2>2 DEF Plain
    <3>3. QED
      BY <2>2, <3>1, <3>2
  <2>3. QED
    BY <1>1, <2>1, <2>2 DEF Record
<1>2. ASSUME NEW c \in Line, DoUpdate(c) PROVE ReplayInv'
  BY <1>1, <1>2 DEF DoUpdate, ReplayInv
<1>3. ASSUME NEW c \in Line, SetNewBuflen(c) PROVE ReplayInv'
  <2>1. Record(c) /\ pos = 0 /\ ~switcheroo /\ UNCHANGED wild
    BY <1>3 DEF SetNewBuflen, ReplayInv
  <2>2. log' \in Seq(Line) /\ (Plain(log)' => Plain(log))
    BY <1>1, <2>1
  <2>3. CASE Accepted(c)
    <3>1. radio' = Fresh /\ pos' = 1 /\ switcheroo' = FALSE
      BY <1>3, <2>3 DEF SetNewBuflen, Restart
    <3>2. Played(log')[0] = Fresh /\ Len(log') \in Nat
      BY <2>2, PlayedStepwise
    <3>3. radio' = Played(log')[pos' - 1] /\ pos' <= Len(log') + 1
      BY <3>1, <3>2
    <3>4. QED
      BY <2>1, <2>2, <3>1, <3>3 DEF ReplayInv
  <2>4. CASE ~Accepted(c)
    BY <1>3, <2>1, <2>2, <2>4 DEF SetNewBuflen, ReplayInv
  <2>5. QED
    BY <2>3, <2>4
<1>4. CASE ReplayLine
  <2> DEFINE c == log[pos]
  <2>1. pos \in 1 .. Len(log) /\ log' = log
    BY <1>4 DEF ReplayLine
  <2>2. Plain(log)' <=> Plain(log)
    BY <2>1 DEF Plain
  <2>3. CASE Accepted(c) /\ c.op = "setNewBuflen" /\ NestedBuflen(c)
    <3>1. radio' = Fresh /\ pos' = 1 /\ switcheroo' = FALSE /\ wild' = wild
      BY <2>3 DEF NestedBuflen, Restart
    <3>2. Played(log)[0] = Fresh
      BY <1>0, PlayedStepwise
    <3>3. radio' = Played(log')[pos' - 1] /\ pos' <= Len(log') + 1
      BY <1>0, <2>1, <3>1, <3>2
    <3>4. QED
      BY <2>2, <3>1, <3>3 DEF ReplayInv
  <2>4. ASSUME (SkipLine(c) /\ ~Accepted(c)) \/ (RunLine(c) /\ Accepted(c))
        PROVE  ReplayInv'
    <3>1. pos' = pos + 1
      BY <2>4 DEF SkipLine, RunLine
    <3>2. ASSUME Plain(log)
          PROVE  ~wild' /\ ~switcheroo' /\ radio' = Updated(radio, c)
      <4>1. c.at \notin Rx /\ ~wild /\ ~switcheroo
        BY <2>1, <3>2 DEF ReplayInv, Plain
      <4>2. CASE SkipLine(c) /\ ~Accepted(c)
        BY <4>1, <4>2 DEF SkipLine, Updated
      <4>3. CASE RunLine(c) /\ Accepted(c)
        <5>1. c.at = None
          BY <4>1, <4>3 DEF Accepted
        <5>2. ~switcheroo'
          BY <4>1, <4>3, <5>1 DEF RunLine, NoteRedirect
        <5>3. radio' = Handled(radio, c) /\ wild' = wild
          BY <4>3, <5>2 DEF RunLine
        <5>4. QED
          BY <4>1, <4>3, <5>1, <5>2, <5>3 DEF Updated
      <4>4. QED
        BY <2>4, <4>2, <4>3
    <3>3. ASSUME Plain(log)
          PROVE  radio' = Played(log')[pos' - 1] /\ pos' <= Len(log') + 1
      <4>1. radio = Played(log)[pos - 1]
        BY <2>1, <3>3 DEF ReplayInv
      <4>2. Played(log)[pos] = Updated(Played(log)[pos - 1], c)
        BY <1>0, <2>1, PlayedStepwise
      <4>3. radio' = Played(log)[pos]
        BY <3>2, <3>3, <4>1, <4>2
      <4>4. pos' - 1 = pos
        BY <2>1, <3>1
      <4>5. QED
        BY <1>0, <2>1, <3>1, <4>3, <4>4
    <3>4. QED
      BY <1>0, <2>2, <3>1, <3>2, <3>3 DEF ReplayInv
  <2>5. QED
    BY <1>4, <2>3, <2>4 DEF ReplayLine
<1>5. CASE EndReplay
  BY <1>5 DEF EndReplay, ReplayInv
<1>6. CASE UNCHANGED vars
  BY <1>6 DEF vars, ReplayInv
<1>7. QED
  BY <1>2, <1>3, <1>4, <1>5, <1>6 DEF Next

(* For any number of receivers, any commands and a file of any length that *)
(* redirects no command to an existing receiver: when replay_updates has   *)
(* come to the end of the file, the radio is as the recorded lines leave a *)
(* fresh one when do_update runs them, and no handler was run for a        *)
(* receiver that does not exist.                                           *)
THEOREM PlainFilesRestore == Spec => []PlainReplayRestores
<1>1. Init => Consistent /\ ReplayInv
  <2> SUFFICES ASSUME Init PROVE Consistent /\ ReplayInv
    OBVIOUS
  <2>1. Consistent
    BY FreshGood DEF Init, Consistent, None
  <2>2. QED
    BY <2>1 DEF Init, ReplayInv
<1>2. Consistent /\ ReplayInv => PlainReplayRestores
  <2> SUFFICES ASSUME Consistent, ReplayInv, Plain(log)
               PROVE  (pos > Len(log) => radio = Rebuilt) /\ ~wild
    BY DEF PlainReplayRestores, ReplayRestores, Plain
  <2>1. ~wild
    BY DEF ReplayInv
  <2>2. ASSUME pos > Len(log) PROVE radio = Rebuilt
    <3>1. log \in Seq(Line) /\ pos \in Nat /\ Len(log) \in Nat
      BY DEF Consistent
    <3>2. pos - 1 = Len(log) /\ radio = Played(log)[pos - 1]
      BY <2>2, <3>1 DEF ReplayInv
    <3>3. Rebuilt = Played(log)[Len(log)]
      BY DEF Rebuilt, Played
    <3>4. QED
      BY <3>2, <3>3
  <2>3. QED
    BY <2>1, <2>2
<1>3. QED
  BY <1>1, <1>2, ConsistentKept, ReplayKept, PTL DEF Spec
=============================================================================
