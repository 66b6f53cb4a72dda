----------------------------- MODULE KeyerProofs -----------------------------
(***************************************************************************)
(* The iambic keyer.  Its logic, for every speed, weight and setting: an   *)
(* element that has begun sounds to its end, the space after it is kept,   *)
(* and open paddles get at most one more element.  Its threads, for every  *)
(* envelope, block size and full level: a tone whose rise was complete     *)
(* fades without a jump, and silence is at zero.                           *)
(***************************************************************************)
EXTENDS KeyerLogic, KeyerThreads, TLAPS

-----------------------------------------------------------------------------
(* KeyerLogic                                                              *)

(* What klogic keeps between its calls.                                    *)
Running(k) == k.beep > 0 => k.elem = k.beep + Space(k.unit)

Sane(k, f) ==
  /\ k \in Structure
  /\ k.curr = "none" => k.elem <= 0 /\ k.beep <= 0
  /\ k.curr # "none" => k.elem > 0 /\ k.unit \in DitLens /\ Running(k)
  /\ k.dlay > 0 => f.khar
  /\ k.space # "none" => f.khar
  /\ k.dlay > 0 /\ k.curr # "none" => k.beep = Beep(k.curr, k.unit)

(* The same after the countdown, when an element may have ended.           *)
Counted(k, f) ==
  /\ k \in Structure
  /\ k.curr = "none" => k.elem <= 0 /\ k.beep <= 0
  /\ k.curr # "none" => k.unit \in DitLens /\ Running(k)
  /\ k.dlay > 0 => f.khar
  /\ k.space # "none" => f.khar
  /\ k.dlay > 0 /\ k.curr # "none" =>
       k.elem > 0 /\ k.beep = Beep(k.curr, k.unit)

(* The times of an element add up.                                         *)
LEMMA Lengths ==
  ASSUME NEW e \in Elements, NEW d \in DitLens
  PROVE  /\ d \in Nat /\ DitBeep(d) \in Int
         /\ Space(d) \in Int /\ Space(d) >= MaxTick
         /\ Beep(e, d) \in Int /\ Beep(e, d) > 0
         /\ Elem(e, d) = Beep(e, d) + Space(d)
         /\ Elem(e, d) \in Int /\ Elem(e, d) > 0
<1> HIDE DEF DitBeep
<1>1. DitBeep(d) \in 1 .. 2 * d - MaxTick /\ d \in Nat /\ MaxTick \in Nat
  BY KeyerAssumption
<1>2. DitBeep(d) \in Int
  BY <1>1
<1>3. QED
  BY <1>1, <1>2 DEF Space, Beep, Elem, Elements

-----------------------------------------------------------------------------
(* The parts of klogic, one lemma each.                                    *)

LEMMA PrepareSane ==
  ASSUME NEW f \in FlagSet, NEW k, Sane(k, f), NEW p \in SUBSET Elements
  PROVE  LET k1 == Prepare(k, p) IN
         /\ Sane(k1, f)
         /\ k1.curr = k.curr /\ k1.unit = k.unit /\ k1.beep = k.beep
         /\ k1.elem = k.elem /\ k1.dlay = k.dlay /\ k1.iamb = k.iamb
         /\ k1.altrn = k.altrn /\ k1.space = k.space
<1> DEFINE open == [e \in Elements |-> e \in p]
           k1   == Prepare(k, p)
<1>1. open \in [Elements -> BOOLEAN]
  OBVIOUS
<1>2. k1 = k \/ k1 = [k EXCEPT !.init = TRUE, !.prev = open]
  BY DEF Prepare
<1> HIDE DEF open, k1
<1>3. k \in Structure
  BY DEF Sane
<1>4. /\ k1 \in Structure
      /\ k1.curr = k.curr /\ k1.unit = k.unit /\ k1.beep = k.beep
      /\ k1.elem = k.elem /\ k1.dlay = k.dlay /\ k1.iamb = k.iamb
      /\ k1.altrn = k.altrn /\ k1.space = k.space
  BY <1>1, <1>2, <1>3 DEF Structure
<1>5. QED
  BY <1>4 DEF Sane, Running, k1

LEMMA CountDownCounted ==
  ASSUME NEW f \in FlagSet, NEW k, Sane(k, f), NEW d \in DitLens,
         NEW t \in TickLens
  PROVE  LET k1 == CountDown(k, f, d, t) IN
         /\ Counted(k1, f)
         /\ k1.curr = k.curr /\ k1.unit = k.unit
         /\ k1.iamb = k.iamb /\ k1.altrn = k.altrn
         /\ k1.elem <= k.elem /\ k1.elem >= k.elem - t
         /\ k1.beep <= k.beep /\ k1.beep >= k.beep - t
         /\ k.dlay <= 0 /\ k.curr # "none" =>
              /\ k1.dlay = k.dlay /\ k1.elem = k.elem - t
              /\ k1.beep = Less(k.beep, t)
<1> DEFINE k1 == CountDown(k, f, d, t)
<1>1. t \in Int /\ t > 0 /\ t <= MaxTick /\ MaxTick \in Nat /\ d \in Nat
  BY KeyerAssumption
<1>2. k \in Structure
  BY DEF Sane
<1>3. k.dlay \in Int /\ k.elem \in Int /\ k.beep \in Int /\ k.midl \in Int
  BY <1>2 DEF Structure, Times
<1>4. ASSUME NEW x \in Times PROVE Less(x, t) \in Times
  BY <1>1, <1>4 DEF Less, Times
<1>5. CASE Less(k.dlay, t) > 0
  <2>1. k1 = [k EXCEPT !.dlay = Less(k.dlay, t)]
    BY <1>5 DEF CountDown
  <2>2. k.dlay > 0
    BY <1>1, <1>3, <1>5 DEF Less
  <2>3. k1 \in Structure
    BY <1>2, <1>4, <2>1 DEF Structure
  <2>4. QED
    BY <1>1, <1>2, <1>3, <2>1, <2>2, <2>3 DEF Sane, Counted, Structure, Running
<1>6. CASE /\ ~(Less(k.dlay, t) > 0)
           /\ k.elem <= 0 /\ k.space = "char" /\ f.word
  <2>1. k1 = [k EXCEPT !.dlay = 4 * d, !.space = "word"]
    BY <1>6 DEF CountDown
  <2>2. k.curr = "none" /\ f.khar
    BY <1>2, <1>3, <1>6 DEF Sane
  <2>3. 4 * d \in Times
    BY <1>1 DEF Times
  <2>4. k1 \in Structure
    BY <1>2, <2>1, <2>3 DEF Structure
  <2>5. QED
    BY <1>1, <1>2, <1>3, <2>1, <2>2, <2>4 DEF Sane, Counted, Structure, Running
<1>7. CASE /\ ~(Less(k.dlay, t) > 0)
           /\ ~(k.elem <= 0 /\ k.space = "char" /\ f.word)
  <2>1. k1 = [k EXCEPT !.dlay = Less(k.dlay, t), !.space = "none",
                       !.midl = Less(k.midl, t), !.beep = Less(k.beep, t),
                       !.elem = Less(k.elem, t)]
    BY <1>7 DEF CountDown
  <2> DEFINE dlay == Less(k.dlay, t)
             midl == Less(k.midl, t)
             beep == Less(k.beep, t)
             elem == Less(k.elem, t)
  <2>9. /\ dlay \in Times /\ midl \in Times /\ beep \in Times
        /\ elem \in Times
    BY <1>2, <1>4 DEF Structure
  <2>10. k1 = [k EXCEPT !.dlay = dlay, !.space = "none", !.midl = midl,
                        !.beep = beep, !.elem = elem]
    BY <2>1
  <2>2. k1 \in Structure
    <3> HIDE DEF k1, dlay, midl, beep, elem
    <3>1. QED
      BY <1>2, <2>9, <2>10 DEF Structure
  <2>3. /\ k1.dlay = Less(k.dlay, t) /\ k1.beep = Less(k.beep, t)
        /\ k1.elem = Less(k.elem, t) /\ k1.curr = k.curr
        /\ k1.unit = k.unit /\ k1.iamb = k.iamb /\ k1.altrn = k.altrn
        /\ k1.space = "none"
    BY <1>2, <2>1 DEF Structure
  <2>4. k.curr # "none" => k.elem > 0 /\ k.unit \in DitLens /\ Running(k)
    BY DEF Sane
  <2>5. k.curr # "none" => Running(k1)
    <3> SUFFICES ASSUME k.curr # "none", k1.beep > 0
                 PROVE  k1.elem = k1.beep + Space(k1.unit)
      BY DEF Running
    <3>1. Space(k.unit) \in Int
      BY <2>4, Lengths DEF Elements
    <3>2. QED
      BY <1>1, <1>3, <2>3, <2>4, <3>1 DEF Running, Less
  <2>6. k.curr = "none" => k1.elem <= 0 /\ k1.beep <= 0
    BY <1>1, <1>3, <2>3 DEF Sane, Less
  <2>7. Counted(k1, f)
    BY <1>7, <2>2, <2>3, <2>4, <2>5, <2>6 DEF Counted
  <2>8. QED
    BY <1>1, <1>3, <1>7, <2>3, <2>4, <2>7 DEF Less
<1>8. QED
  BY <1>5, <1>6, <1>7

LEMMA NoteSqueezeCounted ==
  ASSUME NEW f \in FlagSet, NEW k, Counted(k, f), NEW p \in SUBSET Elements
  PROVE  LET k1 == NoteSqueeze(k, p) IN
         /\ Counted(k1, f)
         /\ k1.curr = k.curr /\ k1.unit = k.unit /\ k1.beep = k.beep
         /\ k1.elem = k.elem /\ k1.dlay = k.dlay /\ k1.altrn = k.altrn
         /\ p = {} /\ k.iamb = "none" => k1.iamb = "none"
<1> DEFINE k1 == NoteSqueeze(k, p)
           past == k.psqam \/ k.midl <= 0
<1>1. \/ k1 = k /\ (p = {} => k.iamb # "squeezed")
      \/ k1 = [k EXCEPT !.iamb = "squeezed", !.psqam = past] /\ p # {}
      \/ k1 = [k EXCEPT !.iamb = "released"] /\ k.iamb = "squeezed"
  BY DEF NoteSqueeze, Elements
<1>2. past \in BOOLEAN /\ k \in Structure
  BY DEF Counted, Structure
<1> HIDE DEF k1, past
<1>3. /\ k1 \in Structure
      /\ k1.curr = k.curr /\ k1.unit = k.unit /\ k1.beep = k.beep
      /\ k1.elem = k.elem /\ k1.dlay = k.dlay /\ k1.altrn = k.altrn
      /\ k1.space = k.space
      /\ p = {} /\ k.iamb = "none" => k1.iamb = "none"
  BY <1>1, <1>2 DEF Structure
<1>4. QED
  BY <1>3 DEF Counted, Running, k1

LEMMA ScheduleSane ==
  ASSUME NEW f \in FlagSet, NEW k \in Structure, NEW d \in DitLens,
         NEW e \in Elements, k.dlay > 0 => f.khar, k.space # "none" => f.khar
  PROVE  LET k1 == Schedule(k, e, d) IN
         /\ Sane(k1, f)
         /\ k1.curr = e /\ k1.unit = d /\ k1.beep = Beep(e, d)
         /\ k1.dlay = k.dlay /\ k1.altrn = k.altrn /\ k1.iamb = k.iamb
<1> DEFINE k1 == Schedule(k, e, d)
<1>1. /\ Beep(e, d) \in Int /\ Beep(e, d) > 0
      /\ Elem(e, d) = Beep(e, d) + Space(d)
      /\ Elem(e, d) \in Int /\ Elem(e, d) > 0
  BY Lengths
<1> DEFINE b == Beep(e, d)
           l == Elem(e, d)
           m == (b + 1) \div 2
<1>2. b \in Times /\ m \in Times /\ l \in Times
  BY <1>1, KeyerAssumption DEF Times
<1>3. k1 = [k EXCEPT !.curr = e, !.unit = d, !.beep = b, !.midl = m,
                     !.elem = l]
  BY DEF Schedule
<1> HIDE DEF k1, b, m, l
<1>4. k1 \in Structure
  BY <1>2, <1>3 DEF Structure, Elements
<1>5. /\ k1.curr = e /\ k1.unit = d /\ k1.beep = b /\ k1.elem = l
      /\ k1.dlay = k.dlay /\ k1.altrn = k.altrn /\ k1.iamb = k.iamb
      /\ k1.space = k.space
  BY <1>3 DEF Structure
<1>6. b = Beep(e, d) /\ l = b + Space(d) /\ l > 0
  BY <1>1 DEF b, l
<1>7. Sane(k1, f)
  BY <1>4, <1>5, <1>6 DEF Sane, Running, Elements
<1>8. QED
  BY <1>5, <1>6, <1>7 DEF k1

LEMMA FinishSane ==
  ASSUME NEW f \in FlagSet, NEW k, Counted(k, f), NEW d \in DitLens,
         NEW p \in SUBSET Elements
  PROVE  LET k1 == Finish(k, f, d, p) IN
         /\ Sane(k1, f)
         /\ k.elem > 0 \/ k.curr = "none" => k1 = k
         /\ k.elem <= 0 /\ k.curr # "none" =>
              ~k1.altrn /\ k1.iamb = "none"
         /\ k1.curr # "none" /\ k1 # k =>
              k1.beep = Beep(k1.curr, k1.unit) /\ Alternate(k, f, p)
<1> DEFINE done == [k EXCEPT !.altrn = FALSE, !.iamb = "none", !.psqam = FALSE]
           k1   == Finish(k, f, d, p)
<1>1. k \in Structure /\ k.elem \in Int /\ k.beep \in Int
  BY DEF Counted, Structure, Times
<1>2. /\ done \in Structure /\ done.curr = k.curr /\ done.unit = k.unit
      /\ done.beep = k.beep /\ done.elem = k.elem /\ done.dlay = k.dlay
      /\ done.space = k.space /\ ~done.altrn /\ done.iamb = "none"
  BY <1>1 DEF Structure
<1>3. CASE k.elem > 0 \/ k.curr = "none"
  <2>1. k1 = k
    BY <1>3 DEF Finish
  <2>2. Sane(k, f)
    BY <1>3 DEF Counted, Sane
  <2>3. QED
    BY <1>1, <1>3, <2>1, <2>2
<1>4. CASE ~(k.elem > 0 \/ k.curr = "none")
  <2>1. k.elem <= 0 /\ k.curr \in Elements /\ k.unit \in DitLens
    BY <1>1, <1>4 DEF Counted, Structure
  <2>2. k.beep <= 0
    <3>1. Space(k.unit) \in Int /\ Space(k.unit) >= MaxTick /\ MaxTick \in Nat
      BY <2>1, Lengths, KeyerAssumption
    <3>2. QED
      BY <1>1, <2>1, <3>1 DEF Counted, Running
  <2>3. ~(k.dlay > 0)
    BY <1>1, <1>4, <2>1 DEF Counted
  <2>4. CASE Alternate(k, f, p)
    <3>1. k1 = Schedule(done, Other(k.curr), d)
      BY <1>4, <2>4 DEF Finish
    <3>2. Other(k.curr) \in Elements
      BY DEF Other, Elements
    <3>3. done.dlay > 0 => f.khar
      BY <1>2, <2>3
    <3>4. done.space # "none" => f.khar
      BY <1>2 DEF Counted
    <3> HIDE DEF done, k1
    <3>5. QED
      BY <1>2, <1>4, <2>4, <3>1, <3>2, <3>3, <3>4, ScheduleSane DEF k1
  <2>5. CASE ~Alternate(k, f, p) /\ f.khar /\ p = {}
    <3>1. k1 = [done EXCEPT !.curr = "none", !.dlay = 2 * d, !.space = "char"]
      BY <1>4, <2>5 DEF Finish
    <3>2. 2 * d \in Times
      BY KeyerAssumption DEF Times
    <3> HIDE DEF done, k1
    <3>3. k1 \in Structure
      BY <1>2, <3>1, <3>2 DEF Structure
    <3>4. /\ k1.curr = "none" /\ k1.beep = k.beep /\ k1.elem = k.elem
          /\ ~k1.altrn /\ k1.iamb = "none"
      BY <1>2, <3>1 DEF Structure
    <3>5. QED
      BY <2>1, <2>2, <2>5, <3>3, <3>4, <1>4 DEF Sane, k1
  <2>6. CASE ~Alternate(k, f, p) /\ ~(f.khar /\ p = {})
    <3>1. k1 = [done EXCEPT !.curr = "none"]
      BY <1>4, <2>6 DEF Finish
    <3> HIDE DEF done, k1
    <3>2. k1 \in Structure
      BY <1>2, <3>1 DEF Structure
    <3>3. /\ k1.curr = "none" /\ k1.beep = k.beep /\ k1.elem = k.elem
          /\ ~k1.altrn /\ k1.iamb = "none" /\ k1.dlay = k.dlay
          /\ k1.space = k.space
      BY <1>2, <3>1 DEF Structure
    <3>4. QED
      BY <2>1, <2>2, <2>3, <3>2, <3>3, <1>4 DEF Sane, Counted, k1
  <2>7. QED
    BY <2>4, <2>5, <2>6
<1>5. QED
  BY <1>3, <1>4

LEMMA PickSane ==
  ASSUME NEW f \in FlagSet, NEW k, Sane(k, f), NEW d \in DitLens,
         NEW p \in SUBSET Elements
  PROVE  LET k1 == Pick(k, d, p) IN
         /\ Sane(k1, f)
         /\ k.curr # "none" \/ p = {} => k1 = k
         /\ k1 # k => k1.beep = Beep(k1.curr, k1.unit) /\ k1.curr # "none"
<1> DEFINE e == IF "dah" \in p THEN "dah" ELSE "dit"
<1>1. CASE k.curr # "none" \/ p = {}
  BY <1>1 DEF Pick
<1>2. CASE ~(k.curr # "none" \/ p = {})
  <2>1. Pick(k, d, p) = Schedule(k, e, d)
    BY <1>2 DEF Pick
  <2>2. e \in Elements /\ e # "none"
    BY DEF Elements
  <2>3. k \in Structure /\ (k.dlay > 0 => f.khar) /\ (k.space # "none" => f.khar)
    BY DEF Sane
  <2> HIDE DEF e
  <2>4. QED
    BY <1>2, <2>1, <2>2, <2>3, ScheduleSane
<1>3. QED
  BY <1>1, <1>2

LEMMA RememberSane ==
  ASSUME NEW f \in FlagSet, NEW k, Sane(k, f), NEW p \in SUBSET Elements
  PROVE  LET k1 == Remember(k, f, p) IN
         /\ Sane(k1, f)
         /\ k1.curr = k.curr /\ k1.unit = k.unit /\ k1.beep = k.beep
         /\ k1.elem = k.elem /\ k1.dlay = k.dlay /\ k1.iamb = k.iamb
         /\ p = {} => k1.altrn = k.altrn
<1> DEFINE k1 == Remember(k, f, p)
<1>1. k1 = k \/ (k1 = [k EXCEPT !.altrn = TRUE] /\ p # {})
  BY DEF Remember
<1>2. k \in Structure
  BY DEF Sane
<1> HIDE DEF k1
<1>3. /\ k1 \in Structure
      /\ k1.curr = k.curr /\ k1.unit = k.unit /\ k1.beep = k.beep
      /\ k1.elem = k.elem /\ k1.dlay = k.dlay /\ k1.iamb = k.iamb
      /\ k1.space = k.space
      /\ p = {} => k1.altrn = k.altrn
  BY <1>1, <1>2 DEF Structure
<1>4. QED
  BY <1>3 DEF Sane, Running, k1

LEMMA ForgetSane ==
  ASSUME NEW f \in FlagSet, NEW k, Sane(k, f), NEW p \in SUBSET Elements
  PROVE  LET k1 == Forget(k, f, p) IN
         /\ Sane(k1, f)
         /\ k1.dlay = k.dlay /\ k1.altrn = k.altrn /\ k1.iamb = k.iamb
         /\ ~(k.dlay > 0) => k1 = k
         /\ k1 # k => k1.curr = "none" /\ k1.elem = 0 /\ k.elem > 0 /\ k.dlay > 0
<1> DEFINE k1 == Forget(k, f, p)
<1>1. CASE k1 = k
  BY <1>1
<1>2. CASE k1 # k
  <2>1. /\ k.dlay > 0 /\ k.curr # "none"
        /\ k1 = [k EXCEPT !.curr = "none", !.beep = 0, !.midl = 0, !.elem = 0]
    BY <1>2 DEF Forget
  <2>2. k \in Structure /\ k.elem > 0 /\ f.khar
    BY <2>1 DEF Sane
  <2>4. 0 \in Times
    BY KeyerAssumption DEF Times
  <2> HIDE DEF k1
  <2>5. k1 \in Structure
    BY <2>1, <2>2, <2>4 DEF Structure
  <2>6. /\ k1.curr = "none" /\ k1.beep = 0 /\ k1.elem = 0
        /\ k1.dlay = k.dlay /\ k1.altrn = k.altrn /\ k1.iamb = k.iamb
    BY <2>1, <2>2 DEF Structure
  <2>7. QED
    BY <2>1, <2>2, <2>5, <2>6 DEF Sane, k1
<1>3. QED
  BY <1>1, <1>2

LEMMA NotePaddlesSane ==
  ASSUME NEW f \in FlagSet, NEW k, Sane(k, f), NEW p \in SUBSET Elements
  PROVE  LET k1 == NotePaddles(k, p) IN
         /\ Sane(k1, f)
         /\ k1.curr = k.curr /\ k1.unit = k.unit /\ k1.beep = k.beep
         /\ k1.elem = k.elem /\ k1.dlay = k.dlay /\ k1.iamb = k.iamb
         /\ k1.altrn = k.altrn
<1> DEFINE open == [e \in Elements |-> e \in p]
           k1   == NotePaddles(k, p)
<1>1. open \in [Elements -> BOOLEAN] /\ k1 = [k EXCEPT !.prev = open]
  BY DEF NotePaddles
<1> HIDE DEF open, k1
<1>2. k \in Structure
  BY DEF Sane
<1>3. /\ k1 \in Structure
      /\ k1.curr = k.curr /\ k1.unit = k.unit /\ k1.beep = k.beep
      /\ k1.elem = k.elem /\ k1.dlay = k.dlay /\ k1.iamb = k.iamb
      /\ k1.altrn = k.altrn /\ k1.space = k.space
  BY <1>1, <1>2 DEF Structure
<1>4. QED
  BY <1>3 DEF Sane, Running, k1

-----------------------------------------------------------------------------
(* One whole call.                                                         *)

(* What is left of the space after an element that has sounded.            *)
Rest(k) == IF k.curr # "none" /\ k.beep <= 0 THEN k.elem ELSE 0

LEMMA LogicSane ==
  ASSUME NEW f \in FlagSet, NEW k, Sane(k, f), NEW d \in DitLens,
         NEW p \in SUBSET Elements, NEW t \in TickLens
  PROVE  LET k1 == Logic(k, f, d, p, t) IN
         /\ Sane(k1, f)
         /\ KeyDown(k) =>
              /\ k1.curr = k.curr /\ k1.unit = k.unit /\ k1.dlay = k.dlay
              /\ k1.beep = k.beep - t /\ k1.elem = k.elem - t
         /\ ~KeyDown(k) /\ KeyDown(k1) =>
              /\ Rest(k) <= t
              /\ k1.beep <= Beep(k1.curr, k1.unit)
              /\ k1.beep >= Beep(k1.curr, k1.unit) - (IF f.khar THEN MaxTick ELSE 0)
         /\ ~KeyDown(k) => Rest(k1) >= Rest(k) - t
         /\ p = {} /\ ~k.altrn /\ k.iamb = "none" =>
              k1.elem <= k.elem /\ ~k1.altrn /\ k1.iamb = "none"
         /\ p = {} /\ k1.elem > k.elem => ~k1.altrn /\ k1.iamb = "none"
<1> DEFINE a1 == Prepare(k, p)
           a2 == CountDown(a1, f, d, t)
           a3 == NoteSqueeze(a2, p)
           a4 == Finish(a3, f, d, p)
           a5 == Pick(a4, d, p)
           a6 == Remember(a5, f, p)
           a7 == Forget(a6, f, p)
           k1 == NotePaddles(a7, p)
<1>0. k1 = Logic(k, f, d, p, t)
  BY DEF Logic
<1>1. /\ Sane(a1, f)
      /\ a1.curr = k.curr /\ a1.unit = k.unit /\ a1.beep = k.beep
      /\ a1.elem = k.elem /\ a1.dlay = k.dlay /\ a1.iamb = k.iamb
      /\ a1.altrn = k.altrn
  BY PrepareSane
<1> HIDE DEF a1
<1>2. /\ Counted(a2, f)
      /\ a2.curr = a1.curr /\ a2.unit = a1.unit
      /\ a2.iamb = a1.iamb /\ a2.altrn = a1.altrn
      /\ a2.elem <= a1.elem /\ a2.elem >= a1.elem - t
      /\ a2.beep <= a1.beep /\ a2.beep >= a1.beep - t
      /\ a1.dlay <= 0 /\ a1.curr # "none" =>
           /\ a2.dlay = a1.dlay /\ a2.elem = a1.elem - t
           /\ a2.beep = Less(a1.beep, t)
  BY <1>1, CountDownCounted
<1> HIDE DEF a2
<1>3. /\ Counted(a3, f)
      /\ a3.curr = a2.curr /\ a3.unit = a2.unit /\ a3.beep = a2.beep
      /\ a3.elem = a2.elem /\ a3.dlay = a2.dlay /\ a3.altrn = a2.altrn
      /\ p = {} /\ a2.iamb = "none" => a3.iamb = "none"
  BY <1>2, NoteSqueezeCounted
<1> HIDE DEF a3
<1>4. /\ Sane(a4, f)
      /\ a3.elem > 0 \/ a3.curr = "none" => a4 = a3
      /\ a3.elem <= 0 /\ a3.curr # "none" => ~a4.altrn /\ a4.iamb = "none"
      /\ a4.curr # "none" /\ a4 # a3 =>
           a4.beep = Beep(a4.curr, a4.unit) /\ Alternate(a3, f, p)
  BY <1>3, FinishSane
<1> HIDE DEF a4
<1>5. /\ Sane(a5, f)
      /\ a4.curr # "none" \/ p = {} => a5 = a4
      /\ a5 # a4 => a5.beep = Beep(a5.curr, a5.unit) /\ a5.curr # "none"
  BY <1>4, PickSane
<1> HIDE DEF a5
<1>6. /\ Sane(a6, f)
      /\ a6.curr = a5.curr /\ a6.unit = a5.unit /\ a6.beep = a5.beep
      /\ a6.elem = a5.elem /\ a6.dlay = a5.dlay /\ a6.iamb = a5.iamb
      /\ p = {} => a6.altrn = a5.altrn
  BY <1>5, RememberSane
<1> HIDE DEF a6
<1>7. /\ Sane(a7, f)
      /\ a7.dlay = a6.dlay /\ a7.altrn = a6.altrn /\ a7.iamb = a6.iamb
      /\ ~(a6.dlay > 0) => a7 = a6
      /\ a7 # a6 => a7.curr = "none" /\ a7.elem = 0 /\ a6.elem > 0 /\ a6.dlay > 0
  BY <1>6, ForgetSane
<1> HIDE DEF a7
<1>8. /\ Sane(k1, f)
      /\ k1.curr = a7.curr /\ k1.unit = a7.unit /\ k1.beep = a7.beep
      /\ k1.elem = a7.elem /\ k1.dlay = a7.dlay /\ k1.iamb = a7.iamb
      /\ k1.altrn = a7.altrn
  BY <1>7, NotePaddlesSane
<1> HIDE DEF k1
<1>9. /\ t \in Int /\ t > 0 /\ t <= MaxTick /\ MaxTick \in Int
  BY KeyerAssumption
<1>10. ASSUME NEW x \in {k, a1, a2, a3, a4, a5, a6, a7, k1}
       PROVE  x.beep \in Int /\ x.elem \in Int /\ x.dlay \in Int
  BY <1>1, <1>2, <1>3, <1>4, <1>5, <1>6, <1>7, <1>8
     DEF Sane, Counted, Structure, Times
<1>11. k.curr # "none" => k.elem > 0 /\ k.unit \in DitLens /\ Running(k)
  BY DEF Sane
<1>12. k.curr = "none" => k.beep <= 0 /\ k.elem <= 0
  BY DEF Sane
<1>13. ASSUME KeyDown(k)
       PROVE  /\ k1.curr = k.curr /\ k1.unit = k.unit /\ k1.dlay = k.dlay
              /\ k1.beep = k.beep - t /\ k1.elem = k.elem - t
  <2>1. k.beep > 0 /\ k.dlay <= 0
    BY <1>13 DEF KeyDown
  <2>2. k.curr # "none"
    BY <1>10, <1>12, <2>1
  <2>3. Space(k.unit) \in Int /\ Space(k.unit) >= MaxTick
    BY <1>11, <2>2, Lengths DEF Elements
  <2>4. k.elem - t > 0
    BY <1>9, <1>10, <1>11, <2>1, <2>2, <2>3 DEF Running
  <2>5. /\ a3.curr = k.curr /\ a3.unit = k.unit /\ a3.dlay = k.dlay
        /\ a3.elem = k.elem - t /\ a3.beep = k.beep - t
    BY <1>1, <1>2, <1>3, <2>1, <2>2 DEF Less
  <2>6. a4 = a3 /\ a5 = a4
    BY <1>4, <1>5, <2>2, <2>4, <2>5
  <2>7. ~(a6.dlay > 0)
    BY <1>6, <1>10, <2>1, <2>5, <2>6
  <2>8. QED
    BY <1>6, <1>7, <1>8, <2>5, <2>6, <2>7
<1>14. ASSUME ~KeyDown(k), KeyDown(k1)
       PROVE  /\ Rest(k) <= t
              /\ k1.beep <= Beep(k1.curr, k1.unit)
              /\ k1.beep >= Beep(k1.curr, k1.unit) - (IF f.khar THEN MaxTick ELSE 0)
  <2>1. k1.beep > 0 /\ k1.curr # "none" /\ k1.unit \in DitLens
    BY <1>8, <1>10, <1>14 DEF KeyDown, Sane
  <2>2. Beep(k1.curr, k1.unit) \in Int
    BY <1>8, <2>1, Lengths DEF Sane, Structure
  <2>3. /\ k1.curr = a5.curr /\ k1.unit = a5.unit /\ k1.beep = a5.beep
    BY <1>6, <1>7, <1>8, <2>1
  <2>4. CASE a4 # a3 \/ a5 # a4
    <3>1. k1.beep = Beep(k1.curr, k1.unit)
      BY <1>4, <1>5, <2>1, <2>3, <2>4
    <3>2. Rest(k) <= t
      <4>1. CASE k.curr = "none"
        BY <1>9, <4>1 DEF Rest
      <4>2. CASE k.curr # "none"
        <5>1. a3.elem <= 0
          BY <1>1, <1>2, <1>3, <1>4, <1>5, <1>10, <2>4, <4>2
        <5>2. QED
          BY <1>1, <1>2, <1>3, <1>9, <1>10, <5>1 DEF Rest
      <4>3. QED
        BY <4>1, <4>2
    <3>3. QED
      BY <1>9, <2>2, <3>1, <3>2
  <2>5. CASE a4 = a3 /\ a5 = a4
    <3>1. /\ k1.curr = k.curr /\ k1.unit = k.unit
          /\ k1.beep <= k.beep /\ k1.beep >= k.beep - t
      BY <1>1, <1>2, <1>3, <2>3, <2>5
    <3>2. k.beep > 0 /\ k.dlay > 0
      BY <1>10, <1>14, <2>1, <3>1 DEF KeyDown
    <3>3. f.khar /\ k.beep = Beep(k.curr, k.unit)
      BY <2>1, <3>1, <3>2 DEF Sane
    <3>4. Rest(k) <= t
      BY <1>9, <1>10, <3>2 DEF Rest
    <3>5. QED
      BY <1>9, <1>10, <2>2, <3>1, <3>3, <3>4
  <2>6. QED
    BY <2>4, <2>5
<1>15. Rest(k1) >= Rest(k) - t
  <2>1. Rest(k1) >= 0 /\ Rest(k1) \in Int /\ Rest(k) \in Int
    BY <1>8, <1>10 DEF Sane, Rest
  <2>2. CASE Rest(k) <= t
    BY <1>9, <2>1, <2>2
  <2>3. CASE ~(Rest(k) <= t)
    <3>1. k.curr # "none" /\ k.beep <= 0 /\ k.elem > t /\ Rest(k) = k.elem
      BY <1>9, <1>10, <2>3 DEF Rest
    <3>2. a3.elem > 0 /\ a3.curr # "none" /\ a3.beep <= 0 /\ a3.elem >= k.elem - t
      BY <1>1, <1>2, <1>3, <1>9, <1>10, <3>1
    <3>3. a4 = a3 /\ a5 = a4
      BY <1>4, <1>5, <3>2
    <3>4. ~(a6.dlay > 0)
      <4>1. a6.curr # "none" /\ a6.beep <= 0 /\ a6.unit \in DitLens
        BY <1>6, <3>2, <3>3 DEF Sane
      <4>2. Beep(a6.curr, a6.unit) > 0 /\ Beep(a6.curr, a6.unit) \in Int
        BY <1>6, <4>1, Lengths DEF Sane, Structure
      <4>3. QED
        BY <1>6, <1>10, <4>1, <4>2 DEF Sane
    <3>5. k1.curr # "none" /\ k1.beep <= 0 /\ k1.elem >= k.elem - t
      BY <1>6, <1>7, <1>8, <3>2, <3>3, <3>4
    <3>6. QED
      BY <3>1, <3>5 DEF Rest
  <2>4. QED
    BY <2>2, <2>3
<1>16. ASSUME p = {}, ~k.altrn, k.iamb = "none"
       PROVE  k1.elem <= k.elem /\ ~k1.altrn /\ k1.iamb = "none"
  <2>1. ~a3.altrn /\ a3.iamb = "none" /\ a3.elem <= k.elem
    BY <1>1, <1>2, <1>3, <1>10, <1>16
  <2>2. ~Alternate(a3, f, p)
    BY <1>16, <2>1 DEF Alternate, Elements
  <2>3. a5 = a4 /\ ~a4.altrn /\ a4.iamb = "none"
    BY <1>4, <1>5, <1>10, <1>16, <2>1
  <2>4. a4.elem <= k.elem
    <3>1. CASE a4 = a3
      BY <2>1, <3>1
    <3>2. CASE a4 # a3
      <4>1. a4.curr = "none" /\ a3.curr # "none"
        BY <1>4, <2>2, <3>2
      <4>2. a4.elem <= 0 /\ k.elem > 0
        BY <1>1, <1>2, <1>3, <1>4, <1>11, <4>1 DEF Sane
      <4>3. QED
        BY <1>10, <4>2
    <3>3. QED
      BY <3>1, <3>2
  <2>5. QED
    BY <1>6, <1>7, <1>8, <1>10, <1>16, <2>3, <2>4
<1>17. ASSUME p = {}, k1.elem > k.elem
       PROVE  ~k1.altrn /\ k1.iamb = "none"
  <2>1. a3.elem <= k.elem /\ a5 = a4
    BY <1>1, <1>2, <1>3, <1>5, <1>10, <1>17
  <2>2. k1.elem <= a4.elem
    BY <1>6, <1>7, <1>8, <1>10, <2>1
  <2>3. a4 # a3
    BY <1>10, <1>17, <2>1, <2>2
  <2>4. ~a4.altrn /\ a4.iamb = "none"
    BY <1>4, <1>10, <2>3
  <2>5. QED
    BY <1>6, <1>7, <1>8, <1>17, <2>1, <2>4
<1>18. QED
  BY <1>0, <1>8, <1>13, <1>14, <1>15, <1>16, <1>17

-----------------------------------------------------------------------------
(* The invariant.                                                          *)

Due(k) == Beep(k.curr, k.unit)
Slack  == IF flag.khar THEN MaxTick ELSE 0

(* The part that has sounded and the part to come make up the element.     *)
Sounding ==
  keydown => /\ now = [kind |-> kl.curr, unit |-> kl.unit]
             /\ sounded + kl.beep <= Due(kl)
             /\ sounded + kl.beep >= Due(kl) - Slack

(* The silence so far and the space to come make up the space.             *)
Spacing ==
  ~keydown /\ now # NoElement =>
    AtMost(Space(now.unit), MaxSilence) < silent + MaxTick + Rest(kl)

(* After the element that was owed, nothing asks for another.              *)
Quiet == extra = 1 => ~kl.altrn /\ kl.iamb = "none"

IInv ==
  /\ TypeOK
  /\ Sane(kl, flag)
  /\ keydown = KeyDown(kl)
  /\ now # NoElement => now.kind \in Elements /\ now.unit \in DitLens
  /\ Sounding /\ Spacing
  /\ extra \in 0 .. 1 /\ Quiet

LEMMA InitIInv == Init => IInv
<1> SUFFICES ASSUME Init PROVE IInv
  OBVIOUS
<1> USE DEF Init
<1>1. 0 \in Times /\ MaxSilence \in Nat
  BY KeyerAssumption DEF Times
<1>2. kl \in Structure
  BY <1>1 DEF Structure
<1>3. /\ kl.curr = "none" /\ kl.beep = 0 /\ kl.elem = 0 /\ kl.dlay = 0
      /\ kl.space = "none" /\ ~keydown /\ now = NoElement /\ extra = 0
      /\ sounded = 0 /\ silent = MaxSilence /\ asked = {} /\ squeezed = "no"
      /\ flag \in Flags /\ ditlen \in DitLens /\ keydown \in BOOLEAN
  OBVIOUS
<1>4. NoElement \in [kind : Elements \cup {"none"}, unit : DitLens \cup {0}]
  BY DEF NoElement
<1>5. silent \in 0 .. MaxSilence
  BY <1>1, <1>3
<1> HIDE DEF Init
<1>6. TypeOK
  BY <1>2, <1>3, <1>4, <1>5 DEF TypeOK
<1>7. Sane(kl, flag) /\ keydown = KeyDown(kl)
  BY <1>2, <1>3 DEF Sane, KeyDown
<1>8. QED
  BY <1>3, <1>6, <1>7 DEF IInv, Sounding, Spacing, Quiet

(* What a call does to the invariant, with the call's effect spelt out.    *)
LEMMA StepKlogic ==
  ASSUME IInv, NEW p \in SUBSET Elements, NEW t \in TickLens, Klogic(p, t)
  PROVE  /\ IInv'
         /\ keydown /\ ~keydown' =>
              /\ sounded' >= Beep(now.kind, now.unit) - Slack
              /\ sounded' < Beep(now.kind, now.unit) + MaxTick
         /\ ~keydown /\ keydown' /\ now # NoElement =>
              AtMost(Space(now.unit), MaxSilence) < silent' + MaxTick
<1> DEFINE k1 == Logic(kl, flag, ditlen, p, t)
<1>1. flag \in FlagSet /\ ditlen \in DitLens /\ Sane(kl, flag)
  BY KeyerAssumption DEF IInv, TypeOK
<1>2. /\ Sane(k1, flag)
      /\ KeyDown(kl) =>
           /\ k1.curr = kl.curr /\ k1.unit = kl.unit /\ k1.dlay = kl.dlay
           /\ k1.beep = kl.beep - t /\ k1.elem = kl.elem - t
      /\ ~KeyDown(kl) /\ KeyDown(k1) =>
           /\ Rest(kl) <= t
           /\ k1.beep <= Beep(k1.curr, k1.unit)
           /\ k1.beep >= Beep(k1.curr, k1.unit)
                           - (IF flag.khar THEN MaxTick ELSE 0)
      /\ ~KeyDown(kl) => Rest(k1) >= Rest(kl) - t
      /\ p = {} /\ ~kl.altrn /\ kl.iamb = "none" =>
           k1.elem <= kl.elem /\ ~k1.altrn /\ k1.iamb = "none"
      /\ p = {} /\ k1.elem > kl.elem => ~k1.altrn /\ k1.iamb = "none"
  BY <1>1, LogicSane
<1> HIDE DEF k1
<1>3. kl' = k1 /\ keydown' = KeyDown(k1) /\ UNCHANGED <<flag, ditlen>>
  BY DEF Klogic, k1
<1>4. /\ now' = IF ~keydown /\ KeyDown(k1)
                THEN [kind |-> k1.curr, unit |-> k1.unit] ELSE now
      /\ sounded' = IF keydown THEN sounded + t
                    ELSE IF KeyDown(k1) THEN 0 ELSE sounded
      /\ silent' = IF keydown THEN 0 ELSE AtMost(silent + t, MaxSilence)
      /\ extra' = IF p # {} THEN 0
                  ELSE IF k1.elem > kl.elem THEN extra + 1 ELSE extra
  BY <1>3 DEF Klogic, History, Scheduled
<1>5. asked' \subseteq Elements /\ squeezed' \in {"no", "early", "late"}
  BY DEF Klogic, History, IInv, TypeOK
<1>6. t \in Nat /\ t > 0 /\ t <= MaxTick /\ MaxTick \in Nat /\ MaxSilence \in Nat
  BY KeyerAssumption
<1>7. /\ kl.beep \in Int /\ kl.elem \in Int /\ kl.dlay \in Int
      /\ k1.beep \in Int /\ k1.elem \in Int /\ k1.dlay \in Int
      /\ kl.curr \in Elements \cup {"none"} /\ k1.curr \in Elements \cup {"none"}
      /\ k1 \in Structure
  BY <1>1, <1>2 DEF Sane, Structure, Times
<1>8. /\ sounded \in Nat /\ silent \in 0 .. MaxSilence /\ keydown = KeyDown(kl)
      /\ now \in [kind : Elements \cup {"none"}, unit : DitLens \cup {0}]
      /\ now # NoElement => now.kind \in Elements /\ now.unit \in DitLens
  BY DEF IInv, TypeOK
<1>9. KeyDown(k1) => k1.curr \in Elements /\ k1.unit \in DitLens
  BY <1>2, <1>7 DEF KeyDown, Sane
<1>10. KeyDown(kl) => kl.curr \in Elements /\ kl.unit \in DitLens /\ kl.elem = kl.beep + Space(kl.unit)
  BY <1>1, <1>7 DEF KeyDown, Sane, Running
<1>11. KeyDown(k1) => Due(k1) \in Int
  BY <1>9, Lengths DEF Due
<1>12. KeyDown(kl) => Due(kl) \in Int /\ Space(kl.unit) \in Int
  BY <1>10, Lengths DEF Due
<1>13. Rest(kl) \in Int /\ Rest(k1) \in Int /\ Rest(k1) >= 0
  BY <1>2, <1>7 DEF Rest, Sane
<1>14. now # NoElement => Space(now.unit) \in Int
  BY <1>8, Lengths
<1>15. silent' \in 0 .. MaxSilence
  BY <1>4, <1>6, <1>8 DEF AtMost
<1>16. TypeOK'
  <2>1. now' \in [kind : Elements \cup {"none"}, unit : DitLens \cup {0}]
    BY <1>4, <1>8, <1>9
  <2>2. sounded' \in Nat /\ extra' \in Nat
    BY <1>4, <1>6, <1>8 DEF IInv
  <2>3. keydown' \in BOOLEAN
    BY <1>3 DEF KeyDown
  <2>4. flag' \in Flags /\ ditlen' \in DitLens
    BY <1>3 DEF IInv, TypeOK
  <2>5. QED
    BY <1>3, <1>5, <1>7, <1>15, <2>1, <2>2, <2>3, <2>4 DEF TypeOK
<1>17. Sane(kl', flag') /\ keydown' = KeyDown(kl')
  BY <1>2, <1>3
<1>18. now' # NoElement => now'.kind \in Elements /\ now'.unit \in DitLens
  BY <1>4, <1>8, <1>9
<1>19. Sounding'
  <2> SUFFICES ASSUME KeyDown(k1)
               PROVE  /\ now' = [kind |-> k1.curr, unit |-> k1.unit]
                      /\ sounded' + k1.beep <= Due(k1)
                      /\ sounded' + k1.beep >= Due(k1) - Slack
    BY <1>3 DEF Sounding, Due, Slack
  <2>1. CASE keydown
    <3>1. Due(k1) = Due(kl) /\ now' = now /\ sounded' = sounded + t
      BY <1>2, <1>4, <1>8, <2>1 DEF Due
    <3>2. QED
      BY <1>2, <1>6, <1>7, <1>8, <1>12, <2>1, <3>1 DEF IInv, Sounding, Slack
  <2>2. CASE ~keydown
    <3>1. sounded' = 0 /\ now' = [kind |-> k1.curr, unit |-> k1.unit]
      BY <1>4, <2>2
    <3>2. QED
      BY <1>2, <1>7, <1>8, <1>11, <2>2, <3>1 DEF Due, Slack
  <2>3. QED
    BY <2>1, <2>2, <1>8 DEF KeyDown
<1>20. ASSUME keydown, ~KeyDown(k1)
       PROVE  /\ AtMost(Space(now.unit), MaxSilence) < MaxTick + Rest(k1)
              /\ now.unit = kl.unit /\ now.kind = kl.curr
              /\ k1.beep <= 0
  <2>1. KeyDown(kl) /\ kl.beep > 0 /\ kl.dlay <= 0
    BY <1>8, <1>20 DEF KeyDown
  <2>2. now = [kind |-> kl.curr, unit |-> kl.unit]
    BY <1>20 DEF IInv, Sounding
  <2>3. k1.beep <= 0
    BY <1>2, <1>7, <1>20, <2>1 DEF KeyDown
  <2>4. k1.curr # "none"
    BY <1>2, <1>10, <2>1 DEF Elements
  <2>5. Rest(k1) = kl.beep + Space(kl.unit) - t
    BY <1>2, <1>6, <1>7, <1>10, <1>12, <2>1, <2>3, <2>4 DEF Rest
  <2>6. AtMost(Space(kl.unit), MaxSilence) <= Space(kl.unit)
    BY <1>6, <1>12, <2>1 DEF AtMost
  <2>7. QED
    BY <1>6, <1>7, <1>12, <2>1, <2>2, <2>3, <2>5, <2>6 DEF AtMost
<1>21. Spacing'
  <2> SUFFICES ASSUME ~KeyDown(k1), now' # NoElement
               PROVE  AtMost(Space(now'.unit), MaxSilence)
                        < silent' + MaxTick + Rest(k1)
    BY <1>3 DEF Spacing, Rest
  <2>1. now' = now
    BY <1>4
  <2>2. CASE keydown
    BY <1>4, <1>6, <1>13, <1>20, <2>1, <2>2
  <2>3. CASE ~keydown
    <3>1. AtMost(Space(now.unit), MaxSilence) < silent + MaxTick + Rest(kl)
      BY <2>1, <2>3 DEF IInv, Spacing
    <3>2. silent' = AtMost(silent + t, MaxSilence)
      BY <1>4, <2>3
    <3>3. Rest(k1) >= Rest(kl) - t
      BY <1>2, <1>8, <2>3
    <3>4. QED
      BY <1>6, <1>8, <1>13, <1>14, <2>1, <3>1, <3>2, <3>3 DEF AtMost
  <2>4. QED
    BY <2>2, <2>3
<1>22. extra' \in 0 .. 1 /\ Quiet'
  <2>1. extra \in 0 .. 1 /\ Quiet
    BY DEF IInv
  <2>2. QED
    BY <1>2, <1>3, <1>4, <1>7, <2>1 DEF Quiet
<1>23. IInv'
  BY <1>16, <1>17, <1>18, <1>19, <1>21, <1>22 DEF IInv
<1>24. ASSUME keydown, ~keydown'
       PROVE  /\ sounded' >= Beep(now.kind, now.unit) - Slack
              /\ sounded' < Beep(now.kind, now.unit) + MaxTick
  <2>1. k1.beep <= 0 /\ Beep(now.kind, now.unit) = Due(kl)
    BY <1>3, <1>20, <1>24 DEF Due
  <2>2. k1.beep = kl.beep - t /\ kl.beep > 0 /\ sounded' = sounded + t
    BY <1>2, <1>4, <1>8, <1>24 DEF KeyDown
  <2>3. Due(kl) \in Int /\ Slack \in Int
    BY <1>6, <1>8, <1>12, <1>24 DEF Slack
  <2>4. sounded + kl.beep <= Due(kl) /\ sounded + kl.beep >= Due(kl) - Slack
    BY <1>24 DEF IInv, Sounding
  <2>5. QED
    BY <1>6, <1>7, <1>8, <2>1, <2>2, <2>3, <2>4
<1>25. ASSUME ~keydown, keydown', now # NoElement
       PROVE  AtMost(Space(now.unit), MaxSilence) < silent' + MaxTick
  <2>1. AtMost(Space(now.unit), MaxSilence) < silent + MaxTick + Rest(kl)
    BY <1>25 DEF IInv, Spacing
  <2>2. silent' = AtMost(silent + t, MaxSilence) /\ Rest(kl) <= t
    BY <1>2, <1>3, <1>4, <1>8, <1>25
  <2>3. QED
    BY <1>6, <1>8, <1>13, <1>14, <1>25, <2>1, <2>2 DEF AtMost
<1>26. QED
  BY <1>23, <1>24, <1>25

LEMMA StepIInv == IInv /\ [Next]_vars => IInv'
<1> SUFFICES ASSUME IInv, [Next]_vars PROVE IInv'
  OBVIOUS
<1>1. ASSUME NEW p \in SUBSET Elements, NEW t \in TickLens, Klogic(p, t)
      PROVE  IInv'
  BY <1>1, StepKlogic
<1> USE DEF IInv, TypeOK, Sane, Structure, KeyDown, Sounding, Spacing, Quiet,
            Running, Due, Slack, Rest
<1>2. CASE SetWpm
  BY <1>2 DEF SetWpm
<1>3. CASE UNCHANGED vars
  BY <1>3 DEF vars
<1>4. QED
  BY <1>1, <1>2, <1>3 DEF Next

(* The structure and the settings keep their types.                        *)
THEOREM TypeCorrect == Spec => []TypeOK
<1>1. IInv => TypeOK
  BY DEF IInv
<1>2. QED
  BY <1>1, InitIInv, StepIInv, PTL DEF Spec

(* An element that has begun sounds to its end, at any speed and weight,   *)
(* however often ticks are missed.                                         *)
THEOREM ElementsWhole == Spec => WholeElements
<1> DEFINE A == keydown /\ ~keydown' =>
                  LET due == Beep(now.kind, now.unit) IN
                  /\ sounded' >= due - (IF flag.khar THEN MaxTick ELSE 0)
                  /\ sounded' < due + MaxTick
<1>1. IInv /\ [Next]_vars => [A]_vars
  <2> SUFFICES ASSUME IInv, Next PROVE A
    OBVIOUS
  <2>1. CASE SetWpm
    BY <2>1 DEF SetWpm
  <2>2. ASSUME NEW p \in SUBSET Elements, NEW t \in TickLens, Klogic(p, t)
        PROVE  A
    BY <2>2, StepKlogic DEF Slack
  <2>3. QED
    BY <2>1, <2>2 DEF Next
<1>2. QED
  BY <1>1, InitIInv, StepIInv, PTL DEF Spec, WholeElements

(* Two elements never run together.                                        *)
THEOREM ElementsApart == Spec => SpaceKept
<1> DEFINE A == ~keydown /\ keydown' /\ now # NoElement =>
                  AtMost(Space(now.unit), MaxSilence) < silent' + MaxTick
<1>1. IInv /\ [Next]_vars => [A]_vars
  <2> SUFFICES ASSUME IInv, Next PROVE A
    OBVIOUS
  <2>1. CASE SetWpm
    BY <2>1 DEF SetWpm
  <2>2. ASSUME NEW p \in SUBSET Elements, NEW t \in TickLens, Klogic(p, t)
        PROVE  A
    BY <2>2, StepKlogic
  <2>3. QED
    BY <2>1, <2>2 DEF Next
<1>2. QED
  BY <1>1, InitIInv, StepIInv, PTL DEF Spec, SpaceKept

(* With both paddles open at most one more element is sent.                *)
THEOREM OnlyWhatWasAsked == Spec => []NothingUnasked
<1>1. IInv => NothingUnasked
  BY DEF IInv, NothingUnasked
<1>2. QED
  BY <1>1, InitIInv, StepIInv, PTL DEF Spec

-----------------------------------------------------------------------------
(* KeyerThreads                                                            *)

(* The places a thread goes through.                                       *)
KeyPlaces    == {"tick", "read", "clear", "test", "on", "onfall", "play",
                 "off", "post"}
PlayPlaces   == {"wait", "silence", "stage", "sample", "return"}
UpdatePlaces == {"read", "wait", "rise", "fall"}

ThreadPlaces ==
  /\ DOMAIN pc = Threads
  /\ pc["key"] \in KeyPlaces
  /\ pc["play"] \in PlayPlaces
  /\ pc["update"] \in UpdatePlaces

(* A tone is in the making only while playing, a new one is begun only     *)
(* while not.                                                              *)
TurnInv ==
  /\ pc["play"] \in {"stage", "sample", "return"} => playing
  /\ pc["key"] \in {"on", "onfall", "play"} => ~playing

(* The level follows from the counts of the rise and of the fall: it has   *)
(* climbed, it has come down from the full level or from where the rise    *)
(* ended, or it is back at zero.                                           *)
Height(h, w) == h * Incr(w)
Rising(g)  == g.curr = Height(g.riseHave, g.riseWant) /\ g.fallHave = 0
Steady(g)  == g.curr = Full /\ g.riseHave = g.riseWant /\ g.fallHave = 0
Resting(g) == g.curr = 0 /\ g.fallHave = g.fallWant
Falling(g) ==
  \/ Resting(g)
  \/ g.curr = Full - Height(g.fallHave, g.fallWant)
  \/ g.curr = Height(g.riseHave, g.riseWant) - Height(g.fallHave, g.fallWant)

(* What the level is in each stage; halfway through CWToneOn the stage is  *)
(* the one of the last tone.                                               *)
LevelInv ==
  /\ pc["key"] = "onfall" => gen.curr = 0 /\ gen.riseHave = 0
  /\ pc["key"] # "onfall" =>
       /\ gen.stage = "RISE" => Rising(gen)
       /\ gen.stage = "STDY" => Steady(gen)
       /\ gen.stage = "FALL" => Falling(gen)
       /\ gen.stage = "HOLD" => Resting(gen)
  /\ pc["key"] = "play" => gen.stage = "RISE" /\ gen.riseHave = 0
  /\ ~playing /\ pc["key"] \notin {"onfall", "play"} =>
       gen.stage \in {"HOLD", "FALL"} /\ Resting(gen)

(* The stage the sound thread has read may be out of date, but only so far *)
(* as the key thread may have asked for the fall.                          *)
StageInv ==
  /\ pc["play"] = "sample" => sample < Size
  /\ pc["play"] = "sample" /\ stage = "RISE" =>
       gen.stage \in {"RISE", "FALL"} /\ Rising(gen)
  /\ pc["play"] = "sample" /\ stage = "FALL" => gen.stage = "FALL"
  /\ pc["play"] = "return" /\ stage = "HOLD" =>
       gen.stage \in {"HOLD", "FALL"} /\ Resting(gen)

(* The counts do not pass their ends.                                      *)
CountsInv ==
  gen.riseHave \in 0 .. gen.riseWant /\ gen.fallHave \in 0 .. gen.fallWant

ThreadsInv ==
  ThreadsTypeOK /\ ThreadPlaces /\ TurnInv /\ CountsInv /\ LevelInv /\ StageInv

-----------------------------------------------------------------------------
(* A step of the envelope is a number.                                     *)
LEMMA IncrIsNat == ASSUME NEW w \in Nat PROVE Incr(w) \in Nat
<1>1. CASE w <= 1
  BY <1>1, ThreadsAssumption DEF Incr
<1>2. CASE w > 1
  <2>1. w - 1 \in Nat /\ w - 1 > 0 /\ Full \in Nat
    BY <1>2, ThreadsAssumption
  <2>2. Full \div (w - 1) \in Nat
    BY <2>1
  <2>3. QED
    BY <1>2, <2>2 DEF Incr
<1>3. QED
  BY <1>1, <1>2

(* One more step up, or down, is one more step.                            *)
LEMMA OneStep ==
  ASSUME NEW w \in Nat, NEW h \in Nat
  PROVE  Height(h, w) \in Nat /\ Height(h + 1, w) = Height(h, w) + Incr(w)
         /\ Height(0, w) = 0
<1> DEFINE i == Incr(w)
<1>1. i \in Nat
  BY IncrIsNat
<1> HIDE DEF i
<1>2. h * i \in Nat /\ (h + 1) * i = h * i + i /\ 0 * i = 0
  BY <1>1
<1>3. QED
  BY <1>2 DEF Height, i

(* A complete rise, or fall, goes to the full level or one step beyond.    *)
LEMMA FullHeight ==
  ASSUME NEW w \in Ramps, w > 0
  PROVE  Height(w, w) = Full \/ Height(w, w) = Full + Incr(w)
<1>1. w \in Nat /\ Full \in Nat
  BY ThreadsAssumption
<1>2. CASE w = 1
  BY <1>1, <1>2 DEF Height, Incr
<1>3. CASE w > 1
  <2> DEFINE n == w - 1
             q == Full \div n
  <2>1. n \in Nat /\ n > 0 /\ Full % n = 0 /\ w = n + 1
    BY <1>1, <1>3, ThreadsAssumption
  <2>2. Full = n * q + (Full % n) /\ q \in Nat
    <3> HIDE DEF n
    <3>1. QED
      BY <1>1, <2>1
  <2>3. Height(w, w) = w * q /\ Incr(w) = q
    BY <1>3, <1>1 DEF Height, Incr
  <2> HIDE DEF n, q
  <2>4. (n + 1) * q = n * q + q
    BY <2>1, <2>2
  <2>5. QED
    BY <1>1, <2>1, <2>2, <2>3, <2>4
<1>4. QED
  BY <1>1, <1>2, <1>3

-----------------------------------------------------------------------------
(* The keyer starts at rest.                                               *)
LEMMA InitThreadsInv == ThreadsInit => ThreadsInv
<1> SUFFICES ASSUME ThreadsInit PROVE ThreadsInv
  OBVIOUS
<1>1. PICK w \in Ramps :
        gen = [stage |-> "HOLD", curr |-> 0, riseDur |-> w, fallDur |-> w,
               riseWant |-> 0, riseHave |-> 0, fallWant |-> 0, fallHave |-> 0]
        /\ ramp = w
  BY DEF ThreadsInit
<1>2. pc = [key |-> "tick", play |-> "wait", update |-> "read"]
  BY DEF ThreadsInit
<1>3. pc["key"] = "tick" /\ pc["play"] = "wait" /\ pc["update"] = "read"
      /\ DOMAIN pc = Threads
  BY <1>2 DEF Threads
<1>4. ThreadsTypeOK
  <2>1. pc \in [Threads -> {"post", "tick", "read", "clear",
                         "test", "on", "onfall", "play", "off", "wait",
                         "silence", "stage", "sample", "return", "rise", "fall"}]
    BY <1>2 DEF Threads
  <2>2. gen \in Generator /\ ramp \in Ramps
    BY <1>1 DEF Generator, Stages
  <2>3. sample \in 0 .. Size /\ updates \in 0 .. MaxUpdates
    BY ThreadsAssumption DEF ThreadsInit
  <2>4. /\ poll_action \in 0 .. MaxPosts /\ clock_fired \in 0 .. MaxPosts
        /\ update_ok \in 0 .. MaxPosts
    BY ThreadsAssumption DEF ThreadsInit
  <2>5. QED
    BY <2>1, <2>2, <2>3, <2>4 DEF ThreadsInit, ThreadsTypeOK, Stages
<1>5. ThreadPlaces
  BY <1>3 DEF ThreadPlaces, KeyPlaces, PlayPlaces, UpdatePlaces
<1>6. TurnInv
  BY <1>3 DEF TurnInv
<1>7. CountsInv
  BY <1>1 DEF CountsInv
<1>8. Resting(gen) /\ gen.stage = "HOLD"
  BY <1>1 DEF Resting
<1>9. LevelInv /\ StageInv
  BY <1>3, <1>8 DEF LevelInv, StageInv
<1>10. QED
  BY <1>4, <1>5, <1>6, <1>7, <1>9 DEF ThreadsInv

(* A thread goes on, and the others stay where they are.                   *)
KeyGoes(l) ==
  /\ DOMAIN pc' = Threads /\ pc'["key"] = l
  /\ pc'["play"] = pc["play"] /\ pc'["update"] = pc["update"]
PlayGoes(l) ==
  /\ DOMAIN pc' = Threads /\ pc'["play"] = l
  /\ pc'["key"] = pc["key"] /\ pc'["update"] = pc["update"]
UpdateGoes(l) ==
  /\ DOMAIN pc' = Threads /\ pc'["update"] = l
  /\ pc'["key"] = pc["key"] /\ pc'["play"] = pc["play"]

LEMMA ThreadGoes ==
  ASSUME ThreadPlaces, NEW l
  PROVE  /\ Goto("key", l) => KeyGoes(l)
         /\ Goto("play", l) => PlayGoes(l)
         /\ Goto("update", l) => UpdateGoes(l)
<1>1. "key" \in Threads /\ "play" \in Threads /\ "update" \in Threads
      /\ "key" # "play" /\ "key" # "update" /\ "play" # "update"
  BY DEF Threads
<1>2. QED
  BY <1>1 DEF ThreadPlaces, Goto, KeyGoes, PlayGoes, UpdateGoes

(* What becomes of the generator when some of its fields are set.          *)
LEMMA Changes ==
  ASSUME NEW g \in Generator, NEW h \in Nat, NEW v \in Int, NEW w \in Ramps,
         NEW s \in Stages
  PROVE  /\ [g EXCEPT !.riseHave = h, !.curr = v] \in Generator
         /\ [g EXCEPT !.fallHave = h, !.curr = v] \in Generator
         /\ [g EXCEPT !.curr = v, !.stage = s] \in Generator
         /\ [g EXCEPT !.curr = v, !.riseWant = w, !.riseHave = h] \in Generator
         /\ [g EXCEPT !.stage = s, !.fallWant = w, !.fallHave = h] \in Generator
         /\ [g EXCEPT !.stage = s] \in Generator
         /\ [g EXCEPT !.riseDur = w] \in Generator
         /\ [g EXCEPT !.fallDur = w] \in Generator
BY DEF Generator

(* The fields of the generator, for steps that look at them one by one.    *)
LEMMA Fields ==
  ASSUME ThreadsTypeOK
  PROVE  /\ gen \in Generator /\ gen.stage \in Stages /\ gen.curr \in Int
         /\ gen.riseDur \in Ramps /\ gen.fallDur \in Ramps
         /\ gen.riseHave \in Nat /\ gen.fallHave \in Nat
         /\ gen.riseWant \in Nat /\ gen.fallWant \in Nat
         /\ gen.riseWant \in Ramps \cup {0} /\ gen.fallWant \in Ramps \cup {0}
         /\ Incr(gen.riseWant) \in Nat /\ Incr(gen.fallWant) \in Nat
<1>1. /\ gen \in Generator /\ gen.stage \in Stages /\ gen.curr \in Int
      /\ gen.riseDur \in Ramps /\ gen.fallDur \in Ramps
      /\ gen.riseHave \in Nat /\ gen.fallHave \in Nat
      /\ gen.riseWant \in Ramps \cup {0} /\ gen.fallWant \in Ramps \cup {0}
  BY DEF ThreadsTypeOK, Generator
<1>2. gen.riseWant \in Nat /\ gen.fallWant \in Nat
  <2>1. Ramps \cup {0} \subseteq Nat
    BY ThreadsAssumption
  <2>2. QED
    BY <1>1, <2>1
<1>3. QED
  BY <1>1, <1>2, IncrIsNat

(* Every variable keeps its type.                                          *)
LEMMA EnvelopeTyped ==
  ASSUME ThreadsTypeOK
  PROVE  Envelope(gen) \in Generator
<1> DEFINE up == gen.curr + Incr(gen.riseWant)
           down == gen.curr - Incr(gen.fallWant)
<1>1. /\ up \in Int /\ down \in Int /\ gen \in Generator
      /\ gen.riseHave + 1 \in Nat /\ gen.fallHave + 1 \in Nat
      /\ Full \in Int /\ 0 \in Int
      /\ "STDY" \in Stages /\ "HOLD" \in Stages /\ gen.riseDur \in Ramps
  BY Fields, ThreadsAssumption DEF Stages
<1> HIDE DEF up, down
<1>2. /\ [gen EXCEPT !.riseHave = gen.riseHave + 1, !.curr = up] \in Generator
      /\ [gen EXCEPT !.fallHave = gen.fallHave + 1, !.curr = down] \in Generator
      /\ [gen EXCEPT !.curr = Full, !.stage = "STDY"] \in Generator
      /\ [gen EXCEPT !.curr = 0, !.stage = "HOLD"] \in Generator
  BY <1>1, Changes
<1>3. QED
  BY <1>1, <1>2 DEF Envelope, up, down

LEMMA StepTyped == ThreadsInv /\ [ThreadsNext]_threadVars => ThreadsTypeOK'
<1> SUFFICES ASSUME ThreadsInv, [ThreadsNext]_threadVars PROVE ThreadsTypeOK'
  OBVIOUS
<1>0. ThreadsTypeOK /\ StageInv
  BY DEF ThreadsInv
<1> USE <1>0, ThreadsAssumption DEF ThreadsTypeOK, Threads, Stages, Goto
<1>1. CASE MoveKey
  BY <1>1 DEF MoveKey
<1>2. CASE PollThread
  BY <1>2 DEF PollThread
<1>3. CASE KeyTick
  BY <1>3 DEF KeyTick
<1>4. CASE KeyRead
  BY <1>4 DEF KeyRead
<1>5. CASE KeyClear
  BY <1>5 DEF KeyClear
<1>6. CASE KeyTest
  BY <1>6 DEF KeyTest
<1>7. CASE CWToneOn
  <2>1. gen' \in Generator
    <3>1. gen \in Generator /\ gen.riseDur \in Ramps /\ 0 \in Nat /\ 0 \in Int
      BY Fields
    <3>2. [gen EXCEPT !.curr = 0, !.riseWant = gen.riseDur, !.riseHave = 0]
            \in Generator
      BY <3>1, Changes
    <3>3. QED
      BY <1>7, <3>2 DEF CWToneOn
  <2>2. QED
    BY <1>7, <2>1 DEF CWToneOn
<1>8. CASE CWToneOnFall
  <2>1. gen' \in Generator
    BY <1>8, Fields, Changes DEF CWToneOnFall
  <2>2. QED
    BY <1>8, <2>1 DEF CWToneOnFall
<1>9. CASE KeyPlay
  BY <1>9 DEF KeyPlay
<1>10. CASE CWToneOff
  <2>1. gen' \in Generator
    BY <1>10, Fields, Changes DEF CWToneOff
  <2>2. QED
    BY <1>10, <2>1 DEF CWToneOff
<1>11. CASE KeyPost
  BY <1>11 DEF KeyPost
<1>12. CASE PlayTick
  BY <1>12 DEF PlayTick
<1>13. CASE PlaySilence
  BY <1>13 DEF PlaySilence, Bounded
<1>14. CASE SampleStage
  BY <1>14, Fields DEF SampleStage
<1>15. CASE Sample
  <2>1. gen' \in Generator
    BY <1>15, EnvelopeTyped DEF Sample
  <2>2. sample' \in 0 .. Size
    BY <1>15 DEF Sample, StageInv
  <2>3. QED
    BY <1>15, <2>1, <2>2 DEF Sample
<1>16. CASE ToneReturn
  BY <1>16, Fields DEF ToneReturn
<1>17. CASE PlayReturn
  BY <1>17 DEF PlayReturn
<1>18. CASE ReadCommand
  BY <1>18 DEF ReadCommand
<1>19. CASE WaitUpdate
  BY <1>19 DEF WaitUpdate
<1>20. CASE SetRise
  <2>1. gen' \in Generator
    BY <1>20, Fields, Changes DEF SetRise
  <2>2. QED
    BY <1>20, <2>1 DEF SetRise
<1>21. CASE SetFall
  <2>1. gen' \in Generator
    BY <1>21, Fields, Changes DEF SetFall
  <2>2. QED
    BY <1>21, <2>1 DEF SetFall
<1>22. CASE UNCHANGED threadVars
  BY <1>22 DEF threadVars
<1>23. QED
  BY <1>1, <1>2, <1>3, <1>4, <1>5, <1>6, <1>7, <1>8, <1>9, <1>10, <1>11,
     <1>12, <1>13, <1>14, <1>15, <1>16, <1>17, <1>18, <1>19, <1>20, <1>21,
     <1>22 DEF ThreadsNext, KeyThread, PlayThread, UpdateThread

(* Every thread stays in its program.                                      *)
LEMMA StepPlaces == ThreadsInv /\ [ThreadsNext]_threadVars => ThreadPlaces'
<1> SUFFICES ASSUME ThreadsInv, [ThreadsNext]_threadVars PROVE ThreadPlaces'
  OBVIOUS
<1>0. ThreadPlaces
  BY DEF ThreadsInv
<1> USE DEF ThreadPlaces, KeyPlaces, PlayPlaces, UpdatePlaces, KeyGoes, PlayGoes,
            UpdateGoes
<1>1. CASE MoveKey
  BY <1>0, <1>1, ThreadGoes DEF MoveKey
<1>2. CASE PollThread
  BY <1>0, <1>2, ThreadGoes DEF PollThread
<1>3. CASE KeyTick
  BY <1>0, <1>3, ThreadGoes DEF KeyTick
<1>4. CASE KeyRead
  BY <1>0, <1>4, ThreadGoes DEF KeyRead
<1>5. CASE KeyClear
  BY <1>0, <1>5, ThreadGoes DEF KeyClear
<1>6. CASE KeyTest
  BY <1>0, <1>6, ThreadGoes DEF KeyTest
<1>7. CASE CWToneOn
  BY <1>0, <1>7, ThreadGoes DEF CWToneOn
<1>8. CASE CWToneOnFall
  BY <1>0, <1>8, ThreadGoes DEF CWToneOnFall
<1>9. CASE KeyPlay
  BY <1>0, <1>9, ThreadGoes DEF KeyPlay
<1>10. CASE CWToneOff
  BY <1>0, <1>10, ThreadGoes DEF CWToneOff
<1>11. CASE KeyPost
  BY <1>0, <1>11, ThreadGoes DEF KeyPost
<1>12. CASE PlayTick
  BY <1>0, <1>12, ThreadGoes DEF PlayTick
<1>13. CASE PlaySilence
  BY <1>0, <1>13, ThreadGoes DEF PlaySilence
<1>14. CASE SampleStage
  BY <1>0, <1>14, ThreadGoes DEF SampleStage
<1>15. CASE Sample
  BY <1>0, <1>15, ThreadGoes DEF Sample
<1>16. CASE ToneReturn
  BY <1>0, <1>16, ThreadGoes DEF ToneReturn
<1>17. CASE PlayReturn
  BY <1>0, <1>17, ThreadGoes DEF PlayReturn
<1>18. CASE ReadCommand
  BY <1>0, <1>18, ThreadGoes DEF ReadCommand
<1>19. CASE WaitUpdate
  BY <1>0, <1>19, ThreadGoes DEF WaitUpdate
<1>20. CASE SetRise
  BY <1>0, <1>20, ThreadGoes DEF SetRise
<1>21. CASE SetFall
  BY <1>0, <1>21, ThreadGoes DEF SetFall
<1>22. CASE UNCHANGED threadVars
  BY <1>0, <1>22 DEF threadVars
<1>23. QED
  BY <1>1, <1>2, <1>3, <1>4, <1>5, <1>6, <1>7, <1>8, <1>9, <1>10, <1>11,
     <1>12, <1>13, <1>14, <1>15, <1>16, <1>17, <1>18, <1>19, <1>20, <1>21,
     <1>22 DEF ThreadsNext, KeyThread, PlayThread, UpdateThread

(* Tones are not begun while one is in the making.                         *)
LEMMA StepTurn == ThreadsInv /\ [ThreadsNext]_threadVars => TurnInv'
<1> SUFFICES ASSUME ThreadsInv, [ThreadsNext]_threadVars PROVE TurnInv'
  OBVIOUS
<1>0. ThreadPlaces /\ TurnInv /\ playing \in BOOLEAN
  BY DEF ThreadsInv, ThreadsTypeOK
<1> USE DEF TurnInv, KeyGoes, PlayGoes, UpdateGoes
<1>1. CASE MoveKey
  BY <1>0, <1>1, ThreadGoes DEF MoveKey
<1>2. CASE PollThread
  BY <1>0, <1>2, ThreadGoes DEF PollThread
<1>3. CASE KeyTick
  BY <1>0, <1>3, ThreadGoes DEF KeyTick
<1>4. CASE KeyRead
  BY <1>0, <1>4, ThreadGoes DEF KeyRead
<1>5. CASE KeyClear
  BY <1>0, <1>5, ThreadGoes DEF KeyClear
<1>6. CASE KeyTest
  BY <1>0, <1>6, ThreadGoes DEF KeyTest
<1>7. CASE CWToneOn
  BY <1>0, <1>7, ThreadGoes DEF CWToneOn
<1>8. CASE CWToneOnFall
  BY <1>0, <1>8, ThreadGoes DEF CWToneOnFall
<1>9. CASE KeyPlay
  BY <1>0, <1>9, ThreadGoes DEF KeyPlay
<1>10. CASE CWToneOff
  BY <1>0, <1>10, ThreadGoes DEF CWToneOff
<1>11. CASE KeyPost
  BY <1>0, <1>11, ThreadGoes DEF KeyPost
<1>12. CASE PlayTick
  BY <1>0, <1>12, ThreadGoes DEF PlayTick
<1>13. CASE PlaySilence
  BY <1>0, <1>13, ThreadGoes DEF PlaySilence
<1>14. CASE SampleStage
  BY <1>0, <1>14, ThreadGoes DEF SampleStage
<1>15. CASE Sample
  BY <1>0, <1>15, ThreadGoes DEF Sample
<1>16. CASE ToneReturn
  BY <1>0, <1>16, ThreadGoes DEF ToneReturn
<1>17. CASE PlayReturn
  BY <1>0, <1>17, ThreadGoes DEF PlayReturn
<1>18. CASE ReadCommand
  BY <1>0, <1>18, ThreadGoes DEF ReadCommand
<1>19. CASE WaitUpdate
  BY <1>0, <1>19, ThreadGoes DEF WaitUpdate
<1>20. CASE SetRise
  BY <1>0, <1>20, ThreadGoes DEF SetRise
<1>21. CASE SetFall
  BY <1>0, <1>21, ThreadGoes DEF SetFall
<1>22. CASE UNCHANGED threadVars
  BY <1>0, <1>22 DEF threadVars
<1>23. QED
  BY <1>1, <1>2, <1>3, <1>4, <1>5, <1>6, <1>7, <1>8, <1>9, <1>10, <1>11,
     <1>12, <1>13, <1>14, <1>15, <1>16, <1>17, <1>18, <1>19, <1>20, <1>21,
     <1>22 DEF ThreadsNext, KeyThread, PlayThread, UpdateThread

(* A step of the envelope keeps the level to the counts.                   *)
LEMMA EnvelopeSteps ==
  ASSUME ThreadsInv, pc["play"] = "sample", NEW e, e = Envelope(gen)
  PROVE  /\ e.riseHave \in 0 .. e.riseWant /\ e.fallHave \in 0 .. e.fallWant
         /\ e.stage = "RISE" => Rising(e)
         /\ e.stage = "STDY" => Steady(e)
         /\ e.stage = "FALL" => Falling(e)
         /\ e.stage = "HOLD" => Resting(e)
<1> DEFINE up == gen.curr + Incr(gen.riseWant)
           down == gen.curr - Incr(gen.fallWant)
           rh == gen.riseHave + 1
           fh == gen.fallHave + 1
<1>0. /\ gen \in Generator /\ ThreadsTypeOK /\ pc["key"] # "onfall"
      /\ CountsInv /\ LevelInv /\ StageInv
  BY DEF ThreadsInv, ThreadsTypeOK, TurnInv
<1>1. /\ Height(rh, gen.riseWant) =
           Height(gen.riseHave, gen.riseWant) + Incr(gen.riseWant)
      /\ Height(fh, gen.fallWant) = Height(gen.fallHave, gen.fallWant) + Incr(gen.fallWant)
      /\ Height(gen.riseHave, gen.riseWant) \in Nat
      /\ Height(gen.fallHave, gen.fallWant) \in Nat
      /\ Height(gen.riseWant, gen.riseWant) \in Nat
      /\ Height(0, gen.fallWant) = 0
  BY <1>0, Fields, OneStep
<1>2. /\ rh \in Nat /\ fh \in Nat /\ up \in Int /\ down \in Int
      /\ up = gen.curr + Incr(gen.riseWant) /\ down = gen.curr - Incr(gen.fallWant)
      /\ rh = gen.riseHave + 1 /\ fh = gen.fallHave + 1
  BY <1>0, Fields
<1>3. /\ gen.riseHave \in 0 .. gen.riseWant /\ gen.fallHave \in 0 .. gen.fallWant
      /\ gen.riseWant \in Nat /\ gen.fallWant \in Nat /\ gen.curr \in Int
      /\ Incr(gen.riseWant) \in Nat /\ Incr(gen.fallWant) \in Nat
      /\ stage \in Stages /\ gen.stage \in Stages /\ Full \in Int
  BY <1>0, Fields, ThreadsAssumption DEF CountsInv, ThreadsTypeOK
<1>4. CASE stage = "RISE"
  <2>1. CASE gen.riseHave < gen.riseWant
    <3>1. e = [gen EXCEPT !.riseHave = rh, !.curr = up]
      BY <1>4, <2>1 DEF Envelope
    <3> HIDE DEF up, down, rh, fh
    <3>2. /\ e.riseHave = rh /\ e.curr = up /\ e.stage = gen.stage
          /\ e.riseWant = gen.riseWant /\ e.fallHave = gen.fallHave
          /\ e.fallWant = gen.fallWant
      BY <1>0, <1>2, <3>1 DEF Generator
    <3>3. gen.stage \in {"RISE", "FALL"} /\ Rising(gen)
      BY <1>0, <1>4 DEF StageInv
    <3>4. QED
      BY <1>1, <1>2, <1>3, <2>1, <3>2, <3>3
         DEF Rising, Falling, Steady, Resting
  <2>2. CASE ~(gen.riseHave < gen.riseWant)
    <3>1. e = [gen EXCEPT !.curr = Full, !.stage = "STDY"]
      BY <1>4, <2>2 DEF Envelope
    <3> HIDE DEF up, down, rh, fh
    <3>2. /\ e.riseHave = gen.riseHave /\ e.curr = Full /\ e.stage = "STDY"
          /\ e.riseWant = gen.riseWant /\ e.fallHave = gen.fallHave
          /\ e.fallWant = gen.fallWant
      BY <1>0, <1>2, <1>3, <3>1 DEF Generator
    <3>3. gen.fallHave = 0
      BY <1>0, <1>4 DEF StageInv, Rising
    <3>4. QED
      BY <1>3, <2>2, <3>2, <3>3 DEF Steady
  <2>3. QED
    BY <2>1, <2>2
<1>5. CASE stage = "FALL"
  <2>0. gen.stage = "FALL" /\ Falling(gen)
    BY <1>0, <1>5 DEF StageInv, LevelInv
  <2>1. CASE gen.fallHave < gen.fallWant
    <3>1. e = [gen EXCEPT !.fallHave = fh, !.curr = down]
      BY <1>5, <2>1 DEF Envelope
    <3> HIDE DEF up, down, rh, fh
    <3>2. /\ e.fallHave = fh /\ e.curr = down /\ e.stage = gen.stage
          /\ e.riseWant = gen.riseWant /\ e.riseHave = gen.riseHave
          /\ e.fallWant = gen.fallWant
      BY <1>0, <1>2, <3>1 DEF Generator
    <3>3. Falling(e)
      BY <1>1, <1>2, <1>3, <2>0, <2>1, <3>2
         DEF Falling, Resting
    <3>4. QED
      BY <1>2, <1>3, <2>0, <2>1, <3>2, <3>3
  <2>2. CASE ~(gen.fallHave < gen.fallWant)
    <3>1. e = [gen EXCEPT !.curr = 0, !.stage = "HOLD"]
      BY <1>5, <2>2 DEF Envelope
    <3> HIDE DEF up, down, rh, fh
    <3>2. /\ e.riseHave = gen.riseHave /\ e.curr = 0 /\ e.stage = "HOLD"
          /\ e.riseWant = gen.riseWant /\ e.fallHave = gen.fallHave
          /\ e.fallWant = gen.fallWant
      BY <1>0, <1>2, <1>3, <3>1 DEF Generator
    <3>3. QED
      BY <1>3, <2>2, <3>2 DEF Resting
  <2>3. QED
    BY <2>1, <2>2
<1>6. CASE stage \notin {"RISE", "FALL"}
  <2>1. e = gen
    BY <1>6 DEF Envelope
  <2>2. QED
    BY <1>0, <1>3, <2>1 DEF LevelInv
<1>7. QED
  BY <1>3, <1>4, <1>5, <1>6 DEF Stages

(* The level stays to the counts, whatever the order in which the key      *)
(* thread and the sound thread get to the generator.                       *)
LEMMA StepLevel ==
  ThreadsInv /\ [ThreadsNext]_threadVars => CountsInv' /\ LevelInv' /\ StageInv'
<1> SUFFICES ASSUME ThreadsInv, [ThreadsNext]_threadVars
             PROVE  CountsInv' /\ LevelInv' /\ StageInv'
  OBVIOUS
<1>0. /\ ThreadPlaces /\ TurnInv /\ playing \in BOOLEAN /\ ThreadsTypeOK
      /\ sample \in 0 .. Size /\ Size \in Nat
      /\ CountsInv /\ LevelInv /\ StageInv
  BY ThreadsAssumption DEF ThreadsInv, ThreadsTypeOK
<1> USE DEF CountsInv, LevelInv, StageInv, KeyGoes, PlayGoes, UpdateGoes
<1>1. CASE MoveKey
  BY <1>0, <1>1, ThreadGoes DEF MoveKey
<1>2. CASE PollThread
  BY <1>0, <1>2, ThreadGoes DEF PollThread
<1>3. CASE KeyTick
  BY <1>0, <1>3, ThreadGoes DEF KeyTick
<1>4. CASE KeyRead
  BY <1>0, <1>4, ThreadGoes DEF KeyRead
<1>5. CASE KeyClear
  BY <1>0, <1>5, ThreadGoes DEF KeyClear
<1>6. CASE KeyTest
  BY <1>0, <1>6, ThreadGoes DEF KeyTest
<1>7. CASE CWToneOn
  <2>1. /\ KeyGoes("onfall") /\ pc["key"] = "on" /\ sample' = sample
        /\ playing' = playing /\ stage' = stage
        /\ gen' = [gen EXCEPT !.curr = 0, !.riseWant = gen.riseDur, !.riseHave = 0]
    BY <1>0, <1>7, ThreadGoes DEF CWToneOn
  <2>2. /\ gen'.curr = 0 /\ gen'.riseHave = 0 /\ gen'.riseWant = gen.riseDur
        /\ gen'.fallHave = gen.fallHave /\ gen'.fallWant = gen.fallWant
        /\ gen.riseDur \in Nat
    BY <1>0, <2>1, Fields, ThreadsAssumption DEF Generator
  <2>3. pc["play"] \notin {"stage", "sample", "return"}
    BY <1>0, <2>1 DEF TurnInv
  <2>4. QED
    BY <1>0, <2>1, <2>2, <2>3
<1>8. CASE CWToneOnFall
  <2>1. /\ KeyGoes("play") /\ pc["key"] = "onfall" /\ sample' = sample
        /\ playing' = playing /\ stage' = stage
        /\ gen' = [gen EXCEPT !.stage = "RISE", !.fallWant = gen.fallDur,
                              !.fallHave = 0]
    BY <1>0, <1>8, ThreadGoes DEF CWToneOnFall
  <2>2. /\ gen'.stage = "RISE" /\ gen'.fallHave = 0 /\ gen'.fallWant = gen.fallDur
        /\ gen'.riseHave = gen.riseHave /\ gen'.riseWant = gen.riseWant
        /\ gen'.curr = gen.curr /\ gen.fallDur \in Nat /\ gen.riseWant \in Nat
    BY <1>0, <2>1, Fields, ThreadsAssumption DEF Generator
  <2>3. gen.curr = 0 /\ gen.riseHave = 0
    BY <1>0, <2>1
  <2>4. Rising(gen')
    BY <2>2, <2>3, OneStep DEF Rising
  <2>5. pc["play"] \notin {"stage", "sample", "return"}
    BY <1>0, <2>1 DEF TurnInv
  <2>6. QED
    BY <1>0, <2>1, <2>2, <2>3, <2>4, <2>5
<1>9. CASE KeyPlay
  BY <1>0, <1>9, ThreadGoes DEF KeyPlay
<1>10. CASE CWToneOff
  <2>1. /\ KeyGoes("post") /\ pc["key"] = "off" /\ sample' = sample
        /\ playing' = playing /\ stage' = stage
        /\ gen' = [gen EXCEPT !.stage = "FALL"]
    BY <1>0, <1>10, ThreadGoes DEF CWToneOff
  <2>2. /\ gen'.stage = "FALL" /\ gen'.curr = gen.curr
        /\ gen'.riseHave = gen.riseHave /\ gen'.riseWant = gen.riseWant
        /\ gen'.fallHave = gen.fallHave /\ gen'.fallWant = gen.fallWant
    BY <1>0, <2>1, Fields DEF Generator
  <2>3. /\ Rising(gen) => Rising(gen')
        /\ Resting(gen) => Resting(gen')
        /\ Falling(gen) => Falling(gen')
    BY <2>2 DEF Rising, Resting, Falling
  <2>4. Falling(gen')
    <3>1. /\ gen.fallHave = 0 => Height(gen.fallHave, gen.fallWant) = 0
          /\ Height(gen.riseHave, gen.riseWant) \in Nat /\ Full \in Nat
      BY <1>0, Fields, OneStep, ThreadsAssumption
    <3>2. Rising(gen) => Falling(gen')
      BY <2>2, <3>1 DEF Rising, Falling
    <3>3. Steady(gen) => Falling(gen')
      BY <2>2, <3>1 DEF Steady, Falling
    <3>4. Resting(gen) => Falling(gen')
      BY <2>2 DEF Resting, Falling
    <3>5. gen.stage \in {"RISE", "STDY", "FALL", "HOLD"}
      BY <1>0, Fields DEF Stages
    <3>6. QED
      BY <1>0, <2>1, <2>3, <3>2, <3>3, <3>4, <3>5
  <2>5. QED
    BY <1>0, <2>1, <2>2, <2>3, <2>4
<1>11. CASE KeyPost
  BY <1>0, <1>11, ThreadGoes DEF KeyPost
<1>12. CASE PlayTick
  BY <1>0, <1>12, ThreadGoes DEF PlayTick
<1>13. CASE PlaySilence
  BY <1>0, <1>13, ThreadGoes DEF PlaySilence
<1>14. CASE SampleStage
  <2>1. /\ PlayGoes("sample") /\ pc["play"] = "stage" /\ sample' = sample
        /\ sample < Size /\ playing' = playing
        /\ stage' = gen.stage /\ gen' = gen
    BY <1>0, <1>14, ThreadGoes DEF SampleStage
  <2>2. pc["key"] # "onfall"
    BY <1>0, <2>1 DEF TurnInv
  <2>3. QED
    BY <1>0, <2>1, <2>2
<1>15. CASE Sample
  <2>1. /\ PlayGoes("stage") /\ pc["play"] = "sample"
        /\ playing' = playing /\ gen' = Envelope(gen)
    BY <1>0, <1>15, ThreadGoes DEF Sample
  <2>2. /\ gen'.riseHave \in 0 .. gen'.riseWant
        /\ gen'.fallHave \in 0 .. gen'.fallWant
        /\ gen'.stage = "RISE" => Rising(gen')
        /\ gen'.stage = "STDY" => Steady(gen')
        /\ gen'.stage = "FALL" => Falling(gen')
        /\ gen'.stage = "HOLD" => Resting(gen')
    BY <2>1, EnvelopeSteps
  <2>3. pc["key"] \notin {"onfall", "play"} /\ playing
    BY <1>0, <2>1 DEF TurnInv
  <2>4. QED
    BY <1>0, <2>1, <2>2, <2>3
<1>16. CASE ToneReturn
  <2>1. /\ PlayGoes("return") /\ pc["play"] = "stage" /\ sample' = sample
        /\ playing' = playing /\ stage' = gen.stage /\ gen' = gen
    BY <1>0, <1>16, ThreadGoes DEF ToneReturn
  <2>2. pc["key"] # "onfall"
    BY <1>0, <2>1 DEF TurnInv
  <2>3. QED
    BY <1>0, <2>1, <2>2
<1>17. CASE PlayReturn
  BY <1>0, <1>17, ThreadGoes DEF PlayReturn
<1>18. CASE ReadCommand
  BY <1>0, <1>18, ThreadGoes DEF ReadCommand
<1>19. CASE WaitUpdate
  BY <1>0, <1>19, ThreadGoes DEF WaitUpdate
<1>20. CASE SetRise
  <2>1. /\ UpdateGoes("fall") /\ sample' = sample
        /\ playing' = playing /\ stage' = stage
        /\ gen' = [gen EXCEPT !.riseDur = ramp]
    BY <1>0, <1>20, ThreadGoes DEF SetRise
  <2>2. /\ gen'.stage = gen.stage /\ gen'.curr = gen.curr
        /\ gen'.riseHave = gen.riseHave /\ gen'.riseWant = gen.riseWant
        /\ gen'.fallHave = gen.fallHave /\ gen'.fallWant = gen.fallWant
    BY <1>0, <2>1, Fields DEF Generator
  <2>3. /\ Rising(gen) <=> Rising(gen')
        /\ Steady(gen) <=> Steady(gen')
        /\ Resting(gen) <=> Resting(gen')
        /\ Falling(gen) <=> Falling(gen')
    BY <2>2 DEF Rising, Steady, Resting, Falling
  <2>4. QED
    BY <1>0, <2>1, <2>2, <2>3
<1>21. CASE SetFall
  <2>1. /\ UpdateGoes("read") /\ sample' = sample
        /\ playing' = playing /\ stage' = stage
        /\ gen' = [gen EXCEPT !.fallDur = ramp]
    BY <1>0, <1>21, ThreadGoes DEF SetFall
  <2>2. /\ gen'.stage = gen.stage /\ gen'.curr = gen.curr
        /\ gen'.riseHave = gen.riseHave /\ gen'.riseWant = gen.riseWant
        /\ gen'.fallHave = gen.fallHave /\ gen'.fallWant = gen.fallWant
    BY <1>0, <2>1, Fields DEF Generator
  <2>3. /\ Rising(gen) <=> Rising(gen')
        /\ Steady(gen) <=> Steady(gen')
        /\ Resting(gen) <=> Resting(gen')
        /\ Falling(gen) <=> Falling(gen')
    BY <2>2 DEF Rising, Steady, Resting, Falling
  <2>4. QED
    BY <1>0, <2>1, <2>2, <2>3
<1>22. CASE UNCHANGED threadVars
  BY <1>0, <1>22 DEF threadVars
<1>23. QED
  BY <1>1, <1>2, <1>3, <1>4, <1>5, <1>6, <1>7, <1>8, <1>9, <1>10, <1>11,
     <1>12, <1>13, <1>14, <1>15, <1>16, <1>17, <1>18, <1>19, <1>20, <1>21,
     <1>22 DEF ThreadsNext, KeyThread, PlayThread, UpdateThread

LEMMA StepThreadsInv == ThreadsInv /\ [ThreadsNext]_threadVars => ThreadsInv'
BY StepTyped, StepPlaces, StepTurn, StepLevel DEF ThreadsInv

-----------------------------------------------------------------------------
(* What the threads share keeps its type.                                  *)
THEOREM ThreadsTypeCorrect == ThreadsSpec => []ThreadsTypeOK
<1>1. ThreadsInv => ThreadsTypeOK
  BY DEF ThreadsInv
<1>2. QED
  BY <1>1, InitThreadsInv, StepThreadsInv, PTL DEF ThreadsSpec

(* CWToneOn and CWTone never work on the generator at the same time,       *)
(* although there is no lock.                                              *)
THEOREM GeneratorShared == ThreadsSpec => []SetUpAlone
<1>1. ThreadsInv => SetUpAlone
  BY DEF ThreadsInv, TurnInv, SetUpAlone, SettingUp
<1>2. QED
  BY <1>1, InitThreadsInv, StepThreadsInv, PTL DEF ThreadsSpec

(* While no tone plays the level is zero, so that silence follows a tone   *)
(* without a jump.                                                         *)
THEOREM SilentAtZero == ThreadsSpec => []EndsAtZero
<1>1. ThreadsInv => EndsAtZero
  <2> SUFFICES ASSUME ThreadsInv, ~playing PROVE gen.curr = 0
    BY DEF EndsAtZero
  <2>1. LevelInv /\ ThreadsTypeOK
    BY DEF ThreadsInv
  <2>2. CASE pc["key"] = "onfall"
    BY <2>1, <2>2 DEF LevelInv
  <2>3. CASE pc["key"] = "play"
    <3>1. Rising(gen) /\ gen.riseHave = 0
      BY <2>1, <2>3 DEF LevelInv
    <3>2. QED
      BY <2>1, <3>1, Fields, OneStep DEF Rising
  <2>4. CASE pc["key"] \notin {"onfall", "play"}
    BY <2>1, <2>4 DEF LevelInv, Resting
  <2>5. QED
    BY <2>2, <2>3, <2>4
<1>2. QED
  BY <1>1, InitThreadsInv, StepThreadsInv, PTL DEF ThreadsSpec

(* Every part of the envelope is as high as its count, and so no higher    *)
(* than the full level and a step.                                         *)
LEMMA Heights ==
  ASSUME NEW w \in Ramps \cup {0}, NEW h \in 0 .. w
  PROVE  Height(h, w) \in 0 .. Full + Incr(w)
<1>1. w \in Nat /\ h \in Nat /\ Incr(w) \in Nat /\ Full \in Nat
  <2>1. w \in Nat
    BY ThreadsAssumption
  <2>2. QED
    BY <2>1, IncrIsNat, ThreadsAssumption
<1>2. CASE w = 0
  BY <1>1, <1>2, OneStep
<1>3. CASE w # 0
  <2>1. Height(w, w) \in 0 .. Full + Incr(w)
    <3>1. w \in Ramps /\ w > 0
      BY <1>1, <1>3
    <3>2. Height(w, w) \in Nat
      BY <1>1, OneStep
    <3>3. Height(w, w) = Full \/ Height(w, w) = Full + Incr(w)
      BY <3>1, FullHeight
    <3>4. QED
      BY <1>1, <3>2, <3>3
  <2>2. Height(h, w) \in Nat /\ Height(h, w) <= Height(w, w)
    <3> DEFINE i == Incr(w)
               d == w - h
    <3>1. i \in Nat /\ d \in Nat /\ w = h + d
      BY <1>1
    <3> HIDE DEF i, d
    <3>2. (h + d) * i = h * i + d * i /\ d * i \in Nat /\ h * i \in Nat
      BY <1>1, <3>1
    <3>3. QED
      BY <3>1, <3>2 DEF Height, i
  <2>3. QED
    BY <1>1, <2>1, <2>2
<1>4. QED
  BY <1>2, <1>3

(* However the key is tapped, the level is at most a step beyond full, on  *)
(* either side of zero.                                                    *)
THEOREM NeverTooLoud == ThreadsSpec => []LevelBounded
<1>1. ThreadsInv => LevelBounded
  <2> SUFFICES ASSUME ThreadsInv PROVE LevelBounded
    OBVIOUS
  <2>1. LevelInv /\ ThreadsTypeOK /\ CountsInv
    BY DEF ThreadsInv
  <2> DEFINE r == Height(gen.riseHave, gen.riseWant)
             f == Height(gen.fallHave, gen.fallWant)
             ri == Incr(gen.riseWant)
             fi == Incr(gen.fallWant)
  <2>2. /\ r \in 0 .. Full + ri /\ f \in 0 .. Full + fi
        /\ ri \in Nat /\ fi \in Nat /\ Full \in Nat
    BY <2>1, Fields, Heights, ThreadsAssumption DEF CountsInv
  <2>3. gen.curr \in {0, Full, r, Full - f, r - f}
    <3>1. gen.stage \in {"RISE", "STDY", "FALL", "HOLD"}
      BY <2>1, Fields DEF Stages
    <3>2. QED
      BY <2>1, <3>1 DEF LevelInv, Rising, Steady, Falling, Resting
  <2>4. QED
    <3> HIDE DEF r, f, ri, fi
    <3>1. gen.curr <= Full + ri /\ gen.curr >= -(Full + fi)
      BY <2>2, <2>3
    <3>2. QED
      BY <3>1 DEF LevelBounded, ri, fi
<1>2. QED
  BY <1>1, InitThreadsInv, StepThreadsInv, PTL DEF ThreadsSpec

(* A tone whose rise was complete fades without a jump.                    *)
THEOREM TonesFadeWhole == ThreadsSpec => WholeTonesFade
<1> DEFINE A == ~SettingUp /\ HasRisen => SmallSteps
<1>1. ThreadsInv /\ [ThreadsNext]_threadVars => [A]_gen
  <2> SUFFICES ASSUME ThreadsInv, [ThreadsNext]_threadVars, gen' # gen,
                      ~SettingUp, HasRisen
               PROVE  SmallSteps
    OBVIOUS
  <2>1. LevelInv /\ StageInv /\ ThreadsTypeOK /\ CountsInv /\ TurnInv
    BY DEF ThreadsInv
  <2> DEFINE r == Height(gen.riseHave, gen.riseWant)
             f == Height(gen.fallHave, gen.fallWant)
             ri == Incr(gen.riseWant)
             fi == Incr(gen.fallWant)
  <2>2. /\ r \in Nat /\ f \in Nat /\ ri \in Nat /\ fi \in Nat /\ Full \in Nat
        /\ gen.curr \in Int /\ stage \in Stages /\ gen \in Generator
        /\ gen.fallHave \in 0 .. gen.fallWant /\ gen.fallWant \in Nat
    BY <2>1, Fields, OneStep, ThreadsAssumption DEF CountsInv, ThreadsTypeOK
  <2>3. r = Full \/ r = Full + ri
    BY <2>1, Fields, FullHeight DEF HasRisen
  <2>4. gen.fallHave = gen.fallWant => f = Full \/ f = Full + fi
    BY <2>1, Fields, FullHeight DEF HasRisen
  <2>5. CASE gen'.curr = gen.curr
    BY <2>2, <2>5 DEF SmallSteps
  <2>6. CASE Sample
    <3>1. gen' = Envelope(gen) /\ pc["play"] = "sample" /\ pc["key"] # "onfall"
      BY <2>1, <2>6 DEF Sample, TurnInv
    <3>2. CASE stage = "RISE"
      <4>1. gen' = [gen EXCEPT !.curr = Full, !.stage = "STDY"]
        BY <3>1, <3>2, <2>2, <2>1, Fields DEF Envelope, HasRisen
      <4>2. gen'.curr = Full
        BY <2>2, <4>1 DEF Generator
      <4>3. gen.curr = r
        BY <2>1, <3>1, <3>2 DEF StageInv, Rising
      <4>4. QED
        BY <2>2, <2>3, <4>2, <4>3 DEF SmallSteps
    <3>3. CASE stage = "FALL"
      <4>1. Resting(gen) \/ gen.curr = Full - f \/ gen.curr = r - f
        BY <2>1, <3>1, <3>3 DEF StageInv, LevelInv, Falling
      <4>2. CASE gen.fallHave < gen.fallWant
        <5>1. gen' = [gen EXCEPT !.fallHave = gen.fallHave + 1,
                                 !.curr = gen.curr - fi]
          BY <3>1, <3>3, <4>2 DEF Envelope
        <5>2. gen'.curr = gen.curr - fi
          <6> HIDE DEF fi
          <6>1. QED
            BY <2>2, <5>1 DEF Generator
        <5> HIDE DEF fi
        <5>3. gen'.curr - gen.curr <= fi /\ gen.curr - gen'.curr <= fi
          BY <2>2, <5>2
        <5>4. QED
          BY <5>3 DEF SmallSteps, fi
      <4>3. CASE ~(gen.fallHave < gen.fallWant)
        <5>1. gen' = [gen EXCEPT !.curr = 0, !.stage = "HOLD"]
          BY <3>1, <3>3, <4>3 DEF Envelope
        <5>2. gen'.curr = 0
          BY <2>2, <5>1 DEF Generator
        <5>3. gen.fallHave = gen.fallWant
          BY <2>2, <4>3
        <5>4. gen.curr \in {0, -fi, ri, ri - fi}
          <6> HIDE DEF r, f, ri, fi
          <6>1. QED
            BY <2>2, <2>3, <2>4, <4>1, <5>3 DEF Resting
        <5>5. \/ -fi <= gen.curr /\ gen.curr <= fi
              \/ -ri <= gen.curr /\ gen.curr <= ri
          <6> HIDE DEF r, f, ri, fi
          <6>1. QED
            BY <2>2, <5>4
        <5>6. QED
          BY <2>2, <5>2, <5>5 DEF SmallSteps
      <4>4. QED
        BY <4>2, <4>3
    <3>4. CASE stage \notin {"RISE", "FALL"}
      BY <2>2, <3>1, <3>4 DEF Envelope, SmallSteps
    <3>5. QED
      BY <3>2, <3>3, <3>4
  <2>7. CASE CWToneOff
    BY <2>2, <2>5, <2>7 DEF CWToneOff, Generator
  <2>8. CASE SetRise \/ SetFall
    <3>1. gen'.curr = gen.curr
      BY <2>2, <2>8 DEF SetRise, SetFall, Generator
    <3>2. QED
      BY <2>5, <3>1
  <2>9. CASE CWToneOn \/ CWToneOnFall
    BY <2>9 DEF CWToneOn, CWToneOnFall, SettingUp
  <2>10. QED
    BY <2>6, <2>7, <2>8, <2>9
       DEF ThreadsNext, threadVars, KeyThread, PlayThread, UpdateThread,
           MoveKey, PollThread, KeyTick, KeyRead, KeyClear, KeyTest, KeyPlay,
           KeyPost, PlayTick, PlaySilence, SampleStage, ToneReturn, PlayReturn,
           ReadCommand, WaitUpdate
<1>2. QED
  BY <1>1, InitThreadsInv, StepThreadsInv, PTL DEF ThreadsSpec, WholeTonesFade
=============================================================================
