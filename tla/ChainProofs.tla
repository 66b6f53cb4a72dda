---------------------------- MODULE ChainProofs ----------------------------
(***************************************************************************)
(* Proofs about the chains and their parts.  For any number of receivers,  *)
(* a receiver's squelch always slews.  For any length of a block, any      *)
(* settings of the stages and any commands, a channel puts out the samples *)
(* its filters ask for, and the display shows them in order.  For any      *)
(* length, edges and sampling rate, a filter or a window is made as it was *)
(* meant.                                                                  *)
(***************************************************************************)
EXTENDS Receiver, FilterDesign, FiniteSetTheorems, TLAPS

-----------------------------------------------------------------------------
(* The squelches.                                                          *)

(* What every step keeps.                                                  *)
IInv == TypeOK /\ SlewMemory

LEMMA InitIInv == Init => IInv
<1> USE SquelchAssumption
<1>1. Rx \subseteq Channels /\ 0 \in Rx
  BY DEF Rx, Channels
<1>2. QED
  BY <1>1 DEF Init, IInv, TypeOK, SlewMemory, Loudness

(* The transmitter is not one of the receivers.                            *)
LEMMA TxApart == Tx \notin Rx
  BY SquelchAssumption DEF Tx, Rx

LEMMA StepIInv == IInv /\ [Next]_vars => IInv'
<1> SUFFICES ASSUME IInv, [Next]_vars PROVE IInv'
  OBVIOUS
<1> USE DEF IInv, TypeOK, SlewMemory, Loudness
<1>0. Rx \subseteq Channels /\ Tx \in Channels
  BY DEF Channels
<1>1. CASE UNCHANGED vars
  BY <1>1 DEF vars
<1>2. ASSUME NEW c \in Channels, NEW b \in BOOLEAN, SetSquelchSt(c, b)
      PROVE  IInv'
  BY <1>2 DEF SetSquelchSt
<1>3. ASSUME NEW k \in Rx, SetRX(k)
      PROVE  IInv'
  BY <1>3 DEF SetRX
<1>4. ASSUME NEW m \in {"RX", "TX"}, SetTRX(m)
      PROVE  IInv'
  BY <1>4 DEF SetTRX
<1>5. ASSUME NEW quiet \in SUBSET Rx, ReceiveBlock(quiet)
      PROVE  IInv'
  <2> DEFINE shut == {k \in act : SquelchRx(k, quiet)}
  <2>1. trx' = trx /\ act' = act /\ flag' = flag
    BY <1>5 DEF ReceiveBlock
  <2>2. set' \in [Channels -> BOOLEAN] /\ running' \in [Channels -> BOOLEAN]
    BY <1>5 DEF ReceiveBlock
  <2>3. first' \in [Channels -> 0 .. 1] /\ end' \in [Channels -> 0 .. 1]
    BY <1>5 DEF ReceiveBlock, Closed, Opened
  <2>4. ASSUME NEW k \in Rx PROVE running'[k] <=> end'[k] = 0
    <3>1. k \in Channels
      BY <1>0
    <3>2. CASE k \notin act
      BY <1>5, <3>1, <3>2 DEF ReceiveBlock
    <3>3. CASE k \in act /\ k \in shut
      BY <1>5, <3>1, <3>3 DEF ReceiveBlock
    <3>4. CASE k \in act /\ k \notin shut
      BY <1>5, <3>1, <3>4 DEF ReceiveBlock
    <3>5. QED
      BY <3>2, <3>3, <3>4
  <2>5. QED
    BY <2>1, <2>2, <2>3, <2>4
<1>6. CASE SquelchTx
  BY <1>0, <1>6, TxApart DEF SquelchTx, Closed
<1>7. CASE PassTx
  <2>1. running' \in [Channels -> BOOLEAN] /\ set' \in [Channels -> BOOLEAN]
    BY <1>0, <1>7 DEF PassTx
  <2>2. first' \in [Channels -> 0 .. 1] /\ end' \in [Channels -> 0 .. 1]
    BY <1>0, <1>7 DEF PassTx, Opened
  <2>3. \A k \in Rx : running'[k] = running[k] /\ end'[k] = end[k]
    BY <1>0, <1>7, TxApart DEF PassTx
  <2>4. QED
    BY <1>7, <2>1, <2>2, <2>3 DEF PassTx
<1>8. CASE SetNewBuflen
  BY <1>0, <1>8, SquelchAssumption DEF SetNewBuflen, Rx
<1>9. QED
  BY <1>1, <1>2, <1>3, <1>4, <1>5, <1>6, <1>7, <1>8 DEF Next, Block

(* squelch.running is true exactly when the receiver's last block ended in *)
(* silence, for any number of receivers.                                   *)
THEOREM MemoryKept == Spec => []SlewMemory
<1>1. Spec => []IInv
  BY InitIInv, StepIInv, PTL DEF Spec
<1>2. IInv => SlewMemory
  BY DEF IInv
<1>3. QED
  BY <1>1, <1>2, PTL

(* A block that do_rx_squelch or no_rx_squelch has worked on begins as     *)
(* loud as the one before it ended.                                        *)
LEMMA BlockSeamless ==
  ASSUME IInv, NEW quiet \in SUBSET Rx, ReceiveBlock(quiet), NEW k \in act
  PROVE  Seamless(k)
<1>1. k \in Rx /\ k \in Channels
  BY DEF IInv, TypeOK, Channels
<1>2. end[k] = IF running[k] THEN 0 ELSE 1
  BY <1>1 DEF IInv, TypeOK, SlewMemory, Loudness
<1>3. first'[k] = IF running[k] THEN 0 ELSE 1
  BY <1>1 DEF ReceiveBlock, Closed, Opened
<1>4. QED
  BY <1>2, <1>3 DEF Seamless

(* No receiver's squelch makes a step from silence to signal or back,      *)
(* whatever commands come between two blocks.                              *)
THEOREM ReceiversSlew == Spec => RxSlews
<1>1. IInv /\ [Next]_vars =>
        [\A quiet \in SUBSET Rx : ReceiveBlock(quiet) => \A k \in act : Seamless(k)]_vars
  BY BlockSeamless
<1>2. Spec => []IInv
  BY InitIInv, StepIInv, PTL DEF Spec
<1>3. QED
  BY <1>1, <1>2, PTL DEF Spec, RxSlews

-----------------------------------------------------------------------------
(* Remainders.                                                             *)

LEMMA Divided ==
  ASSUME NEW m \in Nat \ {0}, NEW a \in Int
  PROVE  /\ a % m \in 0 .. m - 1
         /\ \E q \in Int : a = m * q + (a % m)
<1>1. a \div m \in Int /\ a = m * (a \div m) + (a % m)
  OBVIOUS
<1>2. a % m \in 0 .. m - 1
  OBVIOUS
<1>3. \E q \in Int : a = m * q + (a % m)
  BY <1>1
<1>4. QED
  BY <1>2, <1>3

LEMMA RemainderIs ==
  ASSUME NEW m \in Nat \ {0}, NEW q \in Int, NEW r \in 0 .. m - 1
  PROVE  (m * q + r) % m = r
  OBVIOUS

LEMMA Times ==
  ASSUME NEW m \in Int, NEW q \in Int, NEW p \in Int
  PROVE  /\ m * q \in Int
         /\ m * (q + p) = m * q + m * p
         /\ m * (q - p) = m * q - m * p
  OBVIOUS

(* Two numbers whose remainders are the same are a multiple apart.         *)
LEMMA SameRemainder ==
  ASSUME NEW m \in Nat \ {0}, NEW a \in Int, NEW b \in Int
  PROVE  a % m = b % m <=> \E q \in Int : a - b = m * q
<1>1. PICK p \in Int : a = m * p + (a % m)
  BY Divided
<1>2. PICK r \in Int : b = m * r + (b % m)
  BY Divided
<1>3. a % m \in 0 .. m - 1 /\ b % m \in 0 .. m - 1
  BY Divided
<1>4. ASSUME a % m = b % m PROVE \E q \in Int : a - b = m * q
  <2>1. a - b = m * p - m * r
    BY <1>1, <1>2, <1>3, <1>4, Times
  <2>2. a - b = m * (p - r) /\ p - r \in Int
    BY <2>1, Times
  <2>3. QED
    BY <2>2
<1>5. ASSUME NEW q \in Int, a - b = m * q PROVE a % m = b % m
  <2>1. m * q \in Int /\ m * r \in Int /\ m * (q + r) = m * q + m * r
    BY Times
  <2>2. a = m * (q + r) + (b % m) /\ q + r \in Int
    BY <1>2, <1>3, <1>5, <2>1
  <2>3. (m * (q + r) + (b % m)) % m = b % m
    BY <1>3, <2>2, RemainderIs, Zenon
  <2>4. QED
    BY <2>2, <2>3
<1>6. QED
  BY <1>4, <1>5

(* Numbers less than m apart are not.                                      *)
LEMMA CloseMultiple ==
  ASSUME NEW m \in Nat \ {0}, NEW q \in Int, m * q < m, m * q > 0 - m
  PROVE  m * q = 0
<1>1. CASE q >= 1
  <2>1. m * (q - 1) = m * q - m /\ m * q \in Int
    <3>1. m * (q - 1) = m * q - m * 1
      BY Times
    <3>2. QED
      BY <3>1, Times
  <2>2. m * (q - 1) >= 0
    BY <1>1
  <2>3. QED
    BY <2>1, <2>2
<1>2. CASE q <= 0 - 1
  <2>1. m * (q + 1) = m * q + m /\ m * q \in Int
    <3>1. m * (q + 1) = m * q + m * 1
      BY Times
    <3>2. QED
      BY <3>1, Times
  <2>2. m * (0 - (q + 1)) >= 0
    BY <1>2
  <2>3. m * (0 - (q + 1)) = m * 0 - m * (q + 1)
    BY Times
  <2>4. QED
    BY <2>1, <2>2, <2>3
<1>3. CASE q = 0
  BY <1>3
<1>4. QED
  BY <1>1, <1>2, <1>3

LEMMA CloseRemainders ==
  ASSUME NEW m \in Nat \ {0}, NEW a \in Int, NEW b \in Int,
         a % m = b % m, a - b < m, b - a < m
  PROVE  a = b
<1>1. PICK q \in Int : a - b = m * q
  BY SameRemainder
<1>2. m * q = 0
  BY <1>1, CloseMultiple
<1>3. QED
  BY <1>1, <1>2

LEMMA RemainderPlus ==
  ASSUME NEW m \in Nat \ {0}, NEW a \in Int, NEW b \in Int
  PROVE  ((a % m) + b) % m = (a + b) % m
<1>1. PICK q \in Int : a = m * q + (a % m)
  BY Divided
<1>2. a % m \in Int /\ m * q \in Int
  BY Divided, Times
<1>3. (a + b) - ((a % m) + b) = m * q
  BY <1>1, <1>2
<1>4. (a + b) % m = ((a % m) + b) % m
  <2>1. a + b \in Int /\ (a % m) + b \in Int
    BY <1>2
  <2>2. \E p \in Int : (a + b) - ((a % m) + b) = m * p
    BY <1>3
  <2>3. QED
    BY <2>1, <2>2, SameRemainder
<1>5. QED
  BY <1>4

LEMMA Small ==
  ASSUME NEW m \in Nat \ {0}, NEW a \in 0 .. m - 1
  PROVE  a % m = a
<1>1. a = m * 0 + a
  OBVIOUS
<1>2. QED
  BY <1>1, RemainderIs

LEMMA Wrapped ==
  ASSUME NEW m \in Nat \ {0}, NEW a \in Int, a < 0, a >= 0 - m
  PROVE  a % m = a + m
<1>1. (a + m) - a = m * 1
  OBVIOUS
<1>2. (a + m) % m = a % m
  <2>1. \E p \in Int : (a + m) - a = m * p
    <3>1. 1 \in Int
      OBVIOUS
    <3>2. QED
      BY <1>1, <3>1, Zenon
  <2>2. a + m \in Int
    OBVIOUS
  <2>3. QED
    BY <2>1, <2>2, SameRemainder, Zenon
<1>3. a + m \in 0 .. m - 1
  OBVIOUS
<1>4. QED
  BY <1>2, <1>3, Small, Zenon

-----------------------------------------------------------------------------
(* Signals.  A signal says, for a sample of each age, the ages it is made  *)
(* of.  A block later all is N samples older, and no sample is made of     *)
(* younger ones only.                                                      *)
Signal(G) ==
  /\ G \in [Nat -> SUBSET Nat]
  /\ \A a \in Nat : G[a + N] = {x + N : x \in G[a]}
  /\ \A a \in Nat : \E x \in G[a] : a <= x

(* What of a signal is kept, all or nothing.                               *)
KeptOf(M, G) ==
  /\ M \in [Nat -> SUBSET Nat]
  /\ \A a \in Nat : M[a] \subseteq G[a]
  /\ \A a \in Nat : M[a + N] = {x + N : x \in M[a]}

(* What a stage that takes the samples Take of signal G makes.             *)
Via(Take, G) == [a \in Nat |-> UNION {G[x] : x \in Take[a]}]

LEMMA NatN == N \in Nat \ {0} /\ Horizon \in Nat \ {0}
  BY BlocksAssumption

LEMMA ViaSteady ==
  ASSUME NEW Take, Signal(Take), NEW G \in [Nat -> SUBSET Nat],
         \A a \in Nat : G[a + N] = {x + N : x \in G[a]}
  PROVE  /\ Via(Take, G) \in [Nat -> SUBSET Nat]
         /\ \A a \in Nat : Via(Take, G)[a + N] = {x + N : x \in Via(Take, G)[a]}
<1>1. \A a \in Nat : Take[a] \subseteq Nat /\ Take[a + N] = {x + N : x \in Take[a]}
  BY DEF Signal
<1>2. Via(Take, G) \in [Nat -> SUBSET Nat]
  BY <1>1 DEF Via
<1>3. ASSUME NEW a \in Nat PROVE Via(Take, G)[a + N] = {x + N : x \in Via(Take, G)[a]}
  <2>1. a + N \in Nat
    BY NatN
  <2>2. Via(Take, G)[a + N] = UNION {G[x] : x \in Take[a + N]}
    BY <2>1 DEF Via
  <2>3. Via(Take, G)[a] = UNION {G[x] : x \in Take[a]}
    BY DEF Via
  <2>4. ASSUME NEW z \in Via(Take, G)[a + N] PROVE z \in {x + N : x \in Via(Take, G)[a]}
    <3>1. PICK y \in Take[a + N] : z \in G[y]
      BY <2>2
    <3>2. PICK x \in Take[a] : y = x + N
      BY <1>1, <3>1
    <3>3. PICK w \in G[x] : z = w + N
      BY <1>1, <3>1, <3>2
    <3>4. QED
      BY <2>3, <3>2, <3>3
  <2>5. ASSUME NEW w \in Via(Take, G)[a] PROVE w + N \in Via(Take, G)[a + N]
    <3>1. PICK x \in Take[a] : w \in G[x]
      BY <2>3
    <3>2. x + N \in Take[a + N] /\ w + N \in G[x + N]
      BY <1>1, <3>1
    <3>3. QED
      BY <2>2, <3>2
  <2>6. QED
    BY <2>4, <2>5
<1>4. QED
  BY <1>2, <1>3

LEMMA ViaSignal ==
  ASSUME NEW Take, Signal(Take), NEW G, Signal(G)
  PROVE  Signal(Via(Take, G))
<1>1. ASSUME NEW a \in Nat PROVE \E x \in Via(Take, G)[a] : a <= x
  <2>1. PICK y \in Take[a] : a <= y
    BY DEF Signal
  <2>2. y \in Nat
    BY <2>1 DEF Signal
  <2>3. PICK x \in G[y] : y <= x
    BY <2>2 DEF Signal
  <2>4. x \in Nat /\ x \in Via(Take, G)[a]
    BY <2>1, <2>2, <2>3 DEF Signal, Via
  <2>5. QED
    BY <2>1, <2>2, <2>3, <2>4
<1>2. G \in [Nat -> SUBSET Nat] /\ \A a \in Nat : G[a + N] = {x + N : x \in G[a]}
  BY DEF Signal
<1>3. /\ Via(Take, G) \in [Nat -> SUBSET Nat]
      /\ \A a \in Nat : Via(Take, G)[a + N] = {x + N : x \in Via(Take, G)[a]}
  BY <1>2, ViaSteady
<1>4. QED
  BY <1>1, <1>3 DEF Signal

LEMMA ViaKept ==
  ASSUME NEW Take, Signal(Take), NEW G, Signal(G), NEW M, KeptOf(M, G)
  PROVE  KeptOf(Via(Take, M), Via(Take, G))
<1>1. /\ Via(Take, M) \in [Nat -> SUBSET Nat]
      /\ \A a \in Nat : Via(Take, M)[a + N] = {x + N : x \in Via(Take, M)[a]}
  BY ViaSteady DEF KeptOf
<1>2. ASSUME NEW a \in Nat PROVE Via(Take, M)[a] \subseteq Via(Take, G)[a]
  <2>1. Take[a] \subseteq Nat
    BY DEF Signal
  <2>2. \A x \in Take[a] : M[x] \subseteq G[x]
    BY <2>1 DEF KeptOf
  <2>3. QED
    BY <2>2 DEF Via
<1>3. QED
  BY <1>1, <1>2 DEF KeptOf

LEMMA KeptWhole ==
  ASSUME NEW G, Signal(G)
  PROVE  KeptOf(G, G)
  BY DEF Signal, KeptOf

(* Nothing is settled before anything has come in.                         *)
LEMMA NotYet ==
  ASSUME NEW G, Signal(G), NEW a \in Nat
  PROVE  ~(G[a] \subseteq 0 .. 0 - 1)
<1>1. PICK x \in G[a] : a <= x
  BY DEF Signal
<1>2. x \notin 0 .. 0 - 1
  OBVIOUS
<1>3. QED
  BY <1>1, <1>2

-----------------------------------------------------------------------------
(* The stages.                                                             *)
Plainly   == [a \in Nat |-> {a}]
Later(d)  == [a \in Nat |-> {a + d}]
ByFir(c, early) == [a \in Nat |-> Fir(c, early, a)]
ByLms     == [a \in Nat |-> Lms(a)]
ByError   == [a \in Nat |-> {a} \cup Lms(a)]
ByBlms    == [a \in Nat |-> Blms(a)]

LEMMA LaterSignal ==
  ASSUME NEW d \in Nat
  PROVE  Signal(Later(d))
<1>1. Later(d) \in [Nat -> SUBSET Nat]
  BY DEF Later
<1>2. \A a \in Nat : Later(d)[a] = {a + d} /\ Later(d)[a + N] = {a + N + d}
  BY NatN DEF Later
<1>3. ASSUME NEW a \in Nat PROVE Later(d)[a + N] = {x + N : x \in Later(d)[a]}
  BY <1>2, NatN
<1>4. ASSUME NEW a \in Nat PROVE \E x \in Later(d)[a] : a <= x
  <2>1. a + d \in Later(d)[a] /\ a <= a + d
    BY <1>2
  <2>2. QED
    BY <2>1
<1>5. QED
  BY <1>1, <1>3, <1>4 DEF Signal

LEMMA PlainSignal == Signal(Plainly)
<1>1. Plainly = Later(0)
  BY DEF Plainly, Later
<1>2. QED
  BY <1>1, LaterSignal

(* What a coefficient asks of the sample of age a.                         *)
AskedAge(c, t, a) == IF (a % c) + t < 0 THEN a + t + 2 * c ELSE a + t

LEMMA FirOf ==
  ASSUME NEW c \in Nat \ {0}, NEW e \in 1 .. c, N % c = 0, NEW a \in Nat
  PROVE  /\ Fir(c, e, a) = {AskedAge(c, t, a) : t \in 0 - e .. c - e}
         /\ Fir(c, e, a) \subseteq Nat
         /\ a \in Fir(c, e, a)
         /\ (a + N) % c = a % c
<1>0. a \in Int /\ N \in Int /\ N \in Nat \ {0}
  BY NatN
<1>1. a % c \in 0 .. c - 1
  BY <1>0, Divided, Zenon
<1>2. a % c <= a
  <2>1. CASE a < c
    <3>1. a \in 0 .. c - 1
      BY <2>1
    <3>2. QED
      BY <3>1, Small
  <2>2. CASE a >= c
    BY <1>1, <2>2
  <2>3. QED
    BY <2>1, <2>2
<1>3. Fir(c, e, a) = {AskedAge(c, t, a) : t \in 0 - e .. c - e}
  BY DEF Fir, AskedAge
<1>4. ASSUME NEW t \in 0 - e .. c - e PROVE AskedAge(c, t, a) \in Nat
  <2> DEFINE r == a % c
  <2>1. r \in Nat /\ r <= a
    BY <1>1, <1>2
  <2>2. AskedAge(c, t, a) = IF r + t < 0 THEN a + t + 2 * c ELSE a + t
    BY DEF AskedAge
  <2> HIDE DEF r
  <2>3. QED
    BY <2>1, <2>2
<1>5. a \in Fir(c, e, a)
  <2>1. 0 \in 0 - e .. c - e /\ AskedAge(c, 0, a) = a
    BY <1>1 DEF AskedAge
  <2>2. QED
    BY <1>3, <2>1
<1>6. (a + N) % c = a % c
  <2>1. PICK q \in Int : N = c * q + (N % c)
    BY <1>0, Divided, Zenon
  <2>2. (a + N) - a = c * q
    BY <1>0, <2>1, Times
  <2>3. a + N \in Int
    BY <1>0
  <2>4. \E p \in Int : (a + N) - a = c * p
    BY <2>2, Zenon
  <2>5. QED
    BY <1>0, <2>3, <2>4, SameRemainder, Zenon
<1>7. QED
  BY <1>3, <1>4, <1>5, <1>6

LEMMA FirSignal ==
  ASSUME NEW c \in Nat \ {0}, NEW e \in 1 .. c, N % c = 0
  PROVE  Signal(ByFir(c, e))
<1>1. ASSUME NEW a \in Nat
      PROVE  /\ ByFir(c, e)[a] = Fir(c, e, a) /\ Fir(c, e, a) \subseteq Nat
             /\ \E x \in Fir(c, e, a) : a <= x
  <2>1. Fir(c, e, a) \subseteq Nat /\ a \in Fir(c, e, a) /\ a <= a
    BY FirOf
  <2>2. QED
    BY <2>1 DEF ByFir
<1>2. ByFir(c, e) \in [Nat -> SUBSET Nat] /\ \A a \in Nat : \E x \in ByFir(c, e)[a] : a <= x
  BY <1>1 DEF ByFir
<1>3. ASSUME NEW a \in Nat PROVE ByFir(c, e)[a + N] = {x + N : x \in ByFir(c, e)[a]}
  <2>1. a + N \in Nat /\ (a + N) % c = a % c
    <3>1. a + N \in Nat
      BY NatN
    <3>2. QED
      BY <3>1, FirOf
  <2>2. ByFir(c, e)[a] = {AskedAge(c, t, a) : t \in 0 - e .. c - e}
    BY FirOf DEF ByFir
  <2>3. ByFir(c, e)[a + N] = {AskedAge(c, t, a + N) : t \in 0 - e .. c - e}
    BY <2>1, FirOf DEF ByFir
  <2>4. \A t \in 0 - e .. c - e : AskedAge(c, t, a + N) = AskedAge(c, t, a) + N
    BY <2>1, NatN DEF AskedAge
  <2>5. {AskedAge(c, t, a + N) : t \in 0 - e .. c - e}
          = {x + N : x \in {AskedAge(c, t, a) : t \in 0 - e .. c - e}}
    BY <2>4
  <2>6. QED
    BY <2>2, <2>3, <2>5
<1>4. QED
  BY <1>2, <1>3 DEF Signal

LEMMA RunSignal ==
  ASSUME NEW d \in Nat, NEW m \in Nat \ {0}, NEW S,
         S = [a \in Nat |-> {a + d + j : j \in 0 .. m - 1}]
  PROVE  Signal(S)
<1>1. S \in [Nat -> SUBSET Nat]
  OBVIOUS
<1>2. ASSUME NEW a \in Nat PROVE \E x \in S[a] : a <= x
  <2>1. 0 \in 0 .. m - 1 /\ a <= a + d + 0
    OBVIOUS
  <2>2. a + d + 0 \in S[a]
    BY <2>1
  <2>3. QED
    BY <2>1, <2>2
<1>3. ASSUME NEW a \in Nat PROVE S[a + N] = {x + N : x \in S[a]}
  <2> DEFINE at(b, j) == b + d + j
  <2>1. a + N \in Nat
    BY NatN
  <2>2. S[a + N] = {at(a + N, j) : j \in 0 .. m - 1} /\ S[a] = {at(a, j) : j \in 0 .. m - 1}
    BY <2>1
  <2>3. \A j \in 0 .. m - 1 : at(a + N, j) = at(a, j) + N
    BY NatN
  <2> HIDE DEF at
  <2>4. {at(a + N, j) : j \in 0 .. m - 1} = {x + N : x \in {at(a, j) : j \in 0 .. m - 1}}
    BY <2>3
  <2>5. QED
    BY <2>2, <2>4
<1>4. QED
  BY <1>1, <1>2, <1>3 DEF Signal

LEMMA LmsSignals == Signal(ByLms) /\ Signal(ByBlms) /\ Signal(ByError)
<1>1. LmsDelay \in Nat /\ LmsTaps \in Nat \ {0} /\ LmsChunk \in Nat \ {0}
  BY BlocksAssumption
<1>2. Signal(ByLms)
  BY <1>1, RunSignal DEF ByLms, Lms
<1>3. Signal(ByBlms)
  <2>1. \A a \in Nat : Blms(a) = {a + 0 + j : j \in 0 .. LmsChunk - 1}
    BY DEF Blms
  <2>2. ByBlms = [a \in Nat |-> {a + 0 + j : j \in 0 .. LmsChunk - 1}]
    BY <2>1 DEF ByBlms
  <2>3. QED
    BY <1>1, <2>2, RunSignal
<1>4. Signal(ByError)
  <2>1. \A a \in Nat : ByError[a] = {a} \cup ByLms[a]
    BY DEF ByError, ByLms
  <2>2. ByError \in [Nat -> SUBSET Nat]
    BY <1>2, <2>1 DEF ByError, ByLms, Signal
  <2>3. ASSUME NEW a \in Nat PROVE ByError[a + N] = {x + N : x \in ByError[a]}
    <3>1. a + N \in Nat /\ ByLms[a + N] = {x + N : x \in ByLms[a]}
      BY <1>2, NatN DEF Signal
    <3>2. ByError[a + N] = {a + N} \cup ByLms[a + N]
      BY <2>1, <3>1
    <3>3. QED
      BY <2>1, <3>1, <3>2
  <2>4. QED
    BY <2>1, <2>2, <2>3 DEF Signal
<1>5. QED
  BY <1>2, <1>3, <1>4

-----------------------------------------------------------------------------
(* What is carried.  Of a channel that has worked on n samples without a   *)
(* break, each sample that is made of those only is what is kept of it.    *)

BlockCarries(b, G, M, n) ==
  \A i \in Index : G[N - 1 - i] \subseteq 0 .. n - 1 => b[i] = M[N - 1 - i]

HalfCarries(half, c, G, M, n) ==
  \A x \in 0 .. c - 1 : G[c - 1 - x] \subseteq 0 .. n - 1 => half[x] = M[c - 1 - x]

RingCarries(line, size, G, n) ==
  \A a \in 0 .. size - 1 :
    G[a] \subseteq 0 .. n - 1 => line.mem[(line.at + a + 1) % size] = G[a]

(* The two numbers of samples, before and after a block.                   *)
Grown(n, p) == n \in 0 .. Horizon /\ p \in 0 .. Horizon /\ p <= n + N

LEMMA SmallerOf ==
  ASSUME NEW x \in Int, NEW y \in Int
  PROVE  Min({x, y}) = IF x <= y THEN x ELSE y
<1> DEFINE w == IF x <= y THEN x ELSE y
<1>1. w \in {x, y} /\ \A z \in {x, y} : w <= z
  OBVIOUS
<1>2. \A u \in {x, y} : (\A z \in {x, y} : u <= z) => u = w
  OBVIOUS
<1>3. (CHOOSE u \in {x, y} : \A z \in {x, y} : u <= z) = w
  BY <1>1, <1>2
<1>4. QED
  BY <1>3 DEF Min

LEMMA OlderIs ==
  ASSUME NEW G, Signal(G), NEW M, KeptOf(M, G), NEW n, NEW p, Grown(n, p),
         NEW a \in Nat, NEW v,
         G[a] \subseteq 0 .. n - 1 => v = M[a],
         G[a + N] \subseteq 0 .. p - 1
  PROVE  Older(v) = M[a + N]
<1>1. N \in Nat \ {0} /\ Horizon \in Nat \ {0} /\ n \in Int /\ p \in Int
  BY NatN DEF Grown
<1>2. G[a] \subseteq Nat /\ G[a + N] = {x + N : x \in G[a]}
  BY DEF Signal
<1>3. ASSUME NEW x \in G[a] PROVE x \in Nat /\ x + N < p /\ x \in 0 .. n - 1
  <2>1. x \in Nat /\ x + N \in 0 .. p - 1
    BY <1>2, <1>3
  <2>2. QED
    BY <1>1, <2>1 DEF Grown
<1>4. v = M[a] /\ M[a] \subseteq G[a] /\ M[a + N] = {x + N : x \in M[a]}
  BY <1>3 DEF KeptOf
<1>5. ASSUME NEW x \in M[a] PROVE Min({x + N, Horizon}) = x + N
  <2>1. x \in Nat /\ x + N < p
    BY <1>3, <1>4
  <2>2. x + N \in Int /\ Horizon \in Int /\ x + N <= Horizon
    BY <1>1, <2>1 DEF Grown
  <2>3. QED
    BY <2>2, SmallerOf
<1>6. {Min({x + N, Horizon}) : x \in M[a]} = {x + N : x \in M[a]}
  BY <1>5
<1>7. QED
  BY <1>4, <1>6 DEF Older

-----------------------------------------------------------------------------
(* Overlap and save.                                                       *)

(* What a stage sees: a block, and the c samples before it, a block older. *)
LEMMA HalfSeen ==
  ASSUME NEW c \in Nat \ {0}, NEW half, DOMAIN half = 0 .. c - 1, NEW b,
         NEW G, Signal(G), NEW M, KeptOf(M, G), NEW n, NEW p, Grown(n, p),
         HalfCarries(half, c, G, M, n), BlockCarries(b, G, M, p),
         NEW y \in (0 - c) .. N - 1, G[N - 1 - y] \subseteq 0 .. p - 1
  PROVE  At(Aged(half), b, c, y) = M[N - 1 - y]
<1>1. N \in Nat \ {0}
  BY NatN
<1>2. CASE y < 0
  <2>1. c + y \in 0 .. c - 1 /\ c - 1 - (c + y) = 0 - 1 - y /\ 0 - 1 - y \in Nat
    BY <1>1, <1>2
  <2>2. At(Aged(half), b, c, y) = Older(half[c + y])
    BY <1>2, <2>1 DEF At, Aged
  <2>3. G[0 - 1 - y] \subseteq 0 .. n - 1 => half[c + y] = M[0 - 1 - y]
    BY <2>1 DEF HalfCarries
  <2>4. (0 - 1 - y) + N = N - 1 - y
    BY <1>1
  <2>5. G[(0 - 1 - y) + N] \subseteq 0 .. p - 1
    BY <2>4
  <2>6. Older(half[c + y]) = M[(0 - 1 - y) + N]
    BY <2>1, <2>3, <2>5, OlderIs
  <2>7. QED
    BY <2>2, <2>4, <2>6
<1>3. CASE y >= 0
  <2>1. y \in Index /\ ~(y < 0)
    BY <1>1, <1>3 DEF Index
  <2>2. QED
    BY <2>1 DEF At, BlockCarries
<1>4. QED
  BY <1>2, <1>3

LEMMA HalfSaved ==
  ASSUME NEW c \in Nat \ {0}, c <= N, NEW b, NEW G, NEW M, NEW n, BlockCarries(b, G, M, n)
  PROVE  HalfCarries(Saved(b, c), c, G, M, n) /\ DOMAIN Saved(b, c) = 0 .. c - 1
<1>1. ASSUME NEW x \in 0 .. c - 1
      PROVE  /\ N - c + x \in Index /\ N - 1 - (N - c + x) = c - 1 - x
             /\ Saved(b, c)[x] = b[N - c + x]
  BY NatN DEF Index, Saved
<1>2. QED
  BY <1>1 DEF HalfCarries, BlockCarries, Saved

(* The coefficients of a product of transforms go with the samples that    *)
(* they are meant for, but for those that wrap around.                     *)
LEMMA TapPlace ==
  ASSUME NEW c \in Nat \ {0}, NEW e \in 1 .. c, NEW m \in 0 .. c - 1, NEW t \in 0 .. c
  PROVE  (m - (c - e + t)) % (2 * c) =
           IF m + e - t >= c THEN m + e - t - c ELSE m + e - t + c
<1> DEFINE d == m - (c - e + t)
<1>1. d \in Int /\ 2 * c \in Nat \ {0} /\ d < 2 * c /\ d >= 0 - (2 * c) /\ d = m + e - t - c
  OBVIOUS
<1>2. CASE m + e - t >= c
  <2>1. d \in 0 .. 2 * c - 1
    BY <1>1, <1>2
  <2>2. d % (2 * c) = d
    BY <1>1, <2>1, Small, Zenon
  <2>3. QED
    BY <1>1, <1>2, <2>2
<1>3. CASE ~(m + e - t >= c)
  <2>1. d < 0
    BY <1>1, <1>3
  <2>2. d % (2 * c) = d + 2 * c
    BY <1>1, <2>1, Wrapped, Zenon
  <2>3. d + 2 * c = m + e - t + c
    BY <1>1
  <2>4. QED
    BY <1>3, <2>2, <2>3
<1>4. QED
  BY <1>2, <1>3

(* The block that a sample is in, and its place in it.                     *)
LEMMA ChunkOf ==
  ASSUME NEW c \in Nat \ {0}, N % c = 0, NEW i \in Index, NEW start, start = (i \div c) * c
  PROVE  /\ start \in Nat /\ i - start \in 0 .. c - 1 /\ start + c <= N
         /\ (N - 1 - i) % c = c - 1 - (i - start)
<1>0. N \in Nat \ {0} /\ N \in Int /\ i \in Int /\ i >= 0 /\ i < N /\ c \in Int
  BY NatN DEF Index
<1>1. i \div c \in Int /\ i = c * (i \div c) + (i % c) /\ i % c \in 0 .. c - 1
  BY <1>0
<1>2. PICK q \in Int : q = i \div c /\ start = c * q /\ i - start \in 0 .. c - 1
  BY <1>0, <1>1
<1>3. start \in Int
  BY <1>2, Times
<1>4. start >= 0
  <2>1. SUFFICES ASSUME q < 0 PROVE FALSE
    BY <1>2
  <2>2. c * (0 - (q + 1)) >= 0
    BY <2>1
  <2>3. c * (0 - (q + 1)) = c * 0 - c * (q + 1) /\ c * (q + 1) = c * q + c * 1
    BY <1>0, Times
  <2>4. c * 0 = 0 /\ c * 1 = c
    OBVIOUS
  <2>5. QED
    BY <1>0, <1>2, <1>3, <2>2, <2>3, <2>4
<1>5. PICK r \in Int : N = c * r
  <2>1. PICK r \in Int : N = c * r + (N % c)
    BY <1>0, Divided, Zenon
  <2>2. c * r \in Int
    BY <1>0, Times
  <2>3. N = c * r + 0
    BY <2>1, Zenon
  <2>4. QED
    BY <2>2, <2>3
<1>6. start + c <= N
  <2>1. SUFFICES ASSUME start + c > N PROVE FALSE
    BY <1>0, <1>3
  <2>2. c * (q + 1) = c * q + c * 1 /\ c * (r - q) = c * r - c * q /\ c * 1 = c
    BY <1>0, Times
  <2>3. c * (r - q) < c /\ c * (r - q) > 0
    BY <1>0, <1>2, <1>3, <1>5, <2>1, <2>2
  <2>4. c * (r - q) = 0
    <3>1. r - q \in Int /\ c * (r - q) > 0 - c
      BY <1>0, <2>3
    <3>2. QED
      BY <2>3, <3>1, CloseMultiple, Zenon
  <2>5. QED
    BY <2>3, <2>4
<1>7. (N - 1 - i) % c = c - 1 - (i - start)
  <2>1. N - 1 - i = (c * r - c * q - c) + (c - 1 - (i - start))
    BY <1>0, <1>2, <1>3, <1>5
  <2>2. c * ((r - q) - 1) = c * r - c * q - c
    <3>1. c * ((r - q) - 1) = c * (r - q) - c * 1 /\ c * (r - q) = c * r - c * q
      BY <1>0, Times
    <3>2. QED
      BY <3>1
  <2>3. c - 1 - (i - start) \in 0 .. c - 1 /\ (r - q) - 1 \in Int
    BY <1>0, <1>2
  <2>4. (c * ((r - q) - 1) + (c - 1 - (i - start))) % c = c - 1 - (i - start)
    BY <2>3, RemainderIs, Zenon
  <2>5. QED
    BY <2>1, <2>2, <2>4
<1>8. QED
  BY <1>0, <1>2, <1>3, <1>4, <1>6, <1>7

(* The samples that the taps of place m of a chunk take, by their ages.    *)
LEMMA TapAges ==
  ASSUME NEW c \in Nat \ {0}, NEW e \in 1 .. c, N % c = 0, NEW i \in Index,
         NEW start, start = (i \div c) * c
  PROVE  /\ \A x \in Taps(c, e, i - start) :
              /\ start - c + x \in (0 - c) .. N - 1
              /\ N - 1 - (start - c + x) \in Fir(c, e, N - 1 - i)
         /\ \A y \in Fir(c, e, N - 1 - i) :
              \E x \in Taps(c, e, i - start) : y = N - 1 - (start - c + x)
<1>0. N \in Nat \ {0} /\ i \in Int /\ i >= 0 /\ i < N /\ N - 1 - i \in Nat
  BY NatN DEF Index
<1>1. /\ start \in Nat /\ i - start \in 0 .. c - 1 /\ start + c <= N
      /\ (N - 1 - i) % c = c - 1 - (i - start)
  BY ChunkOf
<1>2. PICK m \in 0 .. c - 1 : m = i - start
  BY <1>1
<1> DEFINE place(t) == IF m + e - t >= c THEN m + e - t - c ELSE m + e - t + c
           age(t) == AskedAge(c, t, N - 1 - i)
<1>3. Taps(c, e, m) = {place(t) : t \in 0 .. c}
  <2>1. \A t \in 0 .. c : (m - (c - e + t)) % (2 * c) = place(t)
    BY TapPlace
  <2> HIDE DEF place
  <2>2. QED
    BY <2>1 DEF Taps
<1>4. Fir(c, e, N - 1 - i) = {age(t) : t \in 0 - e .. c - e}
  BY <1>0, FirOf
<1>5. ASSUME NEW t \in 0 .. c
      PROVE  /\ start - c + place(t) \in (0 - c) .. N - 1
             /\ N - 1 - (start - c + place(t)) = age(t - e)
  <2>0. /\ i = start + m
        /\ age(t - e) = IF (c - 1 - m) + (t - e) < 0 THEN N - 1 - i + (t - e) + 2 * c
                                                     ELSE N - 1 - i + (t - e)
    BY <1>0, <1>1, <1>2 DEF AskedAge
  <2>1. CASE m + e - t >= c
    <3>1. place(t) = m + e - t - c /\ age(t - e) = N - 1 - i + (t - e) + 2 * c
      BY <2>0, <2>1
    <3>2. QED
      BY <1>0, <1>1, <2>0, <2>1, <3>1
  <2>2. CASE ~(m + e - t >= c)
    <3>1. place(t) = m + e - t + c /\ age(t - e) = N - 1 - i + (t - e)
      BY <2>0, <2>2
    <3>2. QED
      BY <1>0, <1>1, <2>0, <2>2, <3>1
  <2>3. QED
    BY <2>1, <2>2
<1> HIDE DEF place, age
<1>6. ASSUME NEW x \in Taps(c, e, m)
      PROVE  /\ start - c + x \in (0 - c) .. N - 1
             /\ N - 1 - (start - c + x) \in Fir(c, e, N - 1 - i)
  <2>1. PICK t \in 0 .. c : x = place(t)
    BY <1>3
  <2>2. t - e \in 0 - e .. c - e
    OBVIOUS
  <2>3. QED
    BY <1>4, <1>5, <2>1, <2>2
<1>7. ASSUME NEW y \in Fir(c, e, N - 1 - i)
      PROVE  \E x \in Taps(c, e, m) : y = N - 1 - (start - c + x)
  <2>1. PICK u \in 0 - e .. c - e : y = age(u)
    BY <1>4
  <2>2. u + e \in 0 .. c /\ (u + e) - e = u
    OBVIOUS
  <2>3. place(u + e) \in Taps(c, e, m) /\ N - 1 - (start - c + place(u + e)) = age((u + e) - e)
    BY <1>3, <1>5, <2>2
  <2>4. QED
    BY <2>1, <2>2, <2>3
<1>8. QED
  BY <1>2, <1>6, <1>7

(* An overlap-save filter does what its coefficients ask for.              *)
LEMMA OvSvStage ==
  ASSUME NEW c \in Nat \ {0}, NEW e \in 1 .. c, N % c = 0, c <= N, NEW half, DOMAIN half = 0 .. c - 1, NEW b,
         NEW G, Signal(G), NEW M, KeptOf(M, G), NEW n, NEW p, Grown(n, p),
         HalfCarries(half, c, G, M, n), BlockCarries(b, G, M, p)
  PROVE  BlockCarries(filter_OvSv(Aged(half), b, c, e), Via(ByFir(c, e), G), Via(ByFir(c, e), M), p)
<1>1. SUFFICES ASSUME NEW i \in Index, Via(ByFir(c, e), G)[N - 1 - i] \subseteq 0 .. p - 1
               PROVE  filter_OvSv(Aged(half), b, c, e)[i] = Via(ByFir(c, e), M)[N - 1 - i]
  BY DEF BlockCarries
<1>2. N - 1 - i \in Nat /\ Signal(ByFir(c, e)) /\ ByFir(c, e)[N - 1 - i] = Fir(c, e, N - 1 - i)
  BY NatN, FirSignal DEF Index, ByFir
<1>3. PICK start : start = (i \div c) * c
  OBVIOUS
<1>4. /\ \A x \in Taps(c, e, i - start) :
           /\ start - c + x \in (0 - c) .. N - 1
           /\ N - 1 - (start - c + x) \in Fir(c, e, N - 1 - i)
      /\ \A y \in Fir(c, e, N - 1 - i) :
           \E x \in Taps(c, e, i - start) : y = N - 1 - (start - c + x)
  BY <1>3, TapAges
<1>5. Via(ByFir(c, e), G)[N - 1 - i] = UNION {G[y] : y \in Fir(c, e, N - 1 - i)}
  BY <1>2 DEF Via
<1>6. ASSUME NEW x \in Taps(c, e, i - start)
      PROVE  At(Aged(half), b, c, start - c + x) = M[N - 1 - (start - c + x)]
  <2>1. /\ start - c + x \in (0 - c) .. N - 1
        /\ G[N - 1 - (start - c + x)] \subseteq 0 .. p - 1
    BY <1>1, <1>4, <1>5
  <2>2. QED
    BY <2>1, HalfSeen
<1>7. filter_OvSv(Aged(half), b, c, e)[i] =
        UNION {At(Aged(half), b, c, start - c + x) : x \in Taps(c, e, i - start)}
  BY <1>3 DEF filter_OvSv
<1>8. {At(Aged(half), b, c, start - c + x) : x \in Taps(c, e, i - start)} =
        {M[y] : y \in Fir(c, e, N - 1 - i)}
  BY <1>4, <1>6
<1>9. Via(ByFir(c, e), M)[N - 1 - i] = UNION {M[y] : y \in Fir(c, e, N - 1 - i)}
  BY <1>2 DEF Via
<1>10. QED
  BY <1>7, <1>8, <1>9

(* The adaptive filter that works a chunk at a time.                       *)
LEMMA BlmsStage ==
  ASSUME NEW half, DOMAIN half = 0 .. LmsChunk - 1, NEW b,
         NEW G, Signal(G), NEW n, NEW p, Grown(n, p),
         HalfCarries(half, LmsChunk, G, G, n), BlockCarries(b, G, G, p)
  PROVE  BlockCarries(blms_adapt(Aged(half), b), Via(ByBlms, G), Via(ByBlms, G), p)
<1>0. LmsChunk \in Nat \ {0} /\ N \in Nat \ {0} /\ KeptOf(G, G)
  BY BlocksAssumption, KeptWhole
<1>1. SUFFICES ASSUME NEW i \in Index, Via(ByBlms, G)[N - 1 - i] \subseteq 0 .. p - 1
               PROVE  blms_adapt(Aged(half), b)[i] = Via(ByBlms, G)[N - 1 - i]
  BY DEF BlockCarries
<1>2. N - 1 - i \in Nat /\ i \in Int /\ i < N /\ i >= 0
  BY <1>0 DEF Index
<1>3. Via(ByBlms, G)[N - 1 - i] = UNION {G[y] : y \in Blms(N - 1 - i)}
  BY <1>2 DEF Via, ByBlms
<1>4. \A y \in i - LmsChunk + 1 .. i :
        y \in (0 - LmsChunk) .. N - 1 /\ N - 1 - y \in Blms(N - 1 - i)
  <2>1. ASSUME NEW y \in i - LmsChunk + 1 .. i
        PROVE  /\ i - y \in 0 .. LmsChunk - 1 /\ N - 1 - y = (N - 1 - i) + (i - y)
               /\ y \in (0 - LmsChunk) .. N - 1
    BY <1>0, <1>2
  <2>2. QED
    BY <2>1 DEF Blms
<1>5. \A z \in Blms(N - 1 - i) :
        \E y \in i - LmsChunk + 1 .. i : z = N - 1 - y
  <2>1. SUFFICES ASSUME NEW j \in 0 .. LmsChunk - 1
                 PROVE  \E y \in i - LmsChunk + 1 .. i : (N - 1 - i) + j = N - 1 - y
    BY DEF Blms
  <2>2. i - j \in i - LmsChunk + 1 .. i /\ (N - 1 - i) + j = N - 1 - (i - j)
    BY <1>0, <1>2
  <2>3. QED
    BY <2>2
<1>6. ASSUME NEW y \in i - LmsChunk + 1 .. i
      PROVE  At(Aged(half), b, LmsChunk, y) = G[N - 1 - y]
  <2>1. y \in (0 - LmsChunk) .. N - 1 /\ G[N - 1 - y] \subseteq 0 .. p - 1
    BY <1>1, <1>3, <1>4
  <2>2. QED
    BY <1>0, <2>1, HalfSeen
<1>7. {At(Aged(half), b, LmsChunk, y) : y \in i - LmsChunk + 1 .. i} =
        {G[z] : z \in Blms(N - 1 - i)}
  BY <1>4, <1>5, <1>6
<1>8. blms_adapt(Aged(half), b)[i] =
        UNION {At(Aged(half), b, LmsChunk, y) : y \in i - LmsChunk + 1 .. i}
  BY DEF blms_adapt
<1>9. QED
  BY <1>3, <1>7, <1>8

-----------------------------------------------------------------------------
(* Rings.                                                                  *)

(* A ring: a record with a mark and a memory.                              *)
Ring(line, size) ==
  /\ DOMAIN line = {"at", "mem"} /\ line.at \in Int
  /\ DOMAIN line.mem = 0 .. size - 1

LEMMA AgedRing ==
  ASSUME NEW size, NEW line, Ring(line, size)
  PROVE  /\ Ring(AgedLine(line), size) /\ AgedLine(line).at = line.at
         /\ \A s \in 0 .. size - 1 : AgedLine(line).mem[s] = Older(line.mem[s])
  BY DEF Ring, AgedLine, Aged

LEMMA SlotIs ==
  ASSUME NEW size \in Nat \ {0}, NEW line, Ring(line, size), NEW d \in Int, NEW i \in Int
  PROVE  Slot(line, d, i) = (line.at + d - i) % size /\ Slot(line, d, i) \in 0 .. size - 1
<1>1. Cardinality(0 .. size - 1) = size
  <2>1. 0 \in Int /\ size - 1 \in Int /\ 0 <= size - 1 /\ (size - 1) - 0 + 1 = size
    OBVIOUS
  <2>2. QED
    BY <2>1, FS_Interval
<1>2. line.at + d - i \in Int
  BY DEF Ring
<1>3. (line.at + d - i) % size \in 0 .. size - 1
  BY <1>2, Divided, Zenon
<1>4. QED
  BY <1>1, <1>3 DEF Slot, Ring

(* The samples of a block up to sample i that are written to the slot d    *)
(* above the mark: the last one is d before i.                             *)
LEMMA Landing ==
  ASSUME NEW size \in Nat \ {0}, NEW line, Ring(line, size),
         NEW d \in 0 .. size - 1, NEW i \in Nat, NEW in,
         in = {j \in 0 .. i : Slot(line, 0, j) = Slot(line, d, i)}
  PROVE  /\ d <= i => in # {} /\ Max(in) = i - d
         /\ d > i => in = {}
<1> DEFINE slot == (line.at + d - i) % size
<1>1. Slot(line, d, i) = slot
  BY SlotIs
<1>2. \A j \in 0 .. i : Slot(line, 0, j) = (line.at - j) % size
  <2>1. ASSUME NEW j \in 0 .. i PROVE Slot(line, 0, j) = (line.at + 0 - j) % size
    BY SlotIs
  <2>2. \A j \in 0 .. i : line.at + 0 - j = line.at - j
    BY DEF Ring
  <2>3. QED
    BY <2>1, <2>2
<1>3. ASSUME NEW j \in 0 .. i, (line.at - j) % size = slot, j >= i - d
      PROVE  j = i - d
  <2>1. line.at - j \in Int /\ line.at + d - i \in Int
    BY DEF Ring
  <2>2. (line.at + d - i) - (line.at - j) < size /\ (line.at - j) - (line.at + d - i) < size
    <3>1. PICK at \in Int : at = line.at
      BY DEF Ring
    <3>2. (at + d - i) - (at - j) < size /\ (at - j) - (at + d - i) < size
      BY <1>3
    <3>3. QED
      BY <3>1, <3>2
  <2>3. line.at - j = line.at + d - i
    BY <1>3, <2>1, <2>2, CloseRemainders, Zenon
  <2>4. QED
    BY <2>3 DEF Ring
<1>4. ASSUME d <= i PROVE in # {} /\ Max(in) = i - d
  <2>1. i - d \in 0 .. i /\ line.at - (i - d) = line.at + d - i
    BY <1>4 DEF Ring
  <2>2. i - d \in in
    BY <1>1, <1>2, <2>1
  <2>3. \A j \in in : j <= i - d
    <3>1. SUFFICES ASSUME NEW j \in in, j > i - d PROVE FALSE
      BY <2>1
    <3>2. j = i - d
      BY <1>1, <1>2, <1>3, <3>1
    <3>3. QED
      BY <3>1, <3>2
  <2>4. \A x \in in : (\A j \in in : j <= x) => x = i - d
    BY <2>1, <2>2, <2>3
  <2>5. QED
    BY <2>2, <2>3, <2>4 DEF Max
<1>5. ASSUME d > i PROVE in = {}
  <2>1. SUFFICES ASSUME NEW j \in in PROVE FALSE
    OBVIOUS
  <2>2. j \in 0 .. i /\ j >= i - d
    BY <1>5, <2>1
  <2>3. j = i - d
    BY <1>1, <1>2, <1>3, <2>1, <2>2
  <2>4. QED
    BY <1>5, <2>2, <2>3
<1>6. QED
  BY <1>4, <1>5

(* What is d slots above the mark when sample i is in: the block's own     *)
(* sample, if d samples of it have come before, or what was there.         *)
LEMMA PeekNew ==
  ASSUME NEW size \in Nat \ {0}, NEW line, Ring(line, size), NEW b,
         NEW d \in 0 .. size - 1, NEW i \in Nat, d <= i
  PROVE  Peek(line, b, d, i) = b[i - d]
<1> DEFINE in == {j \in 0 .. i : Slot(line, 0, j) = Slot(line, d, i)}
<1>1. in # {} /\ Max(in) = i - d
  BY Landing
<1>2. Peek(line, b, d, i) = b[Max(in)]
  BY <1>1, Zenon DEF Peek, Holds
<1>3. QED
  BY <1>1, <1>2

LEMMA PeekOld ==
  ASSUME NEW size \in Nat \ {0}, NEW line, Ring(line, size), NEW b,
         NEW d \in 0 .. size - 1, NEW i \in Nat, d > i
  PROVE  Peek(line, b, d, i) = line.mem[(line.at + d - i) % size]
<1> DEFINE in == {j \in 0 .. i : Slot(line, 0, j) = Slot(line, d, i)}
<1>1. in = {}
  BY Landing
<1>2. Peek(line, b, d, i) = line.mem[Slot(line, d, i)]
  BY <1>1, Zenon DEF Peek, Holds
<1>3. Slot(line, d, i) = (line.at + d - i) % size
  BY SlotIs
<1>4. QED
  BY <1>2, <1>3, Zenon

(* What a stage sees in its ring, samples in it before this block included. *)
LEMMA RingSeen ==
  ASSUME NEW size \in Nat \ {0}, NEW line, Ring(line, size), NEW b,
         NEW G, Signal(G), NEW n, NEW p, Grown(n, p),
         RingCarries(line, size, G, n), BlockCarries(b, G, G, p),
         NEW d \in 0 .. size - 1, NEW i \in Index, G[N - 1 - i + d] \subseteq 0 .. p - 1
  PROVE  Peek(AgedLine(line), b, d, i) = G[N - 1 - i + d]
<1>0. N \in Nat \ {0} /\ i \in Nat /\ i < N
  BY NatN DEF Index
<1>1. /\ Ring(AgedLine(line), size) /\ AgedLine(line).at = line.at
      /\ \A s \in 0 .. size - 1 : AgedLine(line).mem[s] = Older(line.mem[s])
  BY AgedRing
<1>2. CASE d <= i
  <2>1. Peek(AgedLine(line), b, d, i) = b[i - d]
    BY <1>0, <1>1, <1>2, PeekNew
  <2>2. i - d \in Index /\ N - 1 - (i - d) = N - 1 - i + d
    BY <1>0, <1>2 DEF Index
  <2>3. QED
    BY <2>1, <2>2 DEF BlockCarries
<1>3. CASE d > i
  <2>1. PICK a \in 0 .. size - 1 : a = d - i - 1
    BY <1>0, <1>3
  <2>2. line.at + d - i = line.at + a + 1 /\ line.at + a + 1 \in Int
    BY <1>0, <2>1 DEF Ring
  <2>3. (line.at + a + 1) % size \in 0 .. size - 1
    BY <2>2, Divided, Zenon
  <2>4. Peek(AgedLine(line), b, d, i) = Older(line.mem[(line.at + a + 1) % size])
    <3>1. d > i
      BY <1>3
    <3>2. Peek(AgedLine(line), b, d, i) = AgedLine(line).mem[(AgedLine(line).at + d - i) % size]
      BY <1>0, <1>1, <3>1, PeekOld
    <3>3. QED
      BY <1>1, <2>2, <2>3, <3>2
  <2>5. a + N = N - 1 - i + d /\ a \in Nat
    BY <1>0, <2>1
  <2>6. G[a] \subseteq 0 .. n - 1 => line.mem[(line.at + a + 1) % size] = G[a]
    BY DEF RingCarries
  <2>7. Older(line.mem[(line.at + a + 1) % size]) = G[a + N]
    <3>1. KeptOf(G, G) /\ G[a + N] \subseteq 0 .. p - 1
      BY <2>5, KeptWhole
    <3>2. QED
      BY <2>5, <2>6, <3>1, OlderIs
  <2>8. QED
    BY <2>4, <2>5, <2>7
<1>4. QED
  BY <1>0, <1>2, <1>3

LEMMA PushedRing ==
  ASSUME NEW size \in Nat \ {0}, NEW line, Ring(line, size), NEW b, NEW have \in Int
  PROVE  Ring(Pushed(line, b, have), size)
<1>1. Slot(line, 0, have) \in 0 .. size - 1
  BY SlotIs
<1>2. QED
  BY <1>1 DEF Pushed, Ring

LEMMA RingPushed ==
  ASSUME NEW size \in Nat \ {0}, NEW line, Ring(line, size), NEW b,
         NEW G, Signal(G), NEW n, NEW p, Grown(n, p),
         RingCarries(line, size, G, n), BlockCarries(b, G, G, p)
  PROVE  RingCarries(Pushed(AgedLine(line), b, N), size, G, p)
<1>0. N \in Nat \ {0} /\ N - 1 \in Index /\ N - 1 \in Int /\ N \in Int
  BY NatN DEF Index
<1>1. Ring(AgedLine(line), size) /\ AgedLine(line).at \in Int
  BY AgedRing DEF Ring
<1> DEFINE old == AgedLine(line)
           new == Pushed(old, b, N)
<1>2. new.at = (old.at - N) % size
  <2>1. new.at = Slot(old, 0, N)
    BY DEF Pushed
  <2>2. Slot(old, 0, N) = (old.at + 0 - N) % size
    BY <1>0, <1>1, SlotIs
  <2>3. old.at + 0 - N = old.at - N
    BY <1>0, <1>1
  <2>4. QED
    BY <2>1, <2>2, <2>3
<1>3. ASSUME NEW a \in 0 .. size - 1
      PROVE  (new.at + a + 1) % size = Slot(old, a, N - 1)
  <2>1. (((old.at - N) % size) + (a + 1)) % size = ((old.at - N) + (a + 1)) % size
    <3>1. old.at - N \in Int /\ a + 1 \in Int
      BY <1>0, <1>1
    <3>2. QED
      BY <3>1, RemainderPlus, Zenon
  <2>2. (old.at - N) + (a + 1) = old.at + a - (N - 1)
    BY <1>0, <1>1
  <2>3. (old.at - N) % size \in Int
    <3>1. old.at - N \in Int
      BY <1>0, <1>1
    <3>2. (old.at - N) % size \in 0 .. size - 1
      BY <3>1, Divided, Zenon
    <3>3. QED
      BY <3>2
  <2>4. new.at + a + 1 = ((old.at - N) % size) + (a + 1)
    BY <1>2, <2>3
  <2>5. Slot(old, a, N - 1) = (old.at + a - (N - 1)) % size
    BY <1>0, <1>1, SlotIs
  <2>6. QED
    BY <2>1, <2>2, <2>4, <2>5
<1>4. ASSUME NEW a \in 0 .. size - 1, G[a] \subseteq 0 .. p - 1
      PROVE  new.mem[(new.at + a + 1) % size] = G[a]
  <2>1. Slot(old, a, N - 1) \in 0 .. size - 1
    BY <1>0, <1>1, SlotIs
  <2>2. new.mem[Slot(old, a, N - 1)] = Peek(old, b, a, N - 1)
    <3>1. DOMAIN old.mem = 0 .. size - 1
      BY <1>1 DEF Ring
    <3>2. QED
      BY <2>1, <3>1 DEF Pushed, Peek
  <2>3. N - 1 - (N - 1) + a = a
    BY <1>0
  <2>4. Peek(old, b, a, N - 1) = G[N - 1 - (N - 1) + a]
    <3>1. G[N - 1 - (N - 1) + a] \subseteq 0 .. p - 1
      BY <1>4, <2>3
    <3>2. QED
      BY <1>0, <3>1, RingSeen
  <2>5. QED
    BY <1>3, <2>2, <2>3, <2>4
<1>5. QED
  BY <1>4 DEF RingCarries

-----------------------------------------------------------------------------
(* The stages with rings.                                                  *)

LEMMA PeekStage ==
  ASSUME NEW size \in Nat \ {0}, NEW line, Ring(line, size), NEW b,
         NEW G, Signal(G), NEW n, NEW p, Grown(n, p),
         RingCarries(line, size, G, n), BlockCarries(b, G, G, p),
         NEW d \in 0 .. size - 1, NEW out,
         \A i \in Index : out[i] = Peek(AgedLine(line), b, d, i)
  PROVE  BlockCarries(out, Via(Later(d), G), Via(Later(d), G), p)
<1>1. ASSUME NEW i \in Index, Via(Later(d), G)[N - 1 - i] \subseteq 0 .. p - 1
      PROVE  out[i] = Via(Later(d), G)[N - 1 - i]
  <2>1. N - 1 - i \in Nat
    BY NatN DEF Index
  <2>2. Via(Later(d), G)[N - 1 - i] = G[N - 1 - i + d]
    BY <2>1 DEF Via, Later
  <2>3. G[N - 1 - i + d] \subseteq 0 .. p - 1
    BY <1>1, <2>2
  <2>4. Peek(AgedLine(line), b, d, i) = G[N - 1 - i + d]
    BY <2>3, RingSeen
  <2>5. QED
    BY <2>2, <2>4
<1>2. QED
  BY <1>1 DEF BlockCarries

LEMMA EstimateIs ==
  ASSUME NEW line, Ring(line, LmsSlots), NEW b,
         NEW G, Signal(G), NEW n, NEW p, Grown(n, p),
         RingCarries(line, LmsSlots, G, n), BlockCarries(b, G, G, p),
         NEW i \in Index, Via(ByLms, G)[N - 1 - i] \subseteq 0 .. p - 1
  PROVE  Estimate(AgedLine(line), b, i) = Via(ByLms, G)[N - 1 - i]
<1>1. LmsDelay \in Nat /\ LmsTaps \in Nat \ {0} /\ LmsSlots \in Nat \ {0} /\ LmsDelay + LmsTaps <= LmsSlots
  BY BlocksAssumption
<1>2. N - 1 - i \in Nat
  BY NatN DEF Index
<1>3. Via(ByLms, G)[N - 1 - i] = UNION {G[y] : y \in Lms(N - 1 - i)}
  BY <1>2 DEF Via, ByLms
<1>4. Lms(N - 1 - i) = {N - 1 - i + LmsDelay + j : j \in 0 .. LmsTaps - 1}
  BY DEF Lms
<1>5. ASSUME NEW j \in 0 .. LmsTaps - 1
      PROVE  Peek(AgedLine(line), b, LmsDelay + j, i) = G[N - 1 - i + LmsDelay + j]
  <2>1. LmsDelay + j \in 0 .. LmsSlots - 1 /\ N - 1 - i + LmsDelay + j = N - 1 - i + (LmsDelay + j)
    BY <1>1, <1>2
  <2>2. G[N - 1 - i + LmsDelay + j] \subseteq 0 .. p - 1
    BY <1>3, <1>4
  <2>3. QED
    BY <1>1, <2>1, <2>2, RingSeen
<1>6. {Peek(AgedLine(line), b, LmsDelay + j, i) : j \in 0 .. LmsTaps - 1} =
        {G[y] : y \in Lms(N - 1 - i)}
  BY <1>4, <1>5
<1>7. QED
  BY <1>3, <1>6 DEF Estimate

LEMMA LmsStages ==
  ASSUME NEW line, Ring(line, LmsSlots), NEW b,
         NEW G, Signal(G), NEW n, NEW p, Grown(n, p),
         RingCarries(line, LmsSlots, G, n), BlockCarries(b, G, G, p)
  PROVE  /\ BlockCarries(lmsr_adapt_n(AgedLine(line), b), Via(ByLms, G), Via(ByLms, G), p)
         /\ BlockCarries(lmsr_adapt_i(AgedLine(line), b), Via(ByError, G), Via(ByError, G), p)
<1>1. ASSUME NEW i \in Index, Via(ByLms, G)[N - 1 - i] \subseteq 0 .. p - 1
      PROVE  lmsr_adapt_n(AgedLine(line), b)[i] = Via(ByLms, G)[N - 1 - i]
  BY <1>1, EstimateIs DEF lmsr_adapt_n
<1>2. ASSUME NEW i \in Index, Via(ByError, G)[N - 1 - i] \subseteq 0 .. p - 1
      PROVE  lmsr_adapt_i(AgedLine(line), b)[i] = Via(ByError, G)[N - 1 - i]
  <2>1. N - 1 - i \in Nat
    BY NatN DEF Index
  <2>2. Via(ByError, G)[N - 1 - i] = G[N - 1 - i] \cup Via(ByLms, G)[N - 1 - i]
    BY <2>1 DEF Via, ByError, ByLms
  <2>3. b[i] = G[N - 1 - i]
    BY <1>2, <2>2 DEF BlockCarries
  <2>4. Estimate(AgedLine(line), b, i) = Via(ByLms, G)[N - 1 - i]
    BY <1>2, <2>2, EstimateIs
  <2>5. QED
    BY <2>2, <2>3, <2>4 DEF lmsr_adapt_i
<1>3. QED
  BY <1>1, <1>2 DEF BlockCarries

(* Without a break nothing is blanked.                                     *)
LEMMA NotBlanked ==
  ASSUME NEW i \in Index
  PROVE  ~Blanked(0, NoPulse, i)
  BY NatN DEF Blanked, NoPulse, Index, NbHang

-----------------------------------------------------------------------------
(* The receiver.                                                           *)

SigClean(s)     == [a \in Nat |-> Clean(s, a)]
SigFiltered(s)  == [a \in Nat |-> Filtered(s, a)]
SigLevel(s)     == [a \in Nat |-> Level(s, a)]
SigStill(s)     == [a \in Nat |-> Still(s, a)]
SigNotchless(s) == [a \in Nat |-> Notchless(s, a)]
SigDetected(s)  == [a \in Nat |-> Detected(s, a)]

(* No filter is earlier than its chunk is long.                            *)
LEMMA Earliness ==
  /\ 1 \in 1 .. N
  /\ \A s \in RxSettings : s.early \in 1 .. EqChunk
  /\ \A t \in TxSettings : t.early \in 1 .. EqChunk
<1>1. 1 .. 2 \subseteq 1 .. EqChunk /\ 1 \in 1 .. N
  BY BlocksAssumption
<1>2. QED
  BY <1>1 DEF RxSettings, TxSettings

(* Each point of the chain from the one before.                            *)
LEMMA RxPoints ==
  ASSUME NEW s \in RxSettings
  PROVE  /\ SigClean(s) = IF s.nb THEN Via(Later(NbDelay), Plainly) ELSE Plainly
         /\ SigFiltered(s) = IF s.mode = "SPEC" THEN SigClean(s) ELSE Via(ByFir(N, 1), SigClean(s))
         /\ SigLevel(s) = Via(Later(s.agc), SigFiltered(s))
         /\ s.agc = 0 => SigLevel(s) = SigFiltered(s)
         /\ SigStill(s) = IF BlockNoise(s) THEN Via(ByBlms, SigLevel(s))
                          ELSE IF SampleNoise(s) THEN Via(ByLms, SigLevel(s)) ELSE SigLevel(s)
         /\ SigNotchless(s) = IF BlockNotch(s) THEN Via(ByBlms, SigStill(s))
                          ELSE IF SampleNotch(s) THEN Via(ByError, SigStill(s)) ELSE SigStill(s)
         /\ SigDetected(s) = IF s.eq THEN Via(ByFir(EqChunk, s.early), SigNotchless(s)) ELSE SigNotchless(s)
<1>1. \A a \in Nat : Fir(N, 1, a) \subseteq Nat /\ Fir(EqChunk, s.early, a) \subseteq Nat
  <2>1. EqChunk \in Nat \ {0} /\ N % EqChunk = 0 /\ N \in Nat \ {0}
    BY BlocksAssumption
  <2>2. N % N = 0
    <3>1. N = N * 1 + 0 /\ 0 \in 0 .. N - 1
      BY <2>1
    <3>2. QED
      BY <2>1, <3>1, RemainderIs
  <2>3. 1 \in 1 .. N /\ s.early \in 1 .. EqChunk
    BY Earliness
  <2>4. QED
    BY <2>1, <2>2, <2>3, FirOf
<1>2. \A a \in Nat : Lms(a) \subseteq Nat /\ Blms(a) \subseteq Nat
  BY BlocksAssumption DEF Lms, Blms
<1>3. s.agc \in Nat /\ NbDelay = 2
  BY NatN DEF RxSettings, AgcSlots, NbDelay
<1>4. SigClean(s) = IF s.nb THEN Via(Later(NbDelay), Plainly) ELSE Plainly
  <2>1. CASE s.nb
    <3>1. \A a \in Nat : Via(Later(NbDelay), Plainly)[a] = {a + NbDelay}
      BY <1>3 DEF Via, Later, Plainly
    <3>2. \A a \in Nat : Clean(s, a) = {a + NbDelay}
      BY <2>1 DEF Clean
    <3>3. QED
      BY <2>1, <3>1, <3>2 DEF SigClean, Via
  <2>2. CASE ~s.nb
    <3>1. \A a \in Nat : Clean(s, a) = {a}
      BY <2>2 DEF Clean
    <3>2. QED
      BY <2>2, <3>1 DEF SigClean, Plainly
  <2>3. QED
    BY <2>1, <2>2
<1>5. SigFiltered(s) = IF s.mode = "SPEC" THEN SigClean(s) ELSE Via(ByFir(N, 1), SigClean(s))
  <2>1. CASE s.mode = "SPEC"
    <3>1. \A a \in Nat : Filtered(s, a) = Clean(s, a)
      BY <2>1 DEF Filtered
    <3>2. QED
      BY <2>1, <3>1 DEF SigFiltered, SigClean
  <2>2. CASE s.mode # "SPEC"
    <3>1. \A a \in Nat : Filtered(s, a) = UNION {SigClean(s)[x] : x \in ByFir(N, 1)[a]}
      BY <1>1, <2>2 DEF Filtered, SigClean, ByFir
    <3>2. QED
      BY <2>2, <3>1 DEF SigFiltered, Via
  <2>3. QED
    BY <2>1, <2>2
<1>6. SigLevel(s) = Via(Later(s.agc), SigFiltered(s)) /\ (s.agc = 0 => SigLevel(s) = SigFiltered(s))
  BY <1>3 DEF SigLevel, Level, Via, Later, SigFiltered
<1>7. SigStill(s) = IF BlockNoise(s) THEN Via(ByBlms, SigLevel(s))
                    ELSE IF SampleNoise(s) THEN Via(ByLms, SigLevel(s)) ELSE SigLevel(s)
  <2>1. \A a \in Nat : Still(s, a) = UNION {SigLevel(s)[x] : x \in NoiseTaps(s, a)}
    BY <1>2 DEF Still, SigLevel, NoiseTaps
  <2>2. \A a \in Nat : NoiseTaps(s, a) = IF BlockNoise(s) THEN ByBlms[a]
                                         ELSE IF SampleNoise(s) THEN ByLms[a] ELSE {a}
    BY DEF NoiseTaps, ByBlms, ByLms
  <2>3. \A a \in Nat : UNION {SigLevel(s)[x] : x \in {a}} = Level(s, a)
    BY DEF SigLevel
  <2>4. CASE BlockNoise(s)
    BY <2>1, <2>2, <2>4 DEF SigStill, Via
  <2>5. CASE ~BlockNoise(s) /\ SampleNoise(s)
    BY <2>1, <2>2, <2>5 DEF SigStill, Via
  <2>6. CASE ~BlockNoise(s) /\ ~SampleNoise(s)
    <3>1. \A a \in Nat : Still(s, a) = Level(s, a)
      BY <2>1, <2>2, <2>3, <2>6
    <3>2. QED
      BY <2>6, <3>1 DEF SigStill, SigLevel
  <2>7. QED
    BY <2>4, <2>5, <2>6
<1>8. SigNotchless(s) = IF BlockNotch(s) THEN Via(ByBlms, SigStill(s))
                    ELSE IF SampleNotch(s) THEN Via(ByError, SigStill(s)) ELSE SigStill(s)
  <2>1. \A a \in Nat : Notchless(s, a) = UNION {SigStill(s)[x] : x \in NotchTaps(s, a)}
    BY <1>2 DEF Notchless, SigStill, NotchTaps
  <2>2. \A a \in Nat : NotchTaps(s, a) = IF BlockNotch(s) THEN ByBlms[a]
                                         ELSE IF SampleNotch(s) THEN ByError[a] ELSE {a}
    BY DEF NotchTaps, ByBlms, ByError
  <2>3. \A a \in Nat : UNION {SigStill(s)[x] : x \in {a}} = Still(s, a)
    BY DEF SigStill
  <2>4. CASE BlockNotch(s)
    BY <2>1, <2>2, <2>4 DEF SigNotchless, Via
  <2>5. CASE ~BlockNotch(s) /\ SampleNotch(s)
    BY <2>1, <2>2, <2>5 DEF SigNotchless, Via
  <2>6. CASE ~BlockNotch(s) /\ ~SampleNotch(s)
    <3>1. \A a \in Nat : Notchless(s, a) = Still(s, a)
      BY <2>1, <2>2, <2>3, <2>6
    <3>2. QED
      BY <2>6, <3>1 DEF SigNotchless, SigStill
  <2>7. QED
    BY <2>4, <2>5, <2>6
<1>9. SigDetected(s) = IF s.eq THEN Via(ByFir(EqChunk, s.early), SigNotchless(s)) ELSE SigNotchless(s)
  <2>1. CASE s.eq
    <3>1. \A a \in Nat : Detected(s, a) = UNION {SigNotchless(s)[x] : x \in ByFir(EqChunk, s.early)[a]}
      BY <1>1, <2>1 DEF Detected, SigNotchless, ByFir
    <3>2. QED
      BY <2>1, <3>1 DEF SigDetected, Via
  <2>2. CASE ~s.eq
    <3>1. \A a \in Nat : Detected(s, a) = Notchless(s, a)
      BY <2>2 DEF Detected
    <3>2. QED
      BY <2>2, <3>1 DEF SigDetected, SigNotchless
  <2>3. QED
    BY <2>1, <2>2
<1>10. QED
  BY <1>4, <1>5, <1>6, <1>7, <1>8, <1>9

LEMMA Lengths ==
  /\ N \in Nat \ {0} /\ EqChunk \in Nat \ {0} /\ LmsChunk \in Nat \ {0} /\ LmsSlots \in Nat \ {0}
  /\ AgcSlots \in Nat \ {0} /\ NbSlots \in Nat \ {0} /\ NbDelay \in 0 .. NbSlots - 1
  /\ N % N = 0 /\ N % EqChunk = 0 /\ EqChunk <= N /\ LmsChunk <= N
<1>1. /\ N \in Nat \ {0} /\ EqChunk \in Nat \ {0} /\ LmsChunk \in Nat \ {0}
      /\ N % EqChunk = 0 /\ N % LmsChunk = 0 /\ LmsSlots \in Nat \ {0}
  BY BlocksAssumption
<1>2. N % N = 0
  <2>1. N = N * 1 + 0 /\ 0 \in 0 .. N - 1
    BY <1>1
  <2>2. QED
    BY <1>1, <2>1, RemainderIs
<1>3. ASSUME NEW c \in Nat \ {0}, N % c = 0 PROVE c <= N
  <2>1. SUFFICES ASSUME N < c PROVE FALSE
    BY <1>1
  <2>2. N \in 0 .. c - 1
    BY <1>1, <2>1
  <2>3. N % c = N
    BY <2>2, Small, Zenon
  <2>4. QED
    BY <1>1, <1>3, <2>3
<1>4. QED
  BY <1>1, <1>2, <1>3 DEF AgcSlots, NbSlots, NbDelay

LEMMA RxSignals ==
  ASSUME NEW s \in RxSettings
  PROVE  /\ Signal(SigClean(s)) /\ Signal(SigFiltered(s)) /\ Signal(SigLevel(s))
         /\ Signal(SigStill(s)) /\ Signal(SigNotchless(s)) /\ Signal(SigDetected(s))
<1>1. s.agc \in Nat /\ NbDelay \in Nat
  BY Lengths DEF RxSettings
<1>2. Signal(SigClean(s))
  BY <1>1, RxPoints, PlainSignal, LaterSignal, ViaSignal
<1>3. Signal(SigFiltered(s))
  BY <1>2, Lengths, RxPoints, FirSignal, ViaSignal
<1>4. Signal(SigLevel(s))
  BY <1>1, <1>3, RxPoints, LaterSignal, ViaSignal
<1>5. Signal(SigStill(s))
  BY <1>4, RxPoints, LmsSignals, ViaSignal
<1>6. Signal(SigNotchless(s))
  BY <1>5, RxPoints, LmsSignals, ViaSignal
<1>7. Signal(SigDetected(s))
  <2>1. Signal(ByFir(EqChunk, s.early))
    BY Lengths, Earliness, FirSignal
  <2>2. QED
    BY <1>6, <2>1, RxPoints, ViaSignal
<1>8. QED
  BY <1>2, <1>3, <1>4, <1>5, <1>6, <1>7

(* What the stages of a receiver remember, whatever it is.                 *)
RxShape(m) ==
  /\ DOMAIN m.nb = {"line", "hang"} /\ Ring(m.nb.line, NbSlots)
  /\ DOMAIN m.filt = 0 .. N - 1
  /\ Ring(m.agc, AgcSlots) /\ Ring(m.anr, LmsSlots) /\ Ring(m.anf, LmsSlots)
  /\ DOMAIN m.banr = 0 .. LmsChunk - 1 /\ DOMAIN m.banf = 0 .. LmsChunk - 1
  /\ DOMAIN m.eq = 0 .. EqChunk - 1

(* What those that are on remember when n samples have gone through.       *)
RxHolds(s, m, n) ==
  /\ s.nb => RingCarries(m.nb.line, NbSlots, Plainly, n)
  /\ s.mode # "SPEC" => HalfCarries(m.filt, N, SigClean(s), SigClean(s), n)
  /\ s.agc # 0 => RingCarries(m.agc, AgcSlots, SigFiltered(s), n)
  /\ SampleNoise(s) => RingCarries(m.anr, LmsSlots, SigLevel(s), n)
  /\ BlockNoise(s) => HalfCarries(m.banr, LmsChunk, SigLevel(s), SigLevel(s), n)
  /\ SampleNotch(s) => RingCarries(m.anf, LmsSlots, SigStill(s), n)
  /\ BlockNotch(s) => HalfCarries(m.banf, LmsChunk, SigStill(s), SigStill(s), n)
  /\ s.eq => HalfCarries(m.eq, EqChunk, SigNotchless(s), SigNotchless(s), n)

LEMMA InputCarried ==
  ASSUME NEW n
  PROVE  BlockCarries(Input, Plainly, Plainly, n)
<1>1. ASSUME NEW i \in Index PROVE Input[i] = Plainly[N - 1 - i]
  BY NatN DEF Input, Plainly, Index
<1>2. QED
  BY <1>1 DEF BlockCarries

(* With an empty past nothing is claimed.                                  *)
LEMMA HoldsNothing ==
  ASSUME NEW s \in RxSettings, NEW m
  PROVE  RxHolds(s, m, 0)
<1>1. ASSUME NEW G, Signal(G), NEW line, NEW size \in Nat \ {0}
      PROVE  RingCarries(line, size, G, 0)
  BY <1>1, NotYet DEF RingCarries
<1>2. ASSUME NEW G, Signal(G), NEW half, NEW c \in Nat \ {0}, NEW M
      PROVE  HalfCarries(half, c, G, M, 0)
  <2>1. \A x \in 0 .. c - 1 : c - 1 - x \in Nat
    OBVIOUS
  <2>2. QED
    BY <1>2, <2>1, NotYet DEF HalfCarries
<1>3. RingCarries(m.nb.line, NbSlots, Plainly, 0)
  BY <1>1, PlainSignal, Lengths
<1>4. /\ HalfCarries(m.filt, N, SigClean(s), SigClean(s), 0)
      /\ RingCarries(m.agc, AgcSlots, SigFiltered(s), 0)
      /\ RingCarries(m.anr, LmsSlots, SigLevel(s), 0)
      /\ HalfCarries(m.banr, LmsChunk, SigLevel(s), SigLevel(s), 0)
      /\ RingCarries(m.anf, LmsSlots, SigStill(s), 0)
      /\ HalfCarries(m.banf, LmsChunk, SigStill(s), SigStill(s), 0)
      /\ HalfCarries(m.eq, EqChunk, SigNotchless(s), SigNotchless(s), 0)
  BY <1>1, <1>2, RxSignals, Lengths
<1>5. QED
  BY <1>3, <1>4 DEF RxHolds

LEMMA BlockNothing ==
  ASSUME NEW G, Signal(G), NEW b, NEW M
  PROVE  BlockCarries(b, G, M, 0)
<1>1. \A i \in Index : N - 1 - i \in Nat
  BY NatN DEF Index
<1>2. QED
  BY <1>1, NotYet DEF BlockCarries

-----------------------------------------------------------------------------
(* The stages of the receiver one by one; o is what they remembered a      *)
(* block ago.                                                              *)

LEMMA CleanStage ==
  ASSUME NEW s \in RxSettings, NEW nb, DOMAIN nb = {"line", "hang"}, Ring(nb.line, NbSlots),
         NEW n, NEW p, Grown(n, p), NEW pulse,
         s.nb => RingCarries(nb.line, NbSlots, Plainly, n) /\ pulse = NoPulse /\ nb.hang = 0,
         NEW old, old = [nb EXCEPT !.line = AgedLine(@)], NEW b,
         b = IF s.nb THEN noiseblanker(old, Input, pulse) ELSE Input
  PROVE  /\ BlockCarries(b, SigClean(s), SigClean(s), p)
         /\ s.nb => RingCarries(BlankerAfter(old, Input, pulse).line, NbSlots, Plainly, p)
<1>1. BlockCarries(Input, Plainly, Plainly, p) /\ Signal(Plainly)
  BY InputCarried, PlainSignal
<1>2. old.line = AgedLine(nb.line) /\ old.hang = nb.hang
  OBVIOUS
<1>3. CASE s.nb
  <2>1. ASSUME NEW i \in Index PROVE b[i] = Peek(AgedLine(nb.line), Input, NbDelay, i)
    <3>1. old.hang = 0 /\ pulse = NoPulse
      BY <1>2, <1>3
    <3>2. ~Blanked(old.hang, pulse, i)
      BY <3>1, NotBlanked, Zenon
    <3>3. b = noiseblanker(old, Input, pulse)
      BY <1>3
    <3>4. QED
      BY <1>2, <3>2, <3>3 DEF noiseblanker
  <2>2. BlockCarries(b, Via(Later(NbDelay), Plainly), Via(Later(NbDelay), Plainly), p)
    BY <1>1, <1>3, <2>1, Lengths, PeekStage
  <2>3. BlankerAfter(old, Input, pulse).line = Pushed(AgedLine(nb.line), Input, N)
    BY <1>2 DEF BlankerAfter
  <2>4. RingCarries(Pushed(AgedLine(nb.line), Input, N), NbSlots, Plainly, p)
    BY <1>1, <1>3, Lengths, RingPushed
  <2>5. SigClean(s) = Via(Later(NbDelay), Plainly)
    BY <1>3, RxPoints
  <2>6. QED
    BY <2>2, <2>3, <2>4, <2>5
<1>4. CASE ~s.nb
  <2>1. SigClean(s) = Plainly /\ b = Input
    BY <1>4, RxPoints
  <2>2. QED
    BY <1>1, <1>4, <2>1
<1>5. QED
  BY <1>3, <1>4

LEMMA AgcStage ==
  ASSUME NEW s \in RxSettings, NEW line, Ring(line, AgcSlots), NEW b,
         NEW n, NEW p, Grown(n, p),
         BlockCarries(b, SigFiltered(s), SigFiltered(s), p),
         s.agc # 0 => RingCarries(line, AgcSlots, SigFiltered(s), n)
  PROVE  /\ BlockCarries(DttSPAgc(AgedLine(line), b, s.agc, N), SigLevel(s), SigLevel(s), p)
         /\ s.agc # 0 => RingCarries(AgcAfter(AgedLine(line), b, s.agc, N), AgcSlots, SigFiltered(s), p)
<1>1. s.agc \in 0 .. AgcSlots - 1 /\ Signal(SigFiltered(s))
  BY RxSignals DEF RxSettings
<1> DEFINE out == DttSPAgc(AgedLine(line), b, s.agc, N)
<1>2. CASE s.agc = 0
  <2>1. \A i \in Index : out[i] = b[i]
    BY <1>2 DEF DttSPAgc
  <2>2. SigLevel(s) = SigFiltered(s)
    BY <1>2, RxPoints
  <2>3. QED
    BY <1>2, <2>1, <2>2 DEF BlockCarries
<1>3. CASE s.agc # 0
  <2>1. ASSUME NEW i \in Index PROVE out[i] = Peek(AgedLine(line), b, s.agc, i)
    <3>1. ~(s.agc = 0 \/ i >= N)
      BY <1>3, NatN DEF Index
    <3>2. QED
      BY <3>1 DEF DttSPAgc
  <2> HIDE DEF out
  <2>2. BlockCarries(out, Via(Later(s.agc), SigFiltered(s)), Via(Later(s.agc), SigFiltered(s)), p)
    BY <1>1, <1>3, <2>1, Lengths, PeekStage
  <2>3. SigLevel(s) = Via(Later(s.agc), SigFiltered(s))
    BY RxPoints
  <2>4. RingCarries(Pushed(AgedLine(line), b, N), AgcSlots, SigFiltered(s), p)
    BY <1>1, <1>3, Lengths, RingPushed
  <2>5. AgcAfter(AgedLine(line), b, s.agc, N) = Pushed(AgedLine(line), b, N)
    BY <1>3 DEF AgcAfter
  <2>6. QED
    BY <2>2, <2>3, <2>4, <2>5 DEF out
<1>4. QED
  BY <1>2, <1>3

LEMMA NoiseStage ==
  ASSUME NEW s \in RxSettings, NEW o, RxShape(o), NEW m, m = AgedRx(o),
         NEW n, NEW p, Grown(n, p), RxHolds(s, o, n), NEW b,
         BlockCarries(b, SigLevel(s), SigLevel(s), p)
  PROVE  /\ BlockCarries(Denoised(s, m, b), SigStill(s), SigStill(s), p)
         /\ SampleNoise(s) => RingCarries(Pushed(m.anr, b, N), LmsSlots, SigLevel(s), p)
         /\ BlockNoise(s) => HalfCarries(Saved(b, LmsChunk), LmsChunk, SigLevel(s), SigLevel(s), p)
<1>1. m.anr = AgedLine(o.anr) /\ m.banr = Aged(o.banr)
  BY DEF AgedRx
<1>2. Signal(SigLevel(s)) /\ Ring(o.anr, LmsSlots) /\ DOMAIN o.banr = 0 .. LmsChunk - 1
  BY RxSignals DEF RxShape
<1>3. CASE BlockNoise(s)
  <2>1. HalfCarries(o.banr, LmsChunk, SigLevel(s), SigLevel(s), n) /\ ~SampleNoise(s)
    BY <1>3 DEF RxHolds, BlockNoise, SampleNoise
  <2>2. BlockCarries(blms_adapt(Aged(o.banr), b), Via(ByBlms, SigLevel(s)), Via(ByBlms, SigLevel(s)), p)
    BY <1>2, <2>1, BlmsStage
  <2>3. HalfCarries(Saved(b, LmsChunk), LmsChunk, SigLevel(s), SigLevel(s), p)
    BY Lengths, HalfSaved
  <2>4. Denoised(s, m, b) = blms_adapt(Aged(o.banr), b) /\ SigStill(s) = Via(ByBlms, SigLevel(s))
    BY <1>1, <1>3, RxPoints DEF Denoised
  <2>5. QED
    BY <2>1, <2>2, <2>3, <2>4
<1>4. CASE ~BlockNoise(s) /\ SampleNoise(s)
  <2>1. RingCarries(o.anr, LmsSlots, SigLevel(s), n)
    BY <1>4 DEF RxHolds
  <2>2. BlockCarries(lmsr_adapt_n(AgedLine(o.anr), b), Via(ByLms, SigLevel(s)), Via(ByLms, SigLevel(s)), p)
    BY <1>2, <2>1, LmsStages
  <2>3. RingCarries(Pushed(AgedLine(o.anr), b, N), LmsSlots, SigLevel(s), p)
    BY <1>2, <2>1, Lengths, RingPushed
  <2>4. Denoised(s, m, b) = lmsr_adapt_n(AgedLine(o.anr), b) /\ SigStill(s) = Via(ByLms, SigLevel(s))
    BY <1>1, <1>4, RxPoints DEF Denoised
  <2>5. QED
    BY <1>1, <1>4, <2>2, <2>3, <2>4
<1>5. CASE ~BlockNoise(s) /\ ~SampleNoise(s)
  <2>1. Denoised(s, m, b) = b /\ SigStill(s) = SigLevel(s)
    BY <1>5, RxPoints DEF Denoised
  <2>2. QED
    BY <1>5, <2>1
<1>6. QED
  BY <1>3, <1>4, <1>5

LEMMA NotchStage ==
  ASSUME NEW s \in RxSettings, NEW o, RxShape(o), NEW m, m = AgedRx(o),
         NEW n, NEW p, Grown(n, p), RxHolds(s, o, n), NEW b,
         BlockCarries(b, SigStill(s), SigStill(s), p)
  PROVE  /\ BlockCarries(Notched(s, m, b), SigNotchless(s), SigNotchless(s), p)
         /\ SampleNotch(s) => RingCarries(Pushed(m.anf, b, N), LmsSlots, SigStill(s), p)
         /\ BlockNotch(s) => HalfCarries(Saved(b, LmsChunk), LmsChunk, SigStill(s), SigStill(s), p)
<1>1. m.anf = AgedLine(o.anf) /\ m.banf = Aged(o.banf)
  BY DEF AgedRx
<1>2. Signal(SigStill(s)) /\ Ring(o.anf, LmsSlots) /\ DOMAIN o.banf = 0 .. LmsChunk - 1
  BY RxSignals DEF RxShape
<1>3. CASE BlockNotch(s)
  <2>1. HalfCarries(o.banf, LmsChunk, SigStill(s), SigStill(s), n) /\ ~SampleNotch(s)
    BY <1>3 DEF RxHolds, BlockNotch, SampleNotch
  <2>2. BlockCarries(blms_adapt(Aged(o.banf), b), Via(ByBlms, SigStill(s)), Via(ByBlms, SigStill(s)), p)
    BY <1>2, <2>1, BlmsStage
  <2>3. HalfCarries(Saved(b, LmsChunk), LmsChunk, SigStill(s), SigStill(s), p)
    BY Lengths, HalfSaved
  <2>4. Notched(s, m, b) = blms_adapt(Aged(o.banf), b) /\ SigNotchless(s) = Via(ByBlms, SigStill(s))
    BY <1>1, <1>3, RxPoints DEF Notched
  <2>5. QED
    BY <2>1, <2>2, <2>3, <2>4
<1>4. CASE ~BlockNotch(s) /\ SampleNotch(s)
  <2>1. RingCarries(o.anf, LmsSlots, SigStill(s), n)
    BY <1>4 DEF RxHolds
  <2>2. BlockCarries(lmsr_adapt_i(AgedLine(o.anf), b), Via(ByError, SigStill(s)), Via(ByError, SigStill(s)), p)
    BY <1>2, <2>1, LmsStages
  <2>3. RingCarries(Pushed(AgedLine(o.anf), b, N), LmsSlots, SigStill(s), p)
    BY <1>2, <2>1, Lengths, RingPushed
  <2>4. Notched(s, m, b) = lmsr_adapt_i(AgedLine(o.anf), b) /\ SigNotchless(s) = Via(ByError, SigStill(s))
    BY <1>1, <1>4, RxPoints DEF Notched
  <2>5. QED
    BY <1>1, <1>4, <2>2, <2>3, <2>4
<1>5. CASE ~BlockNotch(s) /\ ~SampleNotch(s)
  <2>1. Notched(s, m, b) = b /\ SigNotchless(s) = SigStill(s)
    BY <1>5, RxPoints DEF Notched
  <2>2. QED
    BY <1>5, <2>1
<1>6. QED
  BY <1>3, <1>4, <1>5

(* What do_rx_pre and do_rx give, field by field.                          *)
LEMMA RxPreIs ==
  ASSUME NEW k, NEW m, NEW pulse, NEW pre, pre = DoRxPre(k, m, pulse)
  PROVE  /\ pre.clean = IF tune[k].nb THEN noiseblanker(m.nb, Input, pulse) ELSE Input
         /\ pre.filt = IF tune[k].mode = "SPEC" THEN pre.clean ELSE Filter(k, m.filt, pre.clean)
         /\ pre.level = DttSPAgc(m.agc, pre.filt, tune[k].agc, N)
  BY DEF DoRxPre

LEMMA RxIs ==
  ASSUME NEW k, NEW pulse, NEW shut, NEW m, m = AgedRx(memory[k]), NEW s, s = tune[k],
         NEW pre, pre = DoRxPre(k, m, pulse), NEW still, still = Denoised(s, m, pre.level),
         NEW post, post = DoRxPost(k, m, shut, Notched(s, m, still)),
         NEW r, r = DoRx(k, pulse, shut)
  PROVE  /\ r.tap.SEMI_RAW = Input /\ r.tap.PRE_FILT = pre.clean /\ r.tap.POST_FILT = pre.filt
         /\ r.tap.POST_AGC = pre.level /\ r.tap.POST_DET = post.det
         /\ r.mem.nb = IF s.nb THEN BlankerAfter(m.nb, Input, pulse) ELSE m.nb
         /\ r.mem.filt = IF s.mode = "SPEC" THEN m.filt ELSE FilterAfter(k, pre.clean)
         /\ r.mem.agc = AgcAfter(m.agc, pre.filt, s.agc, N)
         /\ r.mem.anr = IF SampleNoise(s) THEN Pushed(m.anr, pre.level, N) ELSE m.anr
         /\ r.mem.banr = IF BlockNoise(s) THEN Saved(pre.level, LmsChunk) ELSE m.banr
         /\ r.mem.anf = IF SampleNotch(s) THEN Pushed(m.anf, still, N) ELSE m.anf
         /\ r.mem.banf = IF BlockNotch(s) THEN Saved(still, LmsChunk) ELSE m.banf
         /\ r.mem.eq = IF s.eq THEN Saved(post.post, EqChunk) ELSE m.eq
  BY DEF DoRx

LEMMA AgedShape ==
  ASSUME NEW o, RxShape(o), NEW m, m = AgedRx(o)
  PROVE  RxShape(m)
<1>1. /\ m.nb = [o.nb EXCEPT !.line = AgedLine(@)] /\ m.filt = Aged(o.filt)
      /\ m.agc = AgedLine(o.agc) /\ m.anr = AgedLine(o.anr) /\ m.anf = AgedLine(o.anf)
      /\ m.banr = Aged(o.banr) /\ m.banf = Aged(o.banf) /\ m.eq = Aged(o.eq)
  BY DEF AgedRx
<1>2. DOMAIN m.nb = {"line", "hang"} /\ m.nb.line = AgedLine(o.nb.line)
  BY <1>1 DEF RxShape
<1>3. /\ Ring(AgedLine(o.nb.line), NbSlots) /\ Ring(m.agc, AgcSlots)
      /\ Ring(m.anr, LmsSlots) /\ Ring(m.anf, LmsSlots)
  BY <1>1, AgedRing DEF RxShape
<1>4. \A f : DOMAIN Aged(f) = DOMAIN f
  BY DEF Aged
<1>5. QED
  BY <1>1, <1>2, <1>3, <1>4 DEF RxShape

LEMMA SavedShape ==
  ASSUME NEW b, NEW c
  PROVE  DOMAIN Saved(b, c) = 0 .. c - 1
  BY DEF Saved

LEMMA ShapeKept ==
  ASSUME NEW k, NEW pulse, NEW shut, RxShape(memory[k]), NEW r, r = DoRx(k, pulse, shut)
  PROVE  RxShape(r.mem)
<1>1. PICK m : m = AgedRx(memory[k])
  OBVIOUS
<1>2. PICK s : s = tune[k]
  OBVIOUS
<1>3. PICK pre : pre = DoRxPre(k, m, pulse)
  OBVIOUS
<1>4. PICK still : still = Denoised(s, m, pre.level)
  OBVIOUS
<1>5. PICK post : post = DoRxPost(k, m, shut, Notched(s, m, still))
  OBVIOUS
<1>6. /\ r.mem.nb = IF s.nb THEN BlankerAfter(m.nb, Input, pulse) ELSE m.nb
      /\ r.mem.filt = IF s.mode = "SPEC" THEN m.filt ELSE FilterAfter(k, pre.clean)
      /\ r.mem.agc = AgcAfter(m.agc, pre.filt, s.agc, N)
      /\ r.mem.anr = IF SampleNoise(s) THEN Pushed(m.anr, pre.level, N) ELSE m.anr
      /\ r.mem.banr = IF BlockNoise(s) THEN Saved(pre.level, LmsChunk) ELSE m.banr
      /\ r.mem.anf = IF SampleNotch(s) THEN Pushed(m.anf, still, N) ELSE m.anf
      /\ r.mem.banf = IF BlockNotch(s) THEN Saved(still, LmsChunk) ELSE m.banf
      /\ r.mem.eq = IF s.eq THEN Saved(post.post, EqChunk) ELSE m.eq
  BY <1>1, <1>2, <1>3, <1>4, <1>5, RxIs
<1>7. RxShape(m)
  BY <1>1, AgedShape
<1>8. N \in Int
  BY Lengths
<1>9. DOMAIN r.mem.nb = {"line", "hang"} /\ Ring(r.mem.nb.line, NbSlots)
  <2>1. Ring(Pushed(m.nb.line, Input, N), NbSlots)
    BY <1>7, <1>8, Lengths, PushedRing DEF RxShape
  <2>2. QED
    BY <1>6, <1>7, <2>1 DEF RxShape, BlankerAfter
<1>10. Ring(r.mem.agc, AgcSlots)
  BY <1>6, <1>7, <1>8, Lengths, PushedRing DEF RxShape, AgcAfter
<1>11. Ring(r.mem.anr, LmsSlots) /\ Ring(r.mem.anf, LmsSlots)
  BY <1>6, <1>7, <1>8, Lengths, PushedRing DEF RxShape
<1>12. DOMAIN r.mem.filt = 0 .. N - 1
  BY <1>6, <1>7, SavedShape DEF RxShape, FilterAfter, NewHalf
<1>13. /\ DOMAIN r.mem.banr = 0 .. LmsChunk - 1 /\ DOMAIN r.mem.banf = 0 .. LmsChunk - 1
       /\ DOMAIN r.mem.eq = 0 .. EqChunk - 1
  BY <1>6, <1>7, SavedShape DEF RxShape
<1>14. QED
  BY <1>9, <1>10, <1>11, <1>12, <1>13 DEF RxShape

(* A whole block of a receiver.  What the display can show of it and what  *)
(* it remembers is what it should be.                                      *)
LEMMA ReceiverBlock ==
  ASSUME NEW k, NEW s \in RxSettings, s = tune[k], NEW pulse, NEW shut, ~shut,
         Lost(k) => s.mode = "SPEC", s.nb => pulse = NoPulse /\ memory[k].nb.hang = 0,
         NEW n, NEW p, Grown(n, p),
         RxShape(memory[k]), RxHolds(s, memory[k], n), NEW r, r = DoRx(k, pulse, shut)
  PROVE  /\ RxHolds(s, r.mem, p)
         /\ BlockCarries(r.tap.SEMI_RAW, Plainly, Plainly, p)
         /\ BlockCarries(r.tap.PRE_FILT, SigClean(s), SigClean(s), p)
         /\ BlockCarries(r.tap.POST_FILT, SigFiltered(s), SigFiltered(s), p)
         /\ BlockCarries(r.tap.POST_AGC, SigLevel(s), SigLevel(s), p)
         /\ BlockCarries(r.tap.POST_DET, SigDetected(s), SigDetected(s), p)
<1>0. PICK o : o = memory[k]
  OBVIOUS
<1>1. PICK m : m = AgedRx(memory[k])
  OBVIOUS
<1>3. PICK pre : pre = DoRxPre(k, m, pulse)
  OBVIOUS
<1>4. PICK still : still = Denoised(s, m, pre.level)
  OBVIOUS
<1>5. PICK post : post = DoRxPost(k, m, shut, Notched(s, m, still))
  OBVIOUS
<1>6. /\ r.tap.SEMI_RAW = Input /\ r.tap.PRE_FILT = pre.clean /\ r.tap.POST_FILT = pre.filt
      /\ r.tap.POST_AGC = pre.level /\ r.tap.POST_DET = post.det
      /\ r.mem.nb = IF s.nb THEN BlankerAfter(m.nb, Input, pulse) ELSE m.nb
      /\ r.mem.filt = IF s.mode = "SPEC" THEN m.filt ELSE FilterAfter(k, pre.clean)
      /\ r.mem.agc = AgcAfter(m.agc, pre.filt, s.agc, N)
      /\ r.mem.anr = IF SampleNoise(s) THEN Pushed(m.anr, pre.level, N) ELSE m.anr
      /\ r.mem.banr = IF BlockNoise(s) THEN Saved(pre.level, LmsChunk) ELSE m.banr
      /\ r.mem.anf = IF SampleNotch(s) THEN Pushed(m.anf, still, N) ELSE m.anf
      /\ r.mem.banf = IF BlockNotch(s) THEN Saved(still, LmsChunk) ELSE m.banf
      /\ r.mem.eq = IF s.eq THEN Saved(post.post, EqChunk) ELSE m.eq
  BY <1>1, <1>3, <1>4, <1>5, RxIs
<1>7. /\ pre.clean = IF s.nb THEN noiseblanker(m.nb, Input, pulse) ELSE Input
      /\ pre.filt = IF s.mode = "SPEC" THEN pre.clean ELSE Filter(k, m.filt, pre.clean)
      /\ pre.level = DttSPAgc(m.agc, pre.filt, s.agc, N)
  BY <1>3, RxPreIs
<1>8. /\ m.nb = [o.nb EXCEPT !.line = AgedLine(@)] /\ m.filt = Aged(o.filt)
      /\ m.agc = AgedLine(o.agc) /\ m.eq = Aged(o.eq) /\ m = AgedRx(o)
  BY <1>0, <1>1 DEF AgedRx
<1>9. RxShape(o) /\ RxHolds(s, o, n) /\ (s.nb => pulse = NoPulse /\ o.nb.hang = 0)
  BY <1>0
<1>10. /\ BlockCarries(pre.clean, SigClean(s), SigClean(s), p)
       /\ s.nb => RingCarries(r.mem.nb.line, NbSlots, Plainly, p)
  <2>1. /\ BlockCarries(pre.clean, SigClean(s), SigClean(s), p)
        /\ s.nb => RingCarries(BlankerAfter(m.nb, Input, pulse).line, NbSlots, Plainly, p)
    <3>1. DOMAIN o.nb = {"line", "hang"} /\ Ring(o.nb.line, NbSlots)
      BY <1>9 DEF RxShape
    <3>2. s.nb => RingCarries(o.nb.line, NbSlots, Plainly, n) /\ pulse = NoPulse /\ o.nb.hang = 0
      BY <1>9 DEF RxHolds
    <3>3. PICK nb : nb = o.nb
      OBVIOUS
    <3>4. PICK old : old = m.nb
      OBVIOUS
    <3>5. old = [nb EXCEPT !.line = AgedLine(@)]
      BY <1>8, <3>3, <3>4
    <3>6. PICK b : b = pre.clean
      OBVIOUS
    <3>7. b = IF s.nb THEN noiseblanker(old, Input, pulse) ELSE Input
      BY <1>7, <3>4, <3>6
    <3>8. /\ BlockCarries(b, SigClean(s), SigClean(s), p)
          /\ s.nb => RingCarries(BlankerAfter(old, Input, pulse).line, NbSlots, Plainly, p)
      BY <3>1, <3>2, <3>3, <3>5, <3>7, CleanStage
    <3>9. QED
      BY <3>4, <3>6, <3>8
  <2>2. QED
    BY <1>6, <2>1
<1>11. /\ BlockCarries(pre.filt, SigFiltered(s), SigFiltered(s), p)
       /\ s.mode # "SPEC" => HalfCarries(r.mem.filt, N, SigClean(s), SigClean(s), p)
  <2>1. CASE s.mode = "SPEC"
    BY <1>7, <1>10, <2>1, RxPoints
  <2>2. CASE s.mode # "SPEC"
    <3>1. ~Lost(k) /\ pre.filt = filter_OvSv(Aged(o.filt), pre.clean, N, 1) /\ r.mem.filt = Saved(pre.clean, N)
      BY <1>6, <1>7, <1>8, <2>2 DEF Filter, FilterAfter
    <3>2. Signal(SigClean(s)) /\ KeptOf(SigClean(s), SigClean(s))
      BY RxSignals, KeptWhole
    <3>3. HalfCarries(o.filt, N, SigClean(s), SigClean(s), n) /\ DOMAIN o.filt = 0 .. N - 1
      BY <1>9, <2>2 DEF RxHolds, RxShape
    <3>4. N \in Nat \ {0} /\ N % N = 0 /\ N <= N
      BY Lengths
    <3>5. BlockCarries(pre.filt, Via(ByFir(N, 1), SigClean(s)), Via(ByFir(N, 1), SigClean(s)), p)
      BY <1>10, <3>1, <3>2, <3>3, <3>4, OvSvStage
    <3>6. HalfCarries(r.mem.filt, N, SigClean(s), SigClean(s), p)
      BY <1>10, <3>1, <3>4, HalfSaved
    <3>7. SigFiltered(s) = Via(ByFir(N, 1), SigClean(s))
      BY <2>2, RxPoints
    <3>8. QED
      BY <3>5, <3>6, <3>7
  <2>3. QED
    BY <2>1, <2>2
<1>12. /\ BlockCarries(pre.level, SigLevel(s), SigLevel(s), p)
       /\ s.agc # 0 => RingCarries(r.mem.agc, AgcSlots, SigFiltered(s), p)
  <2>1. Ring(o.agc, AgcSlots) /\ (s.agc # 0 => RingCarries(o.agc, AgcSlots, SigFiltered(s), n))
    BY <1>9 DEF RxShape, RxHolds
  <2>2. QED
    BY <1>6, <1>7, <1>8, <1>11, <2>1, AgcStage
<1>13. /\ BlockCarries(still, SigStill(s), SigStill(s), p)
       /\ SampleNoise(s) => RingCarries(r.mem.anr, LmsSlots, SigLevel(s), p)
       /\ BlockNoise(s) => HalfCarries(r.mem.banr, LmsChunk, SigLevel(s), SigLevel(s), p)
  BY <1>4, <1>6, <1>8, <1>9, <1>12, NoiseStage
<1>14. /\ BlockCarries(Notched(s, m, still), SigNotchless(s), SigNotchless(s), p)
       /\ SampleNotch(s) => RingCarries(r.mem.anf, LmsSlots, SigStill(s), p)
       /\ BlockNotch(s) => HalfCarries(r.mem.banf, LmsChunk, SigStill(s), SigStill(s), p)
  BY <1>6, <1>8, <1>9, <1>13, NotchStage
<1>15. /\ BlockCarries(post.det, SigDetected(s), SigDetected(s), p)
       /\ s.eq => HalfCarries(r.mem.eq, EqChunk, SigNotchless(s), SigNotchless(s), p)
  <2>1. post.post = Notched(s, m, still) /\ post.det = IF s.eq THEN graphiceq(m.eq, post.post, s.early) ELSE post.post
    BY <1>5 DEF DoRxPost, Squelched
  <2>2. CASE ~s.eq
    BY <1>14, <2>1, <2>2, RxPoints
  <2>3. CASE s.eq
    <3>1. Signal(SigNotchless(s)) /\ KeptOf(SigNotchless(s), SigNotchless(s))
      BY RxSignals, KeptWhole
    <3>2. HalfCarries(o.eq, EqChunk, SigNotchless(s), SigNotchless(s), n) /\ DOMAIN o.eq = 0 .. EqChunk - 1
      BY <1>9, <2>3 DEF RxHolds, RxShape
    <3>3. EqChunk \in Nat \ {0} /\ N % EqChunk = 0 /\ EqChunk <= N /\ s.early \in 1 .. EqChunk
      BY Lengths, Earliness
    <3>4. BlockCarries(post.post, SigNotchless(s), SigNotchless(s), p)
      BY <1>14, <2>1
    <3>5. BlockCarries(filter_OvSv(Aged(o.eq), post.post, EqChunk, s.early),
                       Via(ByFir(EqChunk, s.early), SigNotchless(s)), Via(ByFir(EqChunk, s.early), SigNotchless(s)), p)
      BY <3>1, <3>2, <3>3, <3>4, OvSvStage
    <3>6. HalfCarries(Saved(post.post, EqChunk), EqChunk, SigNotchless(s), SigNotchless(s), p)
      BY <3>3, <3>4, HalfSaved
    <3>7. SigDetected(s) = Via(ByFir(EqChunk, s.early), SigNotchless(s))
      BY <2>3, RxPoints
    <3>8. post.det = filter_OvSv(Aged(o.eq), post.post, EqChunk, s.early) /\ r.mem.eq = Saved(post.post, EqChunk)
      BY <1>6, <1>8, <2>1, <2>3 DEF graphiceq
    <3>9. QED
      BY <3>5, <3>6, <3>7, <3>8
  <2>4. QED
    BY <2>2, <2>3
<1>16. RxHolds(s, r.mem, p)
  BY <1>10, <1>11, <1>12, <1>13, <1>14, <1>15 DEF RxHolds
<1>17. BlockCarries(r.tap.SEMI_RAW, Plainly, Plainly, p)
  BY <1>6, InputCarried
<1>18. QED
  BY <1>6, <1>10, <1>11, <1>12, <1>15, <1>16, <1>17

-----------------------------------------------------------------------------
(* The transmitter.                                                        *)

SigEven(t) == [a \in Nat |-> Even(t, a)]
SigSent(t) == Via(ByFir(N, 1), SigEven(t))
MeantOf(t, G) == [a \in Nat |-> IF t.mode = "NIL" THEN {} ELSE G[a]]

TxShape(m) == DOMAIN m.filt = 0 .. N - 1 /\ DOMAIN m.eq = 0 .. EqChunk - 1

TxHolds(t, m, n) ==
  /\ (t.eq /\ t.mode # "DIG") => HalfCarries(m.eq, EqChunk, Plainly, Plainly, n)
  /\ HalfCarries(m.filt, N, SigEven(t), MeantOf(t, SigEven(t)), n)

LEMMA TxSignals ==
  ASSUME NEW t \in TxSettings
  PROVE  /\ SigEven(t) = IF t.eq /\ t.mode # "DIG" THEN Via(ByFir(EqChunk, t.early), Plainly) ELSE Plainly
         /\ Signal(SigEven(t)) /\ Signal(SigSent(t))
<1>1. /\ EqChunk \in Nat \ {0} /\ N % EqChunk = 0 /\ N \in Nat \ {0} /\ N % N = 0
      /\ t.early \in 1 .. EqChunk /\ 1 \in 1 .. N
  BY Lengths, Earliness
<1>2. Signal(ByFir(EqChunk, t.early)) /\ Signal(ByFir(N, 1)) /\ Signal(Plainly)
  BY <1>1, FirSignal, PlainSignal
<1>3. SigEven(t) = IF t.eq /\ t.mode # "DIG" THEN Via(ByFir(EqChunk, t.early), Plainly) ELSE Plainly
  <2>1. CASE t.eq /\ t.mode # "DIG"
    <3>1. ASSUME NEW a \in Nat PROVE Even(t, a) = UNION {Plainly[x] : x \in ByFir(EqChunk, t.early)[a]}
      <4>1. ByFir(EqChunk, t.early)[a] = Fir(EqChunk, t.early, a) /\ Fir(EqChunk, t.early, a) \subseteq Nat
        BY <1>1, FirOf DEF ByFir
      <4>2. {Plainly[x] : x \in Fir(EqChunk, t.early, a)} = {{x} : x \in Fir(EqChunk, t.early, a)}
        BY <4>1 DEF Plainly
      <4>3. Even(t, a) = Fir(EqChunk, t.early, a)
        BY <2>1 DEF Even
      <4>4. UNION {{x} : x \in Fir(EqChunk, t.early, a)} = Fir(EqChunk, t.early, a)
        OBVIOUS
      <4>5. QED
        BY <4>1, <4>2, <4>3, <4>4
    <3>2. QED
      BY <2>1, <3>1 DEF SigEven, Via
  <2>2. CASE ~(t.eq /\ t.mode # "DIG")
    <3>1. \A a \in Nat : Even(t, a) = {a}
      BY <2>2 DEF Even
    <3>2. QED
      BY <2>2, <3>1 DEF SigEven, Plainly
  <2>3. QED
    BY <2>1, <2>2
<1>4. Signal(SigEven(t))
  BY <1>2, <1>3, ViaSignal
<1>5. Signal(SigSent(t))
  BY <1>2, <1>4, ViaSignal DEF SigSent
<1>6. QED
  BY <1>3, <1>4, <1>5

LEMMA MeantKept ==
  ASSUME NEW t, NEW G, Signal(G)
  PROVE  KeptOf(MeantOf(t, G), G)
<1>1. MeantOf(t, G) \in [Nat -> SUBSET Nat] /\ \A a \in Nat : MeantOf(t, G)[a] \subseteq G[a]
  BY DEF MeantOf, Signal
<1>2. ASSUME NEW a \in Nat PROVE MeantOf(t, G)[a + N] = {x + N : x \in MeantOf(t, G)[a]}
  <2>1. a + N \in Nat /\ G[a + N] = {x + N : x \in G[a]}
    BY NatN DEF Signal
  <2>2. CASE t.mode = "NIL"
    BY <2>1, <2>2 DEF MeantOf
  <2>3. CASE t.mode # "NIL"
    <3>1. MeantOf(t, G)[a + N] = G[a + N] /\ MeantOf(t, G)[a] = G[a]
      BY <2>1, <2>3 DEF MeantOf
    <3>2. QED
      BY <2>1, <3>1
  <2>4. QED
    BY <2>2, <2>3
<1>3. QED
  BY <1>1, <1>2 DEF KeptOf

LEMMA TxHoldsNothing ==
  ASSUME NEW t \in TxSettings, NEW m
  PROVE  TxHolds(t, m, 0)
<1>1. ASSUME NEW G, Signal(G), NEW half, NEW c \in Nat \ {0}, NEW M
      PROVE  HalfCarries(half, c, G, M, 0)
  <2>1. \A x \in 0 .. c - 1 : c - 1 - x \in Nat
    OBVIOUS
  <2>2. QED
    BY <1>1, <2>1, NotYet DEF HalfCarries
<1>2. Signal(Plainly) /\ Signal(SigEven(t))
  BY PlainSignal, TxSignals
<1>3. /\ HalfCarries(m.eq, EqChunk, Plainly, Plainly, 0)
      /\ HalfCarries(m.filt, N, SigEven(t), MeantOf(t, SigEven(t)), 0)
  BY <1>1, <1>2, Lengths
<1>4. QED
  BY <1>3 DEF TxHolds

LEMMA TxPreIs ==
  ASSUME NEW m, NEW shut, ~shut, NEW pre, pre = DoTxPre(m, shut)
  PROVE  /\ (voice.eq /\ voice.mode # "DIG") =>
              /\ pre.eq = Saved(Input, EqChunk)
              /\ \A i \in Index : pre.b[i] = graphiceq(m.eq, Input, voice.early)[i]
         /\ ~(voice.eq /\ voice.mode # "DIG") =>
              \A i \in Index : pre.b[i] = Input[i]
         /\ DOMAIN m.eq = 0 .. EqChunk - 1 => DOMAIN pre.eq = 0 .. EqChunk - 1
<1> DEFINE even == IF voice.eq /\ voice.mode # "DIG" THEN graphiceq(m.eq, Input, voice.early) ELSE Input
<1>1. ASSUME NEW i \in Index, NEW b, NEW lag PROVE DttSPAgc(m.leveler, b, lag, LevelerHave)[i] = b[i]
  <2>1. i >= LevelerHave
    BY DEF Index, LevelerHave
  <2>2. QED
    BY <2>1 DEF DttSPAgc
<1>2. pre.b = IF voice.mode = "DIG" THEN even ELSE DttSPAgc(m.leveler, even, voice.leveler, LevelerHave)
  BY DEF DoTxPre, Squelched
<1>3. pre.eq = IF voice.eq /\ voice.mode # "DIG" THEN Saved(Input, EqChunk) ELSE m.eq
  BY DEF DoTxPre
<1>4. \A i \in Index : pre.b[i] = even[i]
  BY <1>1, <1>2
<1>5. QED
  BY <1>3, <1>4, SavedShape

LEMMA TxIs ==
  ASSUME NEW shut, NEW m, m = AgedTx(memory[Tx]), NEW pre, pre = DoTxPre(m, shut),
         NEW mod, mod = Modulated(pre.b), NEW r, r = DoTx(shut)
  PROVE  /\ r.out = Filter(Tx, m.filt, mod)
         /\ \A y \in Types : r.tap[y] = IF y = "POST_DET" THEN IF Lost(Tx) THEN Silent ELSE mod
                                        ELSE r.out
         /\ r.mem.eq = pre.eq /\ r.mem.filt = FilterAfter(Tx, mod)
  BY DEF DoTx

LEMMA TxShapeKept ==
  ASSUME NEW shut \in BOOLEAN, TxShape(memory[Tx]), NEW r, r = DoTx(shut)
  PROVE  TxShape(r.mem)
<1>1. PICK m : m = AgedTx(memory[Tx])
  OBVIOUS
<1>2. PICK pre : pre = DoTxPre(m, shut)
  OBVIOUS
<1>3. PICK mod : mod = Modulated(pre.b)
  OBVIOUS
<1>4. r.mem.eq = pre.eq /\ r.mem.filt = FilterAfter(Tx, mod)
  BY <1>1, <1>2, <1>3, TxIs
<1>5. DOMAIN m.eq = 0 .. EqChunk - 1
  BY <1>1 DEF AgedTx, TxShape, Aged
<1>6. DOMAIN pre.eq = 0 .. EqChunk - 1
  <2>1. CASE shut
    BY <1>2, <1>5, <2>1 DEF DoTxPre
  <2>2. CASE ~shut
    BY <1>2, <1>5, <2>2, TxPreIs
  <2>3. QED
    BY <2>1, <2>2
<1>7. DOMAIN r.mem.filt = 0 .. N - 1
  BY <1>4, SavedShape DEF FilterAfter, NewHalf
<1>8. QED
  BY <1>4, <1>6, <1>7 DEF TxShape

(* A whole block of the transmitter.                                       *)
LEMMA TransmitterBlock ==
  ASSUME NEW t \in TxSettings, t = voice, NEW shut, ~shut, ~Lost(Tx),
         NEW n, NEW p, Grown(n, p), TxShape(memory[Tx]), TxHolds(t, memory[Tx], n),
         NEW r, r = DoTx(shut)
  PROVE  /\ TxHolds(t, r.mem, p)
         /\ BlockCarries(r.tap.POST_DET, SigEven(t), MeantOf(t, SigEven(t)), p)
         /\ BlockCarries(r.out, SigSent(t), MeantOf(t, SigSent(t)), p)
         /\ \A y \in Types \ {"POST_DET"} : r.tap[y] = r.out
<1>0. PICK o : o = memory[Tx]
  OBVIOUS
<1>1. PICK m : m = AgedTx(memory[Tx])
  OBVIOUS
<1>2. PICK pre : pre = DoTxPre(m, shut)
  OBVIOUS
<1>3. PICK mod : mod = Modulated(pre.b)
  OBVIOUS
<1>4. /\ r.out = filter_OvSv(Aged(o.filt), mod, N, 1) /\ r.mem.filt = Saved(mod, N)
      /\ r.tap.POST_DET = mod /\ r.mem.eq = pre.eq
      /\ \A y \in Types \ {"POST_DET"} : r.tap[y] = r.out
  <2>1. /\ r.out = Filter(Tx, m.filt, mod)
        /\ \A y \in Types : r.tap[y] = IF y = "POST_DET" THEN IF Lost(Tx) THEN Silent ELSE mod
                                       ELSE r.out
        /\ r.mem.eq = pre.eq /\ r.mem.filt = FilterAfter(Tx, mod)
    BY <1>1, <1>2, <1>3, TxIs
  <2>2. m.filt = Aged(o.filt)
    BY <1>0, <1>1 DEF AgedTx
  <2>3. "POST_DET" \in Types
    BY DEF Types
  <2>4. QED
    BY <2>1, <2>2, <2>3 DEF Filter, FilterAfter
<1>5. m.eq = Aged(o.eq) /\ DOMAIN o.eq = 0 .. EqChunk - 1 /\ DOMAIN o.filt = 0 .. N - 1
  BY <1>0, <1>1 DEF AgedTx, TxShape
<1>6. Signal(Plainly) /\ KeptOf(Plainly, Plainly) /\ BlockCarries(Input, Plainly, Plainly, p)
  BY PlainSignal, KeptWhole, InputCarried
<1>7. /\ EqChunk \in Nat \ {0} /\ N % EqChunk = 0 /\ EqChunk <= N /\ t.early \in 1 .. EqChunk
      /\ N \in Nat \ {0} /\ N % N = 0 /\ N <= N /\ 1 \in 1 .. N
  BY Lengths, Earliness
<1>8. /\ BlockCarries(pre.b, SigEven(t), SigEven(t), p)
      /\ (t.eq /\ t.mode # "DIG") => HalfCarries(pre.eq, EqChunk, Plainly, Plainly, p)
  <2>1. CASE t.eq /\ t.mode # "DIG"
    <3>1. pre.eq = Saved(Input, EqChunk) /\ \A i \in Index : pre.b[i] = graphiceq(m.eq, Input, voice.early)[i]
      BY <1>2, <2>1, TxPreIs
    <3>2. HalfCarries(o.eq, EqChunk, Plainly, Plainly, n)
      BY <1>0, <2>1 DEF TxHolds
    <3>3. BlockCarries(filter_OvSv(Aged(o.eq), Input, EqChunk, t.early), Via(ByFir(EqChunk, t.early), Plainly),
                       Via(ByFir(EqChunk, t.early), Plainly), p)
      BY <1>5, <1>6, <1>7, <3>2, OvSvStage
    <3>4. HalfCarries(Saved(Input, EqChunk), EqChunk, Plainly, Plainly, p)
      BY <1>6, <1>7, HalfSaved
    <3>5. graphiceq(m.eq, Input, voice.early) = filter_OvSv(Aged(o.eq), Input, EqChunk, t.early)
      BY <1>5 DEF graphiceq
    <3>6. SigEven(t) = Via(ByFir(EqChunk, t.early), Plainly)
      BY <2>1, TxSignals
    <3>7. QED
      BY <3>1, <3>3, <3>4, <3>5, <3>6 DEF BlockCarries
  <2>2. CASE ~(t.eq /\ t.mode # "DIG")
    <3>1. (\A i \in Index : pre.b[i] = Input[i]) /\ SigEven(t) = Plainly
      BY <1>2, <2>2, TxPreIs, TxSignals
    <3>2. QED
      BY <1>6, <2>2, <3>1 DEF BlockCarries
  <2>3. QED
    BY <2>1, <2>2
<1>9. BlockCarries(mod, SigEven(t), MeantOf(t, SigEven(t)), p)
  <2>1. \A i \in Index : N - 1 - i \in Nat
    BY <1>7 DEF Index
  <2>2. CASE t.mode = "NIL"
    <3>1. \A i \in Index : mod[i] = {} /\ MeantOf(t, SigEven(t))[N - 1 - i] = {}
      BY <1>3, <2>1, <2>2 DEF Modulated, Silent, Silence, MeantOf
    <3>2. QED
      BY <3>1 DEF BlockCarries
  <2>3. CASE t.mode # "NIL"
    <3>1. mod = pre.b
      BY <1>3, <2>3 DEF Modulated
    <3>2. \A i \in Index : MeantOf(t, SigEven(t))[N - 1 - i] = SigEven(t)[N - 1 - i]
      BY <2>1, <2>3 DEF MeantOf
    <3>3. QED
      BY <1>8, <3>1, <3>2 DEF BlockCarries
  <2>4. QED
    BY <2>2, <2>3
<1>10. Signal(SigEven(t)) /\ KeptOf(MeantOf(t, SigEven(t)), SigEven(t))
  BY TxSignals, MeantKept
<1>11. BlockCarries(r.out, Via(ByFir(N, 1), SigEven(t)), Via(ByFir(N, 1), MeantOf(t, SigEven(t))), p)
  <2>1. HalfCarries(o.filt, N, SigEven(t), MeantOf(t, SigEven(t)), n)
    BY <1>0 DEF TxHolds
  <2>2. QED
    BY <1>4, <1>5, <1>7, <1>9, <1>10, <2>1, OvSvStage
<1>12. \A a \in Nat : Via(ByFir(N, 1), MeantOf(t, SigEven(t)))[a] = MeantOf(t, SigSent(t))[a]
  <2>1. SUFFICES ASSUME NEW a \in Nat
                 PROVE  Via(ByFir(N, 1), MeantOf(t, SigEven(t)))[a] = MeantOf(t, SigSent(t))[a]
    OBVIOUS
  <2>2. ByFir(N, 1)[a] \subseteq Nat
    BY <1>7, FirOf DEF ByFir
  <2>3. CASE t.mode = "NIL"
    <3>1. \A x \in Nat : MeantOf(t, SigEven(t))[x] = {}
      BY <2>3 DEF MeantOf
    <3>2. UNION {MeantOf(t, SigEven(t))[x] : x \in ByFir(N, 1)[a]} = {}
      BY <2>2, <3>1
    <3>3. QED
      BY <2>3, <3>2 DEF Via, MeantOf
  <2>4. CASE t.mode # "NIL"
    <3>1. \A x \in Nat : MeantOf(t, SigEven(t))[x] = SigEven(t)[x]
      BY <2>4 DEF MeantOf
    <3>2. {MeantOf(t, SigEven(t))[x] : x \in ByFir(N, 1)[a]} = {SigEven(t)[x] : x \in ByFir(N, 1)[a]}
      BY <2>2, <3>1
    <3>3. MeantOf(t, SigSent(t))[a] = SigSent(t)[a]
      BY <2>4 DEF MeantOf
    <3>4. QED
      BY <3>2, <3>3 DEF Via, SigSent
  <2>5. QED
    BY <2>3, <2>4
<1>13. BlockCarries(r.out, SigSent(t), MeantOf(t, SigSent(t)), p)
  <2>1. \A i \in Index : N - 1 - i \in Nat
    BY <1>7 DEF Index
  <2>2. QED
    BY <1>11, <1>12, <2>1 DEF BlockCarries, SigSent
<1>14. TxHolds(t, r.mem, p)
  <2>1. HalfCarries(r.mem.filt, N, SigEven(t), MeantOf(t, SigEven(t)), p)
    BY <1>4, <1>7, <1>9, HalfSaved
  <2>2. QED
    BY <1>4, <1>8, <2>1 DEF TxHolds
<1>15. QED
  BY <1>4, <1>9, <1>13, <1>14

-----------------------------------------------------------------------------
(* The display.                                                            *)

(* Of m samples that are read from mark f on, the latest sh are what is    *)
(* meant of signal G, if they are made of the last n samples.              *)
DisplayCarries(acc, f, m, sh, n, G, H) ==
  \A t \in 0 .. m - 1 :
    (m - 1 - t < sh /\ G[m - 1 - t] \subseteq 0 .. n - 1) => acc[(f + t) % m] = H[m - 1 - t]

LEMMA WholeBlocks ==
  ASSUME NEW m \in Nat \ {0}, m % N = 0, NEW f \in 0 .. m - 1, f % N = 0
  PROVE  f + N <= m /\ (f + N) % N = 0
<1>0. N \in Nat \ {0} /\ N \in Int /\ f \in Int /\ m \in Int
  BY Lengths
<1>1. PICK q \in Int : f = N * q
  <2>1. PICK q \in Int : f = N * q + (f % N)
    BY <1>0, Divided, Zenon
  <2>2. N * q \in Int /\ f = N * q + 0
    BY <1>0, <2>1, Times, Zenon
  <2>3. QED
    BY <2>2
<1>2. PICK r \in Int : m = N * r
  <2>1. PICK r \in Int : m = N * r + (m % N)
    BY <1>0, Divided, Zenon
  <2>2. N * r \in Int /\ m = N * r + 0
    BY <1>0, <2>1, Times, Zenon
  <2>3. QED
    BY <2>2
<1>3. f + N <= m
  <2>1. SUFFICES ASSUME f + N > m PROVE FALSE
    BY <1>0
  <2>2. N * (r - q) = N * r - N * q /\ r - q \in Int
    BY <1>0, Times
  <2>3. N * (r - q) < N /\ N * (r - q) > 0 /\ N * (r - q) > 0 - N
    BY <1>0, <1>1, <1>2, <2>1, <2>2
  <2>4. N * (r - q) = 0
    BY <1>0, <2>2, <2>3, CloseMultiple, Zenon
  <2>5. QED
    BY <2>3, <2>4
<1>4. (f + N) % N = f % N
  <2>1. (f + N) - f = N * 1 /\ f + N \in Int /\ 1 \in Int
    BY <1>0
  <2>2. \E p \in Int : (f + N) - f = N * p
    BY <2>1, Zenon
  <2>3. QED
    BY <1>0, <2>1, <2>2, SameRemainder, Zenon
<1>5. QED
  BY <1>3, <1>4, Zenon

LEMMA MaskIs ==
  ASSUME NEW polyphase \in BOOLEAN
  PROVE  /\ Mask(polyphase) \in Nat \ {0} /\ Mask(polyphase) % N = 0
         /\ Mask(polyphase) <= Poly * Size /\ 0 .. Mask(polyphase) - 1 \subseteq 0 .. Poly * Size - 1
<1>0. /\ N \in Nat \ {0} /\ Size \in Nat \ {0} /\ Poly \in Nat \ {0} /\ Size % N = 0
      /\ N \in Int /\ Size \in Int /\ Poly \in Int
  BY Lengths, ReceiverAssumption
<1>1. PICK q \in Int : Size = N * q
  <2>1. PICK q \in Int : Size = N * q + (Size % N)
    BY <1>0, Divided, Zenon
  <2>2. N * q \in Int /\ Size = N * q + 0
    BY <1>0, <2>1, Times, Zenon
  <2>3. QED
    BY <2>2
<1>2. Poly * Size \in Nat \ {0} /\ Size <= Poly * Size
  BY <1>0
<1>3. Poly * Size = N * (Poly * q) + 0 /\ Poly * q \in Int
  BY <1>0, <1>1
<1>4. (Poly * Size) % N = 0
  <2>1. 0 \in 0 .. N - 1
    BY <1>0
  <2>2. (N * (Poly * q) + 0) % N = 0
    BY <1>0, <1>3, <2>1, RemainderIs, Zenon
  <2>3. QED
    BY <1>3, <2>2, Zenon
<1>5. CASE polyphase
  BY <1>0, <1>2, <1>4, <1>5 DEF Mask
<1>6. CASE ~polyphase
  BY <1>0, <1>2, <1>6 DEF Mask
<1>7. QED
  BY <1>5, <1>6

(* The next block goes in where the oldest one was.                        *)
LEMMA DisplayStep ==
  ASSUME NEW m \in Nat \ {0}, m % N = 0, NEW f \in 0 .. m - 1, f % N = 0,
         NEW G, Signal(G), NEW H, KeptOf(H, G), NEW n, NEW p, Grown(n, p),
         NEW sh \in Nat, NEW sh2 \in Nat, sh2 <= sh + N,
         NEW acc, DisplayCarries(acc, f, m, sh, n, G, H), NEW b, BlockCarries(b, G, H, p),
         NEW acc2, \A s \in 0 .. m - 1 : acc2[s] = IF s - f \in Index THEN b[s - f] ELSE Older(acc[s])
  PROVE  /\ DisplayCarries(acc2, (f + N) % m, m, sh2, p, G, H)
         /\ (f + N) % m \in 0 .. m - 1 /\ ((f + N) % m) % N = 0
<1>0. N \in Nat \ {0} /\ f + N <= m /\ (f + N) % N = 0 /\ f + N \in Int /\ f \in Nat
  BY Lengths, WholeBlocks
<1>1. (f + N) % m = IF f + N = m THEN 0 ELSE f + N
  <2>1. CASE f + N = m
    <3>1. m = m * 1 + 0 /\ 0 \in 0 .. m - 1 /\ 1 \in Int
      OBVIOUS
    <3>2. (m * 1 + 0) % m = 0
      BY <3>1, RemainderIs, Zenon
    <3>3. QED
      BY <2>1, <3>1, <3>2
  <2>2. CASE f + N # m
    <3>1. f + N \in 0 .. m - 1
      BY <1>0, <2>2
    <3>2. QED
      BY <2>2, <3>1, Small, Zenon
  <2>3. QED
    BY <2>1, <2>2
<1>2. (f + N) % m \in 0 .. m - 1 /\ ((f + N) % m) % N = 0
  <2>1. 0 % N = 0
    <3>1. 0 \in 0 .. N - 1
      BY <1>0
    <3>2. QED
      BY <1>0, <3>1, Small, Zenon
  <2>2. (f + N) % m \in 0 .. m - 1
    BY <1>0, Divided, Zenon
  <2>3. QED
    BY <1>0, <1>1, <2>1, <2>2, Zenon
<1>3. ASSUME NEW t \in 0 .. m - 1
      PROVE  (((f + N) % m) + t) % m = (f + N + t) % m
  <2>1. t \in Int
    OBVIOUS
  <2>2. QED
    BY <1>0, <2>1, RemainderPlus, Zenon
<1>4. ASSUME NEW t \in 0 .. m - 1, m - 1 - t < sh2, G[m - 1 - t] \subseteq 0 .. p - 1
      PROVE  acc2[(((f + N) % m) + t) % m] = H[m - 1 - t]
  <2>1. CASE t >= m - N
    <3>1. PICK i \in Index : i = t - (m - N)
      BY <1>0, <2>1 DEF Index
    <3>2. f + i \in 0 .. m - 1 /\ (f + i) - f = i /\ N - 1 - i = m - 1 - t
      BY <1>0, <3>1 DEF Index
    <3>3. (f + N + t) % m = f + i
      <4>1. f + N + t = m * 1 + (f + i)
        BY <1>0, <3>1 DEF Index
      <4>2. (m * 1 + (f + i)) % m = f + i
        <5>1. 1 \in Int
          OBVIOUS
        <5>2. QED
          BY <3>2, <5>1, RemainderIs, Zenon
      <4>3. QED
        BY <4>1, <4>2
    <3>4. acc2[f + i] = b[i]
      BY <3>1, <3>2
    <3>5. b[i] = H[N - 1 - i]
      BY <1>4, <3>2 DEF BlockCarries
    <3>6. QED
      BY <1>3, <3>2, <3>3, <3>4, <3>5
  <2>2. CASE t < m - N
    <3>1. PICK u \in 0 .. m - 1 : u = t + N
      BY <1>0, <2>2
    <3>2. PICK a \in Nat : a = m - 1 - u
      OBVIOUS
    <3>3. PICK s : s = (f + u) % m
      OBVIOUS
    <3>4. f + N + t = f + u /\ a + N = m - 1 - t
      BY <1>0, <3>1, <3>2
    <3>5. s \in 0 .. m - 1 /\ s = IF f + u < m THEN f + u ELSE f + u - m
      <4>1. CASE f + u < m
        <5>1. f + u \in 0 .. m - 1
          BY <4>1
        <5>2. QED
          BY <3>3, <4>1, <5>1, Small
      <4>2. CASE f + u >= m
        <5>1. f + u - m \in 0 .. m - 1 /\ f + u = m * 1 + (f + u - m) /\ 1 \in Int
          BY <4>2
        <5>2. (m * 1 + (f + u - m)) % m = f + u - m
          BY <5>1, RemainderIs, Zenon
        <5>3. QED
          BY <3>3, <4>2, <5>1, <5>2
      <4>3. QED
        BY <4>1, <4>2
    <3>6. s - f \notin Index
      BY <1>0, <3>1, <3>5 DEF Index
    <3>7. acc2[s] = Older(acc[s])
      BY <3>5, <3>6
    <3>8. G[a] \subseteq 0 .. n - 1 => acc[s] = H[a]
      <4>1. m - 1 - u < sh
        BY <1>0, <1>4, <3>1
      <4>2. QED
        BY <3>2, <3>3, <4>1 DEF DisplayCarries
    <3>9. Older(acc[s]) = H[a + N]
      <4>1. G[a + N] \subseteq 0 .. p - 1
        BY <1>4, <3>4
      <4>2. QED
        BY <3>8, <4>1, OlderIs
    <3>10. QED
      BY <1>3, <3>3, <3>4, <3>7, <3>9
  <2>3. QED
    BY <1>0, <2>1, <2>2
<1>5. DisplayCarries(acc2, (f + N) % m, m, sh2, p, G, H)
  BY <1>4 DEF DisplayCarries
<1>6. QED
  BY <1>2, <1>5

(* Nothing is claimed of a display that has just been changed, or of a     *)
(* channel that has just begun.                                            *)
LEMMA DisplayNothing ==
  ASSUME NEW acc, NEW f, NEW m \in Nat, NEW n, NEW G, NEW H
  PROVE  DisplayCarries(acc, f, m, 0, n, G, H)
  BY DEF DisplayCarries

LEMMA DisplayFresh ==
  ASSUME NEW acc, NEW f, NEW m \in Nat, NEW sh, NEW G, Signal(G), NEW H
  PROVE  DisplayCarries(acc, f, m, sh, 0, G, H)
<1>1. \A t \in 0 .. m - 1 : m - 1 - t \in Nat
  OBVIOUS
<1>2. QED
  BY <1>1, NotYet DEF DisplayCarries

-----------------------------------------------------------------------------
(* The invariant of the chains.                                            *)

RxKept(k) ==
  /\ RxShape(memory[k]) /\ RxHolds(tune[k], memory[k], since[k])
  /\ BlockCarries(heard[k], SigDetected(tune[k]), SigDetected(tune[k]), since[k])

TxKept ==
  /\ TxShape(memory[Tx]) /\ TxHolds(voice, memory[Tx], since[Tx])
  /\ BlockCarries(heard[Tx], SigSent(voice), MeantOf(voice, SigSent(voice)), since[Tx])

ChannelsOK ==
  /\ tune \in [Rx -> RxSettings] /\ voice \in TxSettings
  /\ DOMAIN memory = Channels /\ since \in [Channels -> 0 .. Horizon]
  /\ \A k \in Rx : RxKept(k)
  /\ TxKept

(* Tap y of channel c, whose settings are s or t.                          *)
SigTap(c, s, t, y) == [a \in Nat |-> IF c = Tx THEN TxAges(t, y, a) ELSE RxAges(s, y, a)]
MeantTap(c, s, t, y) == IF c = Tx THEN MeantOf(t, SigTap(c, s, t, y)) ELSE SigTap(c, s, t, y)

(* While it shows one channel, the others begin anew.                      *)
OneShown ==
  shown > 0 => IF source = Tx THEN \A k \in Rx : since[k] = 0
               ELSE source = spec.rxk /\ since[Tx] = 0

DisplayOK ==
  /\ spec \in [rxk : Rx, type : Types, polyphase : BOOLEAN]
  /\ DOMAIN accum = 0 .. Poly * Size - 1
  /\ fill \in 0 .. Mask(spec.polyphase) - 1 /\ fill % N = 0
  /\ shown \in 0 .. Horizon /\ source \in Channels
  /\ OneShown
  /\ DisplayCarries(accum, fill, Mask(spec.polyphase), shown, since[source],
                    SigTap(source, tune[source], voice, spec.type),
                    MeantTap(source, tune[source], voice, spec.type))

ChainInv == IInv /\ ChannelsOK /\ DisplayOK

LEMMA TapSignal ==
  ASSUME NEW c, NEW s, c # Tx => s \in RxSettings, NEW t \in TxSettings, NEW y \in Types
  PROVE  /\ Signal(SigTap(c, s, t, y)) /\ KeptOf(MeantTap(c, s, t, y), SigTap(c, s, t, y))
         /\ c # Tx => SigTap(c, s, t, y) =
              IF y = "SEMI_RAW" THEN Plainly ELSE IF y = "PRE_FILT" THEN SigClean(s)
              ELSE IF y = "POST_FILT" THEN SigFiltered(s) ELSE IF y = "POST_AGC" THEN SigLevel(s)
              ELSE SigDetected(s)
         /\ c = Tx => SigTap(c, s, t, y) = IF y = "POST_DET" THEN SigEven(t) ELSE SigSent(t)
<1>1. CASE c # Tx
  <2>1. SigTap(c, s, t, y) = [a \in Nat |-> RxAges(s, y, a)]
    BY <1>1 DEF SigTap
  <2>2. \A a \in Nat : RxAges(s, y, a) =
          IF y = "SEMI_RAW" THEN {a} ELSE IF y = "PRE_FILT" THEN Clean(s, a)
          ELSE IF y = "POST_FILT" THEN Filtered(s, a) ELSE IF y = "POST_AGC" THEN Level(s, a)
          ELSE Detected(s, a)
    BY DEF RxAges, Types
  <2>3. SigTap(c, s, t, y) =
          IF y = "SEMI_RAW" THEN Plainly ELSE IF y = "PRE_FILT" THEN SigClean(s)
          ELSE IF y = "POST_FILT" THEN SigFiltered(s) ELSE IF y = "POST_AGC" THEN SigLevel(s)
          ELSE SigDetected(s)
    BY <2>1, <2>2 DEF Plainly, SigClean, SigFiltered, SigLevel, SigDetected
  <2>4. Signal(SigTap(c, s, t, y))
    BY <1>1, <2>3, RxSignals, PlainSignal
  <2>5. MeantTap(c, s, t, y) = SigTap(c, s, t, y)
    BY <1>1 DEF MeantTap
  <2>6. QED
    BY <1>1, <2>3, <2>4, <2>5, KeptWhole
<1>2. CASE c = Tx
  <2>1. SigTap(c, s, t, y) = [a \in Nat |-> TxAges(t, y, a)]
    BY <1>2 DEF SigTap
  <2>2. \A a \in Nat : ByFir(N, 1)[a] = Fir(N, 1, a) /\ Fir(N, 1, a) \subseteq Nat
    BY Lengths, FirOf DEF ByFir
  <2>3. CASE y = "POST_DET"
    <3>1. \A a \in Nat : TxAges(t, y, a) = Even(t, a)
      BY <2>3 DEF TxAges
    <3>2. SigTap(c, s, t, y) = SigEven(t)
      BY <2>1, <3>1 DEF SigEven
    <3>3. QED
      BY <1>2, <2>3, <3>2, TxSignals, MeantKept DEF MeantTap
  <2>4. CASE y # "POST_DET"
    <3>1. ASSUME NEW a \in Nat PROVE TxAges(t, y, a) = UNION {SigEven(t)[x] : x \in ByFir(N, 1)[a]}
      BY <2>2, <2>4 DEF TxAges, SigEven
    <3>2. SigTap(c, s, t, y) = SigSent(t)
      BY <2>1, <3>1 DEF SigSent, Via
    <3>3. QED
      BY <1>2, <2>4, <3>2, TxSignals, MeantKept DEF MeantTap
  <2>5. QED
    BY <2>3, <2>4
<1>3. QED
  BY <1>1, <1>2

(* What the invariant says in the words of the model.                      *)
LEMMA InStepHolds == ChannelsOK => InStep
<1> SUFFICES ASSUME ChannelsOK,
                    NEW c \in Channels, NEW i \in Index, NEW y,
                    y = IF c = Tx THEN "SEMI_RAW" ELSE "POST_DET", Settled(c, y, N - 1 - i)
             PROVE  heard[c][i] = Meant(c, y, N - 1 - i)
  BY DEF InStep
<1>0. N - 1 - i \in Nat
  BY NatN DEF Index
<1>1. PICK a \in Nat : a = N - 1 - i
  BY <1>0
<1>2. CASE c = Tx
  <2>1. Ages(c, y, a) = SigSent(voice)[a]
    <3>1. SigTap(c, tune[c], voice, y) = SigSent(voice)
      BY <1>2, TapSignal DEF ChannelsOK, Types
    <3>2. SigTap(c, tune[c], voice, y)[a] = TxAges(voice, y, a)
      BY <1>2 DEF SigTap
    <3>3. QED
      BY <1>2, <3>1, <3>2 DEF Ages
  <2>2. SigSent(voice)[N - 1 - i] \subseteq 0 .. since[c] - 1
    BY <1>1, <2>1 DEF Settled
  <2>3. heard[c][i] = MeantOf(voice, SigSent(voice))[N - 1 - i]
    BY <1>2, <2>2 DEF ChannelsOK, TxKept, BlockCarries
  <2>4. MeantOf(voice, SigSent(voice))[a] = Meant(c, y, a)
    BY <1>2, <2>1 DEF MeantOf, Meant, Silence
  <2>5. QED
    BY <1>1, <2>3, <2>4
<1>3. CASE c # Tx
  <2>1. c \in Rx /\ tune[c] \in RxSettings
    BY <1>3 DEF Channels, ChannelsOK
  <2>2. Ages(c, y, a) = SigDetected(tune[c])[a]
    <3>1. SigTap(c, tune[c], voice, y) = SigDetected(tune[c])
      BY <1>3, <2>1, TapSignal DEF ChannelsOK, Types
    <3>2. SigTap(c, tune[c], voice, y)[a] = RxAges(tune[c], y, a)
      BY <1>3 DEF SigTap
    <3>3. QED
      BY <1>3, <3>1, <3>2 DEF Ages
  <2>3. SigDetected(tune[c])[N - 1 - i] \subseteq 0 .. since[c] - 1
    BY <1>1, <2>2 DEF Settled
  <2>4. heard[c][i] = SigDetected(tune[c])[N - 1 - i]
    BY <2>1, <2>3 DEF ChannelsOK, RxKept, BlockCarries
  <2>5. QED
    BY <1>1, <1>3, <2>2, <2>4 DEF Meant
<1>4. QED
  BY <1>2, <1>3

LEMMA SnapshotHolds == DisplayOK => SnapshotInOrder
<1> SUFFICES ASSUME DisplayOK, NEW t \in DOMAIN Snapshot, NEW a, a = Mask(spec.polyphase) - 1 - t,
                    a < shown, Settled(source, spec.type, a)
             PROVE  Snapshot[t] = Meant(source, spec.type, a)
  BY DEF SnapshotInOrder
<1>1. PICK m : m = Mask(spec.polyphase)
  OBVIOUS
<1>2. m \in Nat \ {0} /\ t \in 0 .. m - 1 /\ a \in Nat /\ a = m - 1 - t
  <2>1. m \in Nat \ {0}
    BY <1>1, MaskIs DEF DisplayOK
  <2>2. t \in 0 .. m - 1
    BY <1>1 DEF Snapshot
  <2>3. QED
    BY <1>1, <2>1, <2>2
<1>3. Snapshot[t] = accum[(fill + t) % m]
  BY <1>1, <1>2 DEF Snapshot
<1> DEFINE G == SigTap(source, tune[source], voice, spec.type)
           H == MeantTap(source, tune[source], voice, spec.type)
<1>4. G[a] = Ages(source, spec.type, a)
  BY <1>2 DEF SigTap, Ages
<1>5. H[a] = Meant(source, spec.type, a)
  BY <1>2, <1>4 DEF MeantTap, MeantOf, Meant, Silence
<1>6. G[m - 1 - t] \subseteq 0 .. since[source] - 1 /\ m - 1 - t < shown
  BY <1>2, <1>4 DEF Settled
<1>7. accum[(fill + t) % m] = H[m - 1 - t]
  BY <1>1, <1>2, <1>6 DEF DisplayOK, DisplayCarries
<1>8. QED
  BY <1>2, <1>3, <1>5, <1>7

(* What setup_rx and setup_tx make has the right shape.                    *)
LEMMA NewShapes == RxShape(NewRxMemory) /\ TxShape(NewTxMemory)
<1>1. ASSUME NEW size \in Nat \ {0} PROVE Ring(NewLine(size), size)
  BY DEF Ring, NewLine
<1>2. \A c : DOMAIN NewHalf(c) = 0 .. c - 1
  BY DEF NewHalf
<1>3. NewAgc = NewLine(AgcSlots)
  BY DEF NewAgc
<1>4. /\ Ring(NewLine(NbSlots), NbSlots) /\ Ring(NewLine(LmsSlots), LmsSlots)
      /\ Ring(NewAgc, AgcSlots)
  BY <1>1, <1>3, Lengths
<1>5. NewBlanker.line = NewLine(NbSlots) /\ DOMAIN NewBlanker = {"line", "hang"}
  BY DEF NewBlanker
<1>6. RxShape(NewRxMemory)
  BY <1>2, <1>4, <1>5 DEF RxShape, NewRxMemory
<1>7. TxShape(NewTxMemory)
  BY <1>2 DEF TxShape, NewTxMemory
<1>8. QED
  BY <1>6, <1>7

(* A channel that begins anew.                                             *)
LEMMA RxAnew ==
  ASSUME NEW s \in RxSettings, NEW m, RxShape(m), NEW b
  PROVE  /\ RxShape(m) /\ RxHolds(s, m, 0)
         /\ BlockCarries(b, SigDetected(s), SigDetected(s), 0)
  BY HoldsNothing, BlockNothing, RxSignals

LEMMA TxAnew ==
  ASSUME NEW t \in TxSettings, NEW m, TxShape(m), NEW b
  PROVE  /\ TxShape(m) /\ TxHolds(t, m, 0)
         /\ BlockCarries(b, SigSent(t), MeantOf(t, SigSent(t)), 0)
  BY TxHoldsNothing, BlockNothing, TxSignals

LEMMA Apart == Rx \subseteq Channels /\ Tx \in Channels /\ (\A k \in Rx : k # Tx) /\ 0 \in Rx
  BY TxApart, SquelchAssumption DEF Channels, Rx

LEMMA InitChainInv == ChainInit => ChainInv
<1> SUFFICES ASSUME ChainInit PROVE ChainInv
  OBVIOUS
<1>1. IInv
  BY InitIInv DEF ChainInit
<1>2. ChannelsOK
  <2>1. /\ tune \in [Rx -> RxSettings] /\ voice \in TxSettings /\ DOMAIN memory = Channels
        /\ since \in [Channels -> 0 .. Horizon]
    BY ReceiverAssumption, NatN DEF ChainInit, NewMemory
  <2>2. ASSUME NEW k \in Rx PROVE RxKept(k)
    <3>1. memory[k] = NewRxMemory /\ since[k] = 0 /\ tune[k] \in RxSettings
      BY <2>1, Apart DEF ChainInit, NewMemory
    <3>2. QED
      BY <3>1, NewShapes, RxAnew DEF RxKept
  <2>3. TxKept
    <3>1. memory[Tx] = NewTxMemory /\ since[Tx] = 0
      BY Apart DEF ChainInit, NewMemory
    <3>2. QED
      BY <2>1, <3>1, NewShapes, TxAnew DEF TxKept
  <2>4. QED
    BY <2>1, <2>2, <2>3 DEF ChannelsOK
<1>3. DisplayOK
  <2>1. /\ spec \in [rxk : Rx, type : Types, polyphase : BOOLEAN]
        /\ DOMAIN accum = 0 .. Poly * Size - 1 /\ fill = 0 /\ shown = 0 /\ source \in Channels
    BY Apart DEF ChainInit, NewSpec, Types
  <2>2. PICK m : m = Mask(spec.polyphase)
    OBVIOUS
  <2>3. m \in Nat \ {0}
    BY <2>1, <2>2, MaskIs
  <2>4. fill \in 0 .. m - 1 /\ fill % N = 0
    <3>1. 0 \in 0 .. N - 1
      BY Lengths
    <3>2. 0 % N = 0
      BY <3>1, Lengths, Small, Zenon
    <3>3. QED
      BY <2>1, <2>3, <3>2
  <2>5. shown \in 0 .. Horizon /\ OneShown
    BY <2>1, NatN DEF OneShown
  <2>6. DisplayCarries(accum, fill, m, shown, since[source],
                       SigTap(source, tune[source], voice, spec.type),
                       MeantTap(source, tune[source], voice, spec.type))
    BY <2>1, <2>3, DisplayNothing
  <2>7. QED
    BY <2>1, <2>2, <2>4, <2>5, <2>6 DEF DisplayOK
<1>4. QED
  BY <1>1, <1>2, <1>3 DEF ChainInv

(* Every step of the chains is one of the squelches, or leaves them alone. *)
LEMMA ChainStep == [ChainNext]_<<vars, chainVars>> => [Next]_vars
<1> SUFFICES ASSUME [ChainNext]_<<vars, chainVars>> PROVE Next \/ UNCHANGED vars
  OBVIOUS
<1>1. ASSUME NEW k \in Rx, NEW s \in Receptions, SetReceiver(k, s) PROVE UNCHANGED vars
  BY <1>1 DEF SetReceiver
<1>2. ASSUME NEW t \in Transmissions, SetTransmitter(t) PROVE UNCHANGED vars
  BY <1>2 DEF SetTransmitter
<1>3. ASSUME NEW k \in Rx, NEW y \in Displays, SetSpectrumType(k, y) PROVE UNCHANGED vars
  BY <1>3 DEF SetSpectrumType
<1>4. ASSUME NEW b \in BOOLEAN, SetSpectrumPolyphase(b) PROVE UNCHANGED vars
  BY <1>4 DEF SetSpectrumPolyphase
<1>5. Switch => Next
  BY DEF Switch, Next
<1>6. NewWorkspace => Next
  BY DEF NewWorkspace, Next
<1>7. ASSUME NEW quiet \in SUBSET Rx, NEW pulse, RxSamples(quiet, pulse) PROVE Next
  <2>1. ReceiveBlock(quiet)
    BY <1>7 DEF RxSamples
  <2>2. QED
    BY <2>1 DEF Next, Block
<1>8. ASSUME NEW shut \in BOOLEAN, TxSamples(shut) PROVE Next
  <2>1. SquelchTx \/ PassTx
    BY <1>8 DEF TxSamples
  <2>2. QED
    BY <2>1 DEF Next, Block
<1>9. CASE UNCHANGED <<vars, chainVars>>
  BY <1>9
<1>10. QED
  BY <1>1, <1>2, <1>3, <1>4, <1>5, <1>6, <1>7, <1>8, <1>9 DEF ChainNext, process_samples

-----------------------------------------------------------------------------
(* The commands.                                                           *)

(* A tap of one channel does not depend on the settings of another.        *)
LEMMA TapsApart ==
  ASSUME NEW c, NEW s1, NEW s2, NEW t1, NEW t2, NEW y,
         c # Tx => s1 = s2, c = Tx => t1 = t2
  PROVE  /\ SigTap(c, s1, t1, y) = SigTap(c, s2, t2, y)
         /\ MeantTap(c, s1, t1, y) = MeantTap(c, s2, t2, y)
<1>1. SigTap(c, s1, t1, y) = SigTap(c, s2, t2, y)
  <2>1. CASE c = Tx
    BY <2>1 DEF SigTap
  <2>2. CASE c # Tx
    BY <2>2 DEF SigTap
  <2>3. QED
    BY <2>1, <2>2
<1>2. QED
  BY <1>1 DEF MeantTap

(* The display, when a channel is changed and begins anew.                 *)
LEMMA DisplayKept ==
  ASSUME ChannelsOK, DisplayOK, ChannelsOK', UNCHANGED <<spec, accum, fill, shown, source>>,
         \A c \in Channels : \/ since'[c] = 0
                             \/ /\ since'[c] = since[c]
                                /\ c # Tx => tune'[c] = tune[c]
                                /\ c = Tx => voice' = voice
  PROVE  DisplayOK'
<1> DEFINE G == SigTap(source, tune'[source], voice', spec.type)
           H == MeantTap(source, tune'[source], voice', spec.type)
<1>1. OneShown'
  <2>1. \A c \in Channels : since[c] = 0 => since'[c] = 0
    OBVIOUS
  <2>2. QED
    BY <2>1, Apart DEF DisplayOK, OneShown
<1>2. PICK m \in Nat : m = Mask(spec.polyphase)
  BY MaskIs DEF DisplayOK
<1>3. DisplayCarries(accum, fill, m, shown, since'[source], G, H)
  <2>1. CASE since'[source] = 0
    <3>1. voice' \in TxSettings /\ (source # Tx => tune'[source] \in RxSettings) /\ spec.type \in Types
      BY DEF ChannelsOK, DisplayOK, Channels
    <3>2. Signal(G)
      BY <3>1, TapSignal
    <3>3. QED
      BY <2>1, <3>2, DisplayFresh
  <2>2. CASE since'[source] # 0
    <3>1. /\ since'[source] = since[source]
          /\ source # Tx => tune'[source] = tune[source]
          /\ source = Tx => voice' = voice
      BY <2>2 DEF DisplayOK
    <3>2. /\ G = SigTap(source, tune[source], voice, spec.type)
          /\ H = MeantTap(source, tune[source], voice, spec.type)
      BY <3>1, TapsApart
    <3>3. QED
      BY <1>2, <3>1, <3>2 DEF DisplayOK
  <2>3. QED
    BY <2>1, <2>2
<1>4. QED
  BY <1>1, <1>2, <1>3 DEF DisplayOK

(* The display, when it begins anew.                                       *)
LEMMA DisplayAnew ==
  ASSUME spec' \in [rxk : Rx, type : Types, polyphase : BOOLEAN],
         DOMAIN accum' = 0 .. Poly * Size - 1,
         fill' \in 0 .. Mask(spec'.polyphase) - 1, fill' % N = 0,
         shown' = 0, source' \in Channels
  PROVE  DisplayOK'
<1>1. PICK m \in Nat : m = Mask(spec'.polyphase)
  BY MaskIs
<1>2. DisplayCarries(accum', fill', m, shown', since'[source'],
                     SigTap(source', tune'[source'], voice', spec'.type),
                     MeantTap(source', tune'[source'], voice', spec'.type))
  BY DisplayNothing
<1>3. shown' \in 0 .. Horizon /\ OneShown'
  BY NatN DEF OneShown
<1>4. QED
  BY <1>1, <1>2, <1>3 DEF DisplayOK

(* fill = 0 is a place of the accumulator, whatever its mask is.           *)
LEMMA FillAnew ==
  ASSUME NEW polyphase \in BOOLEAN
  PROVE  0 \in 0 .. Mask(polyphase) - 1 /\ 0 % N = 0
<1>1. 0 \in 0 .. N - 1
  BY Lengths
<1>2. 0 % N = 0
  BY <1>1, Lengths, Small, Zenon
<1>3. QED
  BY <1>2, MaskIs

(* The ring of the AGC starts over at slot 0.                              *)
LEMMA AgcAnew ==
  ASSUME NEW m, RxShape(m), NEW at \in Nat, NEW o, o = [m EXCEPT !.agc.at = at]
  PROVE  RxShape(o)
<1>1. /\ o.nb = m.nb /\ o.filt = m.filt /\ o.anr = m.anr /\ o.anf = m.anf
      /\ o.banr = m.banr /\ o.banf = m.banf /\ o.eq = m.eq
  OBVIOUS
<1>2. Ring(o.agc, AgcSlots)
  BY DEF RxShape, Ring
<1>3. QED
  BY <1>1, <1>2 DEF RxShape

LEMMA SetReceiverKeeps ==
  ASSUME ChannelsOK, DisplayOK, NEW k \in Rx, NEW s \in Receptions, SetReceiver(k, s)
  PROVE  ChannelsOK' /\ DisplayOK'
<1>1. /\ tune' = [tune EXCEPT ![k] = s] /\ since' = [since EXCEPT ![k] = 0] /\ voice' = voice
      /\ UNCHANGED <<heard, spec, accum, fill, shown, source>>
      /\ memory' = IF s.agc # tune[k].agc THEN [memory EXCEPT ![k].agc.at = 0] ELSE memory
  BY DEF SetReceiver
<1>2. s \in RxSettings /\ k \in Channels /\ k # Tx
  BY ReceiverAssumption, Apart
<1>3. /\ tune' \in [Rx -> RxSettings] /\ voice' \in TxSettings /\ DOMAIN memory' = Channels
      /\ since' \in [Channels -> 0 .. Horizon]
  BY <1>1, <1>2, NatN DEF ChannelsOK
<1>4. ASSUME NEW j \in Rx PROVE RxKept(j)'
  <2>1. j \in Channels /\ RxKept(j)
    BY Apart DEF ChannelsOK
  <2>2. CASE j = k
    <3>1. RxShape(memory[k]')
      <4>1. CASE s.agc # tune[k].agc
        <5>1. memory' = [memory EXCEPT ![k].agc.at = 0]
          BY <1>1, <4>1
        <5>2. memory'[k] = [memory[k] EXCEPT !.agc.at = 0]
          BY <1>2, <5>1 DEF ChannelsOK
        <5>3. QED
          BY <2>1, <2>2, <5>2, AgcAnew DEF RxKept
      <4>2. CASE s.agc = tune[k].agc
        BY <1>1, <2>1, <2>2, <4>2 DEF RxKept
      <4>3. QED
        BY <4>1, <4>2
    <3>2. tune'[k] = s /\ since'[k] = 0
      BY <1>1, <1>2 DEF ChannelsOK
    <3>3. QED
      BY <1>2, <2>2, <3>1, <3>2, RxAnew DEF RxKept
  <2>3. CASE j # k
    <3>1. tune'[j] = tune[j] /\ since'[j] = since[j] /\ memory'[j] = memory[j] /\ heard' = heard
      BY <1>1, <2>1, <2>3 DEF ChannelsOK
    <3>2. QED
      BY <2>1, <3>1 DEF RxKept
  <2>4. QED
    BY <2>2, <2>3
<1>5. TxKept'
  <2>1. since'[Tx] = since[Tx] /\ memory'[Tx] = memory[Tx] /\ heard' = heard /\ voice' = voice
    BY <1>1, <1>2, Apart DEF ChannelsOK
  <2>2. QED
    BY <2>1 DEF ChannelsOK, TxKept
<1>6. ChannelsOK'
  BY <1>3, <1>4, <1>5 DEF ChannelsOK
<1>7. ASSUME NEW c \in Channels
      PROVE  \/ since'[c] = 0
             \/ /\ since'[c] = since[c]
                /\ c # Tx => tune'[c] = tune[c]
                /\ c = Tx => voice' = voice
  <2>1. c # Tx => c \in Rx
    BY DEF Channels
  <2>2. QED
    BY <1>1, <2>1 DEF ChannelsOK
<1>8. DisplayOK'
  BY <1>1, <1>6, <1>7, DisplayKept
<1>9. QED
  BY <1>6, <1>8

LEMMA SetTransmitterKeeps ==
  ASSUME ChannelsOK, DisplayOK, NEW t \in Transmissions, SetTransmitter(t)
  PROVE  ChannelsOK' /\ DisplayOK'
<1>1. /\ voice' = t /\ since' = [since EXCEPT ![Tx] = 0]
      /\ UNCHANGED <<tune, memory, heard, spec, accum, fill, shown, source>>
  BY DEF SetTransmitter
<1>2. /\ tune' \in [Rx -> RxSettings] /\ voice' \in TxSettings /\ DOMAIN memory' = Channels
      /\ since' \in [Channels -> 0 .. Horizon]
  <2>1. voice' \in TxSettings
    BY <1>1, ReceiverAssumption
  <2>2. since' \in [Channels -> 0 .. Horizon]
    <3>1. 0 \in 0 .. Horizon /\ since \in [Channels -> 0 .. Horizon]
      BY NatN DEF ChannelsOK
    <3>2. QED
      BY <1>1, <3>1
  <2>3. QED
    BY <1>1, <2>1, <2>2 DEF ChannelsOK
<1>3. ASSUME NEW j \in Rx PROVE RxKept(j)'
  <2>1. since'[j] = since[j] /\ RxKept(j)
    BY <1>1, Apart DEF ChannelsOK
  <2>2. QED
    BY <1>1, <2>1 DEF RxKept
<1>4. TxKept'
  <2>1. since'[Tx] = 0 /\ TxShape(memory'[Tx])
    BY <1>1, Apart DEF ChannelsOK, TxKept
  <2>2. QED
    BY <1>2, <2>1, TxAnew DEF TxKept
<1>5. ChannelsOK'
  BY <1>2, <1>3, <1>4 DEF ChannelsOK
<1>6. ASSUME NEW c \in Channels
      PROVE  since'[c] = 0 \/ (since'[c] = since[c] /\ tune'[c] = tune[c] /\ c # Tx)
  BY <1>1 DEF ChannelsOK
<1>7. DisplayOK'
  BY <1>1, <1>5, <1>6, DisplayKept
<1>8. QED
  BY <1>5, <1>7

(* A command of the display, or of the squelches, leaves the channels as   *)
(* they are.                                                               *)
LEMMA ChannelsKept ==
  ASSUME ChannelsOK, UNCHANGED <<tune, memory, voice, heard, since>>
  PROVE  ChannelsOK'
<1>1. \A k \in Rx : RxKept(k)'
  BY DEF ChannelsOK, RxKept
<1>2. TxKept'
  BY DEF ChannelsOK, TxKept
<1>3. QED
  BY <1>1, <1>2 DEF ChannelsOK

LEMMA SetSpectrumTypeKeeps ==
  ASSUME ChannelsOK, DisplayOK, NEW k \in Rx, NEW y \in Displays, SetSpectrumType(k, y)
  PROVE  ChannelsOK' /\ DisplayOK'
<1>1. ChannelsOK'
  BY ChannelsKept DEF SetSpectrumType
<1>2. y \in Types /\ spec' = [spec EXCEPT !.rxk = k, !.type = y]
  BY ReceiverAssumption DEF SetSpectrumType
<1>3. /\ spec' \in [rxk : Rx, type : Types, polyphase : BOOLEAN]
      /\ spec'.polyphase = spec.polyphase
  BY <1>2 DEF DisplayOK
<1>4. DisplayOK'
  BY <1>3, DisplayAnew DEF DisplayOK, SetSpectrumType
<1>5. QED
  BY <1>1, <1>4

LEMMA SetSpectrumPolyphaseKeeps ==
  ASSUME ChannelsOK, DisplayOK, NEW b \in BOOLEAN, SetSpectrumPolyphase(b)
  PROVE  ChannelsOK' /\ DisplayOK'
<1>1. ChannelsOK'
  BY ChannelsKept DEF SetSpectrumPolyphase
<1>2. /\ spec' = [spec EXCEPT !.polyphase = b] /\ fill' = 0 /\ shown' = 0 /\ source' = source
      /\ DOMAIN accum' = DOMAIN accum
  BY DEF SetSpectrumPolyphase
<1>3. spec' \in [rxk : Rx, type : Types, polyphase : BOOLEAN]
  BY <1>2 DEF DisplayOK
<1>4. fill' \in 0 .. Mask(spec'.polyphase) - 1 /\ fill' % N = 0
  BY <1>2, <1>3, FillAnew
<1>5. DisplayOK'
  BY <1>2, <1>3, <1>4, DisplayAnew DEF DisplayOK
<1>6. QED
  BY <1>1, <1>5

LEMMA NewWorkspaceKeeps ==
  ASSUME DisplayOK, NewWorkspace
  PROVE  ChannelsOK' /\ DisplayOK'
<1>1. /\ tune' = [k \in Rx |-> FreshRx] /\ voice' = FreshTx /\ memory' = NewMemory
      /\ since' = [c \in Channels |-> 0]
  BY DEF NewWorkspace
<1>2. /\ tune' \in [Rx -> RxSettings] /\ voice' \in TxSettings /\ DOMAIN memory' = Channels
      /\ since' \in [Channels -> 0 .. Horizon]
  BY <1>1, ReceiverAssumption, NatN DEF NewMemory
<1>3. ASSUME NEW k \in Rx PROVE RxKept(k)'
  <2>1. memory'[k] = NewRxMemory /\ since'[k] = 0 /\ tune'[k] \in RxSettings
    BY <1>1, <1>2, Apart DEF NewMemory
  <2>2. QED
    BY <2>1, NewShapes, RxAnew DEF RxKept
<1>4. TxKept'
  <2>1. memory'[Tx] = NewTxMemory /\ since'[Tx] = 0
    BY <1>1, Apart DEF NewMemory
  <2>2. QED
    BY <1>2, <2>1, NewShapes, TxAnew DEF TxKept
<1>5. ChannelsOK'
  BY <1>2, <1>3, <1>4 DEF ChannelsOK
<1>6. /\ spec' \in [rxk : Rx, type : Types, polyphase : BOOLEAN] /\ spec'.polyphase \in BOOLEAN
      /\ DOMAIN accum' = 0 .. Poly * Size - 1 /\ fill' = 0 /\ shown' = 0 /\ source' = source
  BY Apart DEF NewWorkspace, NewSpec, Types
<1>7. fill' \in 0 .. Mask(spec'.polyphase) - 1 /\ fill' % N = 0
  BY <1>6, FillAnew
<1>8. DisplayOK'
  BY <1>6, <1>7, DisplayAnew DEF DisplayOK
<1>9. QED
  BY <1>5, <1>8

-----------------------------------------------------------------------------
(* A block.                                                                *)

(* A channel that works on a block has worked on N samples more, or begins *)
(* anew.                                                                   *)
LEMMA Counted ==
  ASSUME NEW n \in 0 .. Horizon, NEW p, p = Min({n + N, Horizon}) \/ p = 0
  PROVE  p \in 0 .. Horizon /\ Grown(n, p) /\ p <= n + N
<1>1. n + N \in Int /\ Horizon \in Int /\ N \in Nat /\ Horizon \in Nat
  BY NatN
<1>2. Min({n + N, Horizon}) = IF n + N <= Horizon THEN n + N ELSE Horizon
  BY <1>1, SmallerOf
<1>3. QED
  BY <1>1, <1>2 DEF Grown

(* The block that goes into the accumulator goes on from the ones that are *)
(* in it.                                                                  *)
LEMMA AccumulateKeeps ==
  ASSUME ChannelsOK, DisplayOK, NEW c \in Channels, c = Tx \/ c = spec.rxk, NEW b,
         Accumulate(c, b), UNCHANGED <<tune, voice, spec>>,
         NEW p, p = since'[c], Grown(since[c], p),
         BlockCarries(b, SigTap(c, tune[c], voice, spec.type),
                         MeantTap(c, tune[c], voice, spec.type), p),
         c = Tx => \A k \in Rx : since'[k] = 0,
         c # Tx => since'[Tx] = 0
  PROVE  DisplayOK'
<1> DEFINE G == SigTap(c, tune[c], voice, spec.type)
           H == MeantTap(c, tune[c], voice, spec.type)
<1>1. PICK m : m = Mask(spec.polyphase)
  OBVIOUS
<1>2. /\ m \in Nat \ {0} /\ m % N = 0 /\ fill \in 0 .. m - 1 /\ fill % N = 0
      /\ 0 .. m - 1 \subseteq 0 .. Poly * Size - 1
  BY <1>1, MaskIs DEF DisplayOK
<1>3. Signal(G) /\ KeptOf(H, G)
  <2>1. voice \in TxSettings /\ (c # Tx => tune[c] \in RxSettings) /\ spec.type \in Types
    BY DEF ChannelsOK, DisplayOK, Channels
  <2>2. QED
    BY <2>1, TapSignal
<1>4. DisplayCarries(accum, fill, m, shown, since[c], G, H)
  <2>1. CASE shown = 0
    BY <1>2, <2>1, DisplayNothing
  <2>2. CASE source = c
    BY <1>1, <2>2 DEF DisplayOK
  <2>3. CASE shown # 0 /\ source # c
    <3>1. shown > 0
      BY <2>3, NatN DEF DisplayOK
    <3>2. since[c] = 0
      BY <2>3, <3>1 DEF DisplayOK, OneShown, Channels
    <3>3. QED
      BY <1>2, <1>3, <3>2, DisplayFresh
  <2>4. QED
    BY <2>1, <2>2, <2>3
<1>5. /\ accum' = [s \in DOMAIN accum |-> IF s - fill \in Index THEN b[s - fill] ELSE Older(accum[s])]
      /\ fill' = (fill + N) % m /\ shown' = Min({shown + N, Horizon}) /\ source' = c
  BY <1>1 DEF Accumulate
<1>6. \A s \in 0 .. m - 1 : accum'[s] = IF s - fill \in Index THEN b[s - fill] ELSE Older(accum[s])
  BY <1>2, <1>5 DEF DisplayOK
<1>7. shown \in 0 .. Horizon /\ shown \in Nat /\ shown' \in 0 .. Horizon /\ shown' \in Nat /\ shown' <= shown + N
  <2>1. shown \in 0 .. Horizon
    BY DEF DisplayOK
  <2>2. QED
    BY <1>5, <2>1, Counted, NatN
<1>8. /\ DisplayCarries(accum', (fill + N) % m, m, shown', p, G, H)
      /\ (fill + N) % m \in 0 .. m - 1 /\ ((fill + N) % m) % N = 0
  BY <1>2, <1>3, <1>4, <1>6, <1>7, DisplayStep
<1>9. OneShown'
  BY <1>5, Apart DEF OneShown, Channels
<1>10. QED
  BY <1>1, <1>5, <1>7, <1>8, <1>9 DEF DisplayOK

LEMMA StandStillKeeps ==
  ASSUME DisplayOK, StandStill, spec' = spec
  PROVE  DisplayOK'
  BY DisplayAnew DEF StandStill, DisplayOK

(* What an active receiver makes of a block.                               *)
LEMMA ActiveReceiver ==
  ASSUME NEW k \in Rx, NEW s \in RxSettings, s = tune[k], voice \in TxSettings,
         NEW n \in 0 .. Horizon, RxShape(memory[k]), RxHolds(s, memory[k], n),
         NEW quiet, NEW pulse, NEW r, r = DoRx(k, pulse, SquelchRx(k, quiet)),
         NEW p, p = IF Whole(k, pulse, SquelchRx(k, quiet)) THEN Min({n + N, Horizon}) ELSE 0,
         NEW y \in Types
  PROVE  /\ Grown(n, p) /\ RxShape(r.mem) /\ RxHolds(s, r.mem, p)
         /\ BlockCarries(r.tap.POST_DET, SigDetected(s), SigDetected(s), p)
         /\ BlockCarries(r.tap[y], SigTap(k, s, voice, y), MeantTap(k, s, voice, y), p)
<1>1. Grown(n, p)
  BY Counted
<1>2. k # Tx
  BY Apart
<1>3. RxShape(r.mem)
  BY ShapeKept
<1>4. /\ Signal(SigTap(k, s, voice, y)) /\ MeantTap(k, s, voice, y) = SigTap(k, s, voice, y)
      /\ SigTap(k, s, voice, y) =
           IF y = "SEMI_RAW" THEN Plainly ELSE IF y = "PRE_FILT" THEN SigClean(s)
           ELSE IF y = "POST_FILT" THEN SigFiltered(s) ELSE IF y = "POST_AGC" THEN SigLevel(s)
           ELSE SigDetected(s)
  BY <1>2, TapSignal DEF MeantTap
<1>5. CASE Whole(k, pulse, SquelchRx(k, quiet))
  <2>1. /\ ~SquelchRx(k, quiet)
        /\ Lost(k) => s.mode = "SPEC"
        /\ s.nb => pulse = NoPulse /\ memory[k].nb.hang = 0
    BY <1>5 DEF Whole
  <2>2. /\ RxHolds(s, r.mem, p)
        /\ BlockCarries(r.tap.SEMI_RAW, Plainly, Plainly, p)
        /\ BlockCarries(r.tap.PRE_FILT, SigClean(s), SigClean(s), p)
        /\ BlockCarries(r.tap.POST_FILT, SigFiltered(s), SigFiltered(s), p)
        /\ BlockCarries(r.tap.POST_AGC, SigLevel(s), SigLevel(s), p)
        /\ BlockCarries(r.tap.POST_DET, SigDetected(s), SigDetected(s), p)
    BY <1>1, <2>1, ReceiverBlock
  <2>3. BlockCarries(r.tap[y], SigTap(k, s, voice, y), SigTap(k, s, voice, y), p)
    BY <1>4, <2>2 DEF Types
  <2>4. QED
    BY <1>1, <1>3, <1>4, <2>2, <2>3
<1>6. CASE ~Whole(k, pulse, SquelchRx(k, quiet))
  <2>1. p = 0
    BY <1>6
  <2>2. QED
    BY <1>1, <1>3, <1>4, <2>1, HoldsNothing, BlockNothing, RxSignals
<1>7. QED
  BY <1>5, <1>6

LEMMA RxSamplesKeeps ==
  ASSUME ChannelsOK, DisplayOK, act \subseteq Rx, NEW quiet, NEW pulse, RxSamples(quiet, pulse)
  PROVE  ChannelsOK' /\ DisplayOK'
<1> DEFINE rx == [k \in act |-> DoRx(k, pulse, SquelchRx(k, quiet))]
<1>1. /\ heard' = [c \in Channels |-> IF c \in act THEN rx[c].tap.POST_DET ELSE Aged(heard[c])]
      /\ memory' = [c \in Channels |-> IF c \in act THEN rx[c].mem
                                       ELSE IF c = Tx THEN AgedTx(memory[c]) ELSE AgedRx(memory[c])]
      /\ since' = [c \in Channels |->
                     IF c \in act /\ Whole(c, pulse, SquelchRx(c, quiet))
                     THEN Min({since[c] + N, Horizon}) ELSE 0]
      /\ IF SpecFlag /\ spec.rxk \in act THEN Accumulate(spec.rxk, rx[spec.rxk].tap[spec.type])
                                         ELSE StandStill
      /\ UNCHANGED <<tune, voice, spec>>
  BY DEF RxSamples
<1>2. ASSUME NEW k \in act
      PROVE  /\ k \in Rx /\ k \in Channels /\ k # Tx
             /\ rx[k] = DoRx(k, pulse, SquelchRx(k, quiet))
             /\ heard'[k] = rx[k].tap.POST_DET /\ memory'[k] = rx[k].mem
             /\ since'[k] = IF Whole(k, pulse, SquelchRx(k, quiet))
                            THEN Min({since[k] + N, Horizon}) ELSE 0
  BY <1>1, Apart
<1>3. ASSUME NEW c \in Channels, c \notin act PROVE since'[c] = 0
  BY <1>1, <1>3
<1>4. ASSUME NEW k \in Rx
      PROVE  /\ tune[k] \in RxSettings /\ since[k] \in 0 .. Horizon
             /\ RxShape(memory[k]) /\ RxHolds(tune[k], memory[k], since[k])
  BY Apart DEF ChannelsOK, RxKept
<1>5. ASSUME NEW k \in act, NEW y \in Types
      PROVE  /\ Grown(since[k], since'[k])
             /\ RxShape(memory'[k]) /\ RxHolds(tune[k], memory'[k], since'[k])
             /\ BlockCarries(heard'[k], SigDetected(tune[k]), SigDetected(tune[k]), since'[k])
             /\ BlockCarries(rx[k].tap[y], SigTap(k, tune[k], voice, y),
                             MeantTap(k, tune[k], voice, y), since'[k])
  <2>1. k \in Rx /\ voice \in TxSettings
    BY <1>2 DEF ChannelsOK
  <2>2. PICK r : r = rx[k]
    OBVIOUS
  <2>3. PICK p : p = since'[k]
    OBVIOUS
  <2>4. PICK n : n = since[k]
    OBVIOUS
  <2>5. PICK s : s = tune[k]
    OBVIOUS
  <2>6. /\ r = DoRx(k, pulse, SquelchRx(k, quiet))
        /\ p = IF Whole(k, pulse, SquelchRx(k, quiet)) THEN Min({n + N, Horizon}) ELSE 0
    BY <1>2, <2>2, <2>3, <2>4
  <2>7. /\ s \in RxSettings /\ n \in 0 .. Horizon
        /\ RxShape(memory[k]) /\ RxHolds(s, memory[k], n)
    BY <1>4, <2>1, <2>4, <2>5
  <2>8. /\ Grown(n, p) /\ RxShape(r.mem) /\ RxHolds(s, r.mem, p)
        /\ BlockCarries(r.tap.POST_DET, SigDetected(s), SigDetected(s), p)
        /\ BlockCarries(r.tap[y], SigTap(k, s, voice, y), MeantTap(k, s, voice, y), p)
    BY <2>1, <2>5, <2>6, <2>7, ActiveReceiver
  <2>9. heard'[k] = r.tap.POST_DET /\ memory'[k] = r.mem
    BY <1>2, <2>2
  <2>10. QED
    BY <2>2, <2>3, <2>4, <2>5, <2>8, <2>9
<1>6. since' \in [Channels -> 0 .. Horizon]
  <2>1. ASSUME NEW c \in Channels PROVE since'[c] \in 0 .. Horizon
    <3>1. CASE c \in act
      <4>1. "POST_DET" \in Types
        BY DEF Types
      <4>2. QED
        BY <1>5, <3>1, <4>1 DEF Grown
    <3>2. CASE c \notin act
      BY <1>3, <3>2, NatN
    <3>3. QED
      BY <3>1, <3>2
  <2>2. DOMAIN since' = Channels /\ since' = [c \in Channels |-> since'[c]]
    BY <1>1
  <2>3. QED
    BY <2>1, <2>2
<1>7. ASSUME NEW k \in Rx PROVE RxKept(k)'
  <2>1. k \in Channels /\ k # Tx
    BY Apart
  <2>2. CASE k \in act
    <3>1. "POST_DET" \in Types
      BY DEF Types
    <3>2. QED
      BY <1>1, <1>5, <2>2, <3>1 DEF RxKept
  <2>3. CASE k \notin act
    <3>1. memory'[k] = AgedRx(memory[k]) /\ since'[k] = 0 /\ tune' = tune
      BY <1>1, <2>1, <2>3
    <3>2. RxShape(memory'[k]) /\ tune'[k] \in RxSettings
      BY <1>4, <3>1, AgedShape
    <3>3. QED
      BY <3>1, <3>2, RxAnew DEF RxKept
  <2>4. QED
    BY <2>2, <2>3
<1>8. TxKept' /\ since'[Tx] = 0
  <2>1. Tx \in Channels /\ Tx \notin act
    BY Apart, TxApart
  <2>2. memory'[Tx] = AgedTx(memory[Tx]) /\ since'[Tx] = 0
    BY <1>1, <2>1
  <2>3. TxShape(memory'[Tx])
    BY <2>2 DEF ChannelsOK, TxKept, TxShape, AgedTx, Aged
  <2>4. voice' = voice /\ voice \in TxSettings
    BY <1>1 DEF ChannelsOK
  <2>5. QED
    BY <2>2, <2>3, <2>4, TxAnew DEF TxKept
<1>9. ChannelsOK'
  <2>1. tune' \in [Rx -> RxSettings] /\ voice' \in TxSettings /\ DOMAIN memory' = Channels
    BY <1>1 DEF ChannelsOK
  <2>2. QED
    BY <1>6, <1>7, <1>8, <2>1 DEF ChannelsOK
<1>10. CASE SpecFlag /\ spec.rxk \in act
  <2>1. PICK c \in act : c = spec.rxk
    BY <1>10
  <2>2. PICK b : b = rx[c].tap[spec.type]
    OBVIOUS
  <2>3. c \in Channels /\ c # Tx /\ Accumulate(c, b)
    BY <1>1, <1>2, <1>10, <2>1, <2>2
  <2>4. spec.type \in Types
    BY DEF DisplayOK
  <2>5. /\ Grown(since[c], since'[c])
        /\ BlockCarries(b, SigTap(c, tune[c], voice, spec.type),
                        MeantTap(c, tune[c], voice, spec.type), since'[c])
    BY <1>5, <2>2, <2>4
  <2>6. QED
    BY <1>1, <1>8, <1>9, <2>1, <2>3, <2>5, AccumulateKeeps
<1>11. CASE ~(SpecFlag /\ spec.rxk \in act)
  BY <1>1, <1>9, <1>11, StandStillKeeps
<1>12. QED
  BY <1>9, <1>10, <1>11

(* What the transmitter makes of a block.                                  *)
LEMMA WholeTransmission ==
  ASSUME NEW t \in TxSettings, t = voice, NEW n \in 0 .. Horizon,
         TxShape(memory[Tx]), TxHolds(t, memory[Tx], n),
         NEW shut \in BOOLEAN, NEW r, r = DoTx(shut),
         NEW p, p = IF ~shut /\ ~Lost(Tx) THEN Min({n + N, Horizon}) ELSE 0,
         NEW s, NEW y \in Types
  PROVE  /\ Grown(n, p) /\ TxShape(r.mem) /\ TxHolds(t, r.mem, p)
         /\ BlockCarries(r.out, SigSent(t), MeantOf(t, SigSent(t)), p)
         /\ BlockCarries(r.tap[y], SigTap(Tx, s, t, y), MeantTap(Tx, s, t, y), p)
<1>1. Grown(n, p)
  BY Counted
<1>2. TxShape(r.mem)
  BY TxShapeKept
<1>3. /\ Signal(SigTap(Tx, s, t, y))
      /\ MeantTap(Tx, s, t, y) = MeantOf(t, SigTap(Tx, s, t, y))
      /\ SigTap(Tx, s, t, y) = IF y = "POST_DET" THEN SigEven(t) ELSE SigSent(t)
  BY TapSignal DEF MeantTap
<1>4. CASE ~shut /\ ~Lost(Tx)
  <2>1. /\ TxHolds(t, r.mem, p)
        /\ BlockCarries(r.tap.POST_DET, SigEven(t), MeantOf(t, SigEven(t)), p)
        /\ BlockCarries(r.out, SigSent(t), MeantOf(t, SigSent(t)), p)
        /\ \A z \in Types \ {"POST_DET"} : r.tap[z] = r.out
    BY <1>1, <1>4, TransmitterBlock
  <2>2. BlockCarries(r.tap[y], SigTap(Tx, s, t, y), MeantTap(Tx, s, t, y), p)
    <3>1. CASE y = "POST_DET"
      BY <1>3, <2>1, <3>1
    <3>2. CASE y # "POST_DET"
      BY <1>3, <2>1, <3>2
    <3>3. QED
      BY <3>1, <3>2
  <2>3. QED
    BY <1>1, <1>2, <2>1, <2>2
<1>5. CASE ~(~shut /\ ~Lost(Tx))
  <2>1. p = 0
    BY <1>5
  <2>2. QED
    BY <1>1, <1>2, <1>3, <2>1, TxHoldsNothing, BlockNothing, TxSignals
<1>6. QED
  BY <1>4, <1>5

LEMMA TxSamplesKeeps ==
  ASSUME ChannelsOK, DisplayOK, NEW shut \in BOOLEAN, TxSamples(shut)
  PROVE  ChannelsOK' /\ DisplayOK'
<1>1. PICK r : r = DoTx(shut)
  OBVIOUS
<1>2. /\ heard' = [c \in Channels |-> IF c = Tx THEN r.out ELSE Aged(heard[c])]
      /\ memory' = [c \in Channels |-> IF c = Tx THEN r.mem ELSE AgedRx(memory[c])]
      /\ since' = [c \in Channels |-> IF c = Tx /\ ~shut /\ ~Lost(Tx)
                                      THEN Min({since[c] + N, Horizon}) ELSE 0]
      /\ IF SpecFlag THEN Accumulate(Tx, r.tap[spec.type]) ELSE StandStill
      /\ UNCHANGED <<tune, voice, spec>>
  BY <1>1 DEF TxSamples
<1>3. Tx \in Channels /\ spec.type \in Types /\ voice \in TxSettings
  BY Apart DEF DisplayOK, ChannelsOK
<1>4. PICK n \in 0 .. Horizon : n = since[Tx]
  BY <1>3 DEF ChannelsOK
<1>5. PICK p : p = since'[Tx]
  OBVIOUS
<1>6. p = IF ~shut /\ ~Lost(Tx) THEN Min({n + N, Horizon}) ELSE 0
  BY <1>2, <1>3, <1>4, <1>5
<1>7. /\ Grown(n, p) /\ TxShape(r.mem) /\ TxHolds(voice, r.mem, p)
      /\ BlockCarries(r.out, SigSent(voice), MeantOf(voice, SigSent(voice)), p)
      /\ BlockCarries(r.tap[spec.type], SigTap(Tx, tune[Tx], voice, spec.type),
                      MeantTap(Tx, tune[Tx], voice, spec.type), p)
  <2>1. TxShape(memory[Tx]) /\ TxHolds(voice, memory[Tx], n)
    BY <1>4 DEF ChannelsOK, TxKept
  <2>2. QED
    BY <1>1, <1>3, <1>6, <2>1, WholeTransmission
<1>8. ASSUME NEW k \in Rx PROVE RxKept(k)' /\ since'[k] = 0
  <2>1. k \in Channels /\ k # Tx
    BY Apart
  <2>2. memory'[k] = AgedRx(memory[k]) /\ since'[k] = 0 /\ tune' = tune
    BY <1>2, <2>1
  <2>3. RxShape(memory[k]) /\ tune[k] \in RxSettings
    BY DEF ChannelsOK, RxKept
  <2>4. RxShape(memory'[k])
    BY <2>2, <2>3, AgedShape
  <2>5. QED
    BY <2>2, <2>3, <2>4, RxAnew DEF RxKept
<1>9. TxKept'
  <2>1. heard'[Tx] = r.out /\ memory'[Tx] = r.mem
    BY <1>2, <1>3
  <2>2. QED
    BY <1>2, <1>5, <1>7, <2>1 DEF TxKept
<1>10. ChannelsOK'
  <2>1. tune' \in [Rx -> RxSettings] /\ voice' \in TxSettings /\ DOMAIN memory' = Channels
    BY <1>2 DEF ChannelsOK
  <2>2. ASSUME NEW c \in Channels PROVE since'[c] \in 0 .. Horizon
    <3>1. c = Tx \/ c \in Rx
      BY DEF Channels
    <3>2. 0 \in 0 .. Horizon /\ since'[Tx] \in 0 .. Horizon
      BY <1>5, <1>7, NatN DEF Grown
    <3>3. QED
      BY <1>8, <3>1, <3>2
  <2>3. since' = [c \in Channels |-> since'[c]]
    BY <1>2
  <2>4. since' \in [Channels -> 0 .. Horizon]
    BY <2>2, <2>3
  <2>5. QED
    BY <1>8, <1>9, <2>1, <2>4 DEF ChannelsOK
<1>11. CASE SpecFlag
  <2>1. PICK b : b = r.tap[spec.type]
    OBVIOUS
  <2>2. Accumulate(Tx, b)
    BY <1>2, <1>11, <2>1
  <2>3. QED
    BY <1>2, <1>3, <1>4, <1>5, <1>7, <1>8, <1>10, <2>1, <2>2, AccumulateKeeps
<1>12. CASE ~SpecFlag
  BY <1>2, <1>10, <1>12, StandStillKeeps
<1>13. QED
  BY <1>10, <1>11, <1>12

-----------------------------------------------------------------------------
LEMMA StepChainInv == ChainInv /\ [ChainNext]_<<vars, chainVars>> => ChainInv'
<1> SUFFICES ASSUME ChainInv, [ChainNext]_<<vars, chainVars>> PROVE ChainInv'
  OBVIOUS
<1>1. IInv'
  BY ChainStep, StepIInv DEF ChainInv
<1>2. ChannelsOK /\ DisplayOK /\ act \subseteq Rx
  BY DEF ChainInv, IInv, TypeOK
<1>3. ASSUME NEW k \in Rx, NEW s \in Receptions, SetReceiver(k, s)
      PROVE  ChannelsOK' /\ DisplayOK'
  BY <1>2, <1>3, SetReceiverKeeps
<1>4. ASSUME NEW t \in Transmissions, SetTransmitter(t)
      PROVE  ChannelsOK' /\ DisplayOK'
  BY <1>2, <1>4, SetTransmitterKeeps
<1>5. ASSUME NEW k \in Rx, NEW y \in Displays, SetSpectrumType(k, y)
      PROVE  ChannelsOK' /\ DisplayOK'
  BY <1>2, <1>5, SetSpectrumTypeKeeps
<1>6. ASSUME NEW b \in BOOLEAN, SetSpectrumPolyphase(b)
      PROVE  ChannelsOK' /\ DisplayOK'
  BY <1>2, <1>6, SetSpectrumPolyphaseKeeps
<1>7. ASSUME Switch \/ UNCHANGED <<vars, chainVars>>
      PROVE  ChannelsOK' /\ DisplayOK'
  <2>1. UNCHANGED <<tune, memory, voice, heard, spec, accum, fill, since, shown, source>>
    BY <1>7 DEF Switch, chainVars
  <2>2. ChannelsOK'
    BY <1>2, <2>1, ChannelsKept
  <2>3. \A c \in Channels : since'[c] = since[c] /\ tune'[c] = tune[c] /\ voice' = voice
    BY <2>1
  <2>4. QED
    BY <1>2, <2>1, <2>2, <2>3, DisplayKept
<1>8. ASSUME NewWorkspace
      PROVE  ChannelsOK' /\ DisplayOK'
  BY <1>2, <1>8, NewWorkspaceKeeps
<1>9. ASSUME NEW quiet \in SUBSET Rx, NEW pulse, RxSamples(quiet, pulse)
      PROVE  ChannelsOK' /\ DisplayOK'
  BY <1>2, <1>9, RxSamplesKeeps
<1>10. ASSUME NEW shut \in BOOLEAN, TxSamples(shut)
       PROVE  ChannelsOK' /\ DisplayOK'
  BY <1>2, <1>10, TxSamplesKeeps
<1>11. ChannelsOK' /\ DisplayOK'
  BY <1>3, <1>4, <1>5, <1>6, <1>7, <1>8, <1>9, <1>10 DEF ChainNext, process_samples
<1>12. QED
  BY <1>1, <1>11 DEF ChainInv

LEMMA ChainInvHolds == ChainSpec => []ChainInv
  BY InitChainInv, StepChainInv, PTL DEF ChainSpec

(* A channel on which nothing was changed, switched, blanked or lost for   *)
(* as long as its stages look back puts out exactly the samples its        *)
(* filters ask for, for any length of a block, any settings of the stages  *)
(* and any commands before.                                                *)
THEOREM StaysInStep == ChainSpec => []InStep
<1>1. ChainInv => InStep
  BY InStepHolds DEF ChainInv
<1>2. QED
  BY <1>1, ChainInvHolds, PTL

(* What snap_spectrum and snap_scope read of the accumulator from fill on  *)
(* is the latest signal at the tap of the display, in order, for any size  *)
(* of the accumulator that is a number of whole blocks.                    *)
THEOREM ShownInOrder == ChainSpec => []SnapshotInOrder
<1>1. ChainInv => SnapshotInOrder
  BY SnapshotHolds DEF ChainInv
<1>2. QED
  BY <1>1, ChainInvHolds, PTL

(* The chains are a refinement of the squelches alone: whatever the        *)
(* commands change and the display shows, a block does nothing with the    *)
(* squelches that module Squelch does not.                                 *)
THEOREM ChainSquelches == ChainSpec => Spec
<1>1. ChainInit => Init
  BY DEF ChainInit
<1>2. QED
  BY <1>1, ChainStep, PTL DEF ChainSpec, Spec

(* No receiver of the chains makes a step from silence to signal or back   *)
(* in its squelch.                                                         *)
THEOREM ChainSlews == ChainSpec => RxSlews
  BY ChainSquelches, ReceiversSlew, PTL

-----------------------------------------------------------------------------
(* The filter designs.                                                     *)

(* What is asked for, and the length that is made.                         *)
Asked(kind, form, lo, hi, size) ==
  [kind |-> kind, form |-> form, lo |-> lo, hi |-> hi, size |-> size]

(* Windows.  The two ends of a pair are computed together.                 *)
LEMMA WindowShape ==
  ASSUME NEW type \in Windows, NEW size \in Nat \ {0}, NEW w,
         w = makewindow(type, size), w # << >>
  PROVE  /\ DOMAIN w = 0 .. size - 1
         /\ type \in Mirrored =>
              \A i \in DOMAIN w : w[i] = w[size - 1 - i]
<1> DEFINE midn == size \div 2
           all  == 0 .. size - 1
           ends == UNION {{i, size - 1 - i} : i \in 0 .. midn}
           at(p) == {i \in 0 .. midn : p \in {i, size - 1 - i}}
<1>1. CASE type = "RECTANGULAR"
  <2>1. w = [i \in all |-> <<type, 0>>] /\ type \notin Mirrored
    <3>1. type \notin Mirrored /\ type \notin Harris
      BY <1>1 DEF Mirrored, Harris
    <3>2. QED
      BY <1>1, <3>1, Zenon DEF makewindow
  <2>2. QED
    BY <2>1
<1>2. CASE type \in Mirrored
  <2>1. w = [p \in ends |-> <<type, Largest(at(p))>>]
    <3>1. type # "RECTANGULAR" /\ type \notin Harris
      BY <1>2 DEF Mirrored, Harris
    <3>2. QED
      BY <1>2, <3>1, Zenon DEF makewindow
  <2>2. midn \in Nat /\ size <= 2 * midn + 1 /\ 2 * midn <= size
    OBVIOUS
  <2>3. ends = all
    <3> HIDE DEF midn
    <3>1. ASSUME NEW p \in ends PROVE p \in all
      BY <2>2
    <3>2. ASSUME NEW p \in all PROVE p \in ends
      <4>1. CASE p <= midn
        <5>1. p \in 0 .. midn
          BY <4>1, <2>2
        <5>2. QED
          BY <5>1
      <4>2. CASE p > midn
        <5> DEFINE i == size - 1 - p
        <5>1. i \in 0 .. midn /\ p = size - 1 - i
          BY <4>2, <2>2
        <5>2. QED
          BY <5>1
      <4>3. QED
        <5>1. p \in Int /\ midn \in Int
          BY <2>2
        <5> HIDE DEF ends
        <5>2. QED
          BY <4>1, <4>2, <5>1
    <3>3. QED
      BY <3>1, <3>2
  <2>4. ASSUME NEW p \in all
        PROVE  size - 1 - p \in all /\ at(size - 1 - p) = at(p)
    <3> HIDE DEF midn
    <3>1. ASSUME NEW i \in 0 .. midn
          PROVE  p \in {i, size - 1 - i} <=> size - 1 - p \in {i, size - 1 - i}
      BY <2>2
    <3>2. QED
      BY <3>1
  <2>5. QED
    <3> HIDE DEF ends, at, midn
    <3>1. QED
      BY <2>1, <2>3, <2>4
<1>3. CASE type \in Harris
  <2>1. DOMAIN w = all /\ type \notin Mirrored
    BY <1>3 DEF makewindow, Mirrored, Harris
  <2>2. QED
    BY <2>1
<1>4. CASE type = "another"
  <2>1. w = << >>
    BY <1>4 DEF makewindow, Mirrored, Harris
  <2>2. QED
    BY <2>1
<1>5. QED
  BY <1>1, <1>2, <1>3, <1>4 DEF Windows

-----------------------------------------------------------------------------
(* Setting fields keeps the shape.                                         *)
LEMMA Setting ==
  ASSUME NEW o, NEW c \in [one : Int, times : Int, of : {o}],
         NEW a \in Int, NEW b \in Int
  PROVE  /\ [c EXCEPT !.one = a, !.times = b] \in [one : Int, times : Int, of : {o}]
         /\ [c EXCEPT !.one = a, !.times = b].one = a
         /\ [c EXCEPT !.one = a, !.times = b].times = b
         /\ [c EXCEPT !.one = a] \in [one : Int, times : Int, of : {o}]
         /\ [c EXCEPT !.one = a].one = a
         /\ [c EXCEPT !.one = a].times = c.times
OBVIOUS

(* A coefficient turned round, or taken from one.                          *)
LEMMA Turning ==
  ASSUME NEW t \in Int, NEW o, NEW c, c = Value(t, o)
  PROVE  /\ c.one = 0 /\ c.times = t /\ c.of = o
         /\ Negated(c).one = 0 /\ Negated(c).times = -t /\ Negated(c).of = o
         /\ OneLess(c).one = 1 /\ OneLess(c).times = -t /\ OneLess(c).of = o
         /\ "re" \notin DOMAIN c
         /\ "re" \notin DOMAIN Negated(c) /\ "re" \notin DOMAIN OneLess(c)
<1> DEFINE Coefficient == [one : Int, times : Int, of : {o}]
           d == Negated(c)
           e == OneLess(c)
<1>1. c \in Coefficient /\ c.one = 0 /\ c.times = t
  BY DEF Value
<1>2. -c.one = 0 /\ -c.times = -t /\ 0 \in Int /\ 1 \in Int /\ -t \in Int
  <2>1. t \in Int
    OBVIOUS
  <2>2. 0 \in Int /\ 1 \in Int /\ -t \in Int
    BY ONLY <2>1
  <2>3. (\A z \in Int : -z = 0 - z) /\ 0 - 0 = 0
    OBVIOUS
  <2>4. -c.one = 0
    BY ONLY <1>1, <2>2, <2>3, Zenon
  <2>5. QED
    BY ONLY <1>1, <2>2, <2>4, Zenon
<1>3. d = [c EXCEPT !.one = 0, !.times = -t]
  BY <1>2 DEF Negated
<1>4. d \in Coefficient /\ d.one = 0 /\ d.times = -t
  BY <1>1, <1>2, <1>3, Setting
<1>5. e = [d EXCEPT !.one = 1]
  <2>1. e = [d EXCEPT !.one = d.one + 1]
    BY DEF OneLess
  <2>2. d.one + 1 = 1
    BY <1>4
  <2>3. QED
    BY <2>1, <2>2
<1> HIDE DEF d, e
<1>6. e \in Coefficient /\ e.one = 1 /\ e.times = -t
  <2>1. /\ [d EXCEPT !.one = 1] \in Coefficient
        /\ [d EXCEPT !.one = 1].one = 1
        /\ [d EXCEPT !.one = 1].times = d.times
    BY <1>2, <1>4, Setting
  <2>2. QED
    BY ONLY <1>4, <1>5, <2>1
<1>7. ASSUME NEW x \in Coefficient PROVE "re" \notin DOMAIN x /\ x.of = o
  OBVIOUS
<1>8. QED
  BY <1>1, <1>4, <1>6, <1>7 DEF d, e

(* The taps of a pass, and what a stop makes of them.                      *)
KeptRe(kind, n, i) == IF kind = "Lowpass" THEN LowTaps(n)[i] ELSE Moved("cos", n)[i]
KeptIm(kind, n, i) == IF kind = "Lowpass" THEN None ELSE Moved("sin", n)[i]
Kept(kind, form, n, i) ==
  IF form = "REAL" THEN KeptRe(kind, n, i)
  ELSE [re |-> KeptRe(kind, n, i), im |-> KeptIm(kind, n, i)]
Blocked(kind, form, n, i) ==
  IF i # Midpoint(n) THEN Flipped(Kept(kind, form, n, i))
                     ELSE Delta(Kept(kind, form, n, i))

(* A tap of a pass is a value, or nothing.                                 *)
LEMMA KeptValues ==
  ASSUME NEW kind, NEW n \in Nat, NEW i \in 1 .. n
  PROVE  /\ \E t \in Int : \E o : KeptRe(kind, n, i) = Value(t, o)
         /\ \E t \in Int : \E o : KeptIm(kind, n, i) = Value(t, o)
<1>1. LowTaps(n)[i] = Value(1, Sinc(i, n))
  BY DEF LowTaps
<1>2. Moved("cos", n)[i] = Value(2, Append(Sinc(i, n), "cos"))
  BY DEF Moved
<1>3. \/ Moved("sin", n)[i] = Value(2, Append(Sinc(i, n), "sin"))
      \/ Moved("sin", n)[i] = Value(0, << >>)
  BY DEF Moved, None
<1>4. None = Value(0, << >>)
  BY DEF None
<1>5. QED
  BY <1>1, <1>2, <1>3, <1>4 DEF KeptRe, KeptIm

(* A design has as many taps as it is long.                                *)
LEMMA FilledShape ==
  ASSUME NEW n \in Nat, NEW f, f.size = n, NEW type, NEW taps, NEW h,
         h = Filled(f, type, taps)
  PROVE  /\ h.size = n /\ DOMAIN h.tap = 0 .. n - 1
         /\ \A j \in 0 .. n - 1 : h.tap[j] = taps[j + 1]
<1>1. {i - 1 : i \in 1 .. n} = 0 .. n - 1
  <2>1. ASSUME NEW x \in 0 .. n - 1 PROVE x \in {i - 1 : i \in 1 .. n}
    <3>1. x + 1 \in 1 .. n /\ x = (x + 1) - 1
      OBVIOUS
    <3>2. QED
      BY <3>1
  <2>2. QED
    BY <2>1
<1>2. h = [size |-> n, type |-> type, tap |-> [j \in 0 .. n - 1 |-> taps[j + 1]]]
  BY <1>1 DEF Filled
<1>3. QED
  BY <1>2

(* The same when every tap is turned round.                                *)
LEMMA InvertedShape ==
  ASSUME NEW n \in Nat, NEW f, f.size = n, NEW type, NEW taps, NEW h,
         h = Inverted(Filled(f, type, taps))
  PROVE  /\ h.size = n /\ DOMAIN h.tap = 0 .. n - 1
         /\ \A j \in 0 .. n - 1 :
              h.tap[j] = IF j + 1 # Midpoint(n) THEN Flipped(taps[j + 1])
                                                ELSE Delta(taps[j + 1])
<1> DEFINE g == Filled(f, type, taps)
           turned == [j \in DOMAIN g.tap |->
             IF j + 1 # Midpoint(g.size) THEN Flipped(g.tap[j]) ELSE Delta(g.tap[j])]
<1>1. /\ g.size = n /\ DOMAIN g.tap = 0 .. n - 1
      /\ \A j \in 0 .. n - 1 : g.tap[j] = taps[j + 1]
  BY FilledShape
<1>2. g = [size |-> g.size, type |-> g.type, tap |-> g.tap]
  BY DEF Filled
<1>3. h = [g EXCEPT !.tap = turned]
  BY DEF Inverted
<1> HIDE DEF g
<1>4. h.tap = turned /\ h.size = g.size
  <2> HIDE DEF turned
  <2>1. QED
    BY <1>2, <1>3
<1>5. QED
  BY <1>1, <1>4

(* What is refused.                                                        *)
Refused(kind, form, lo, hi, size) ==
  IF kind \in OneEdge THEN BadCutoff(lo, Rate, size)
  ELSE IF kind # "Bandpass" \/ form = "REAL" THEN BadBandREAL(lo, hi, Rate, size)
  ELSE 2 * lo < -Rate \/ 2 * hi > Rate \/ hi <= lo \/ size < 1

(* A length is made odd.                                                   *)
LEMMA OddLength ==
  ASSUME NEW size \in Int, size >= 1
  PROVE  Odd(size) \in {size, size + 1} /\ Odd(size) \in Nat
BY DEF Odd

(* Every kind has a constructor of its own.                                *)
LEMMA Constructors ==
  ASSUME NEW kind, NEW form, NEW lo, NEW hi, NEW size, NEW q,
         q = Asked(kind, form, lo, hi, size)
  PROVE
    /\ kind = "Lowpass" =>
         Designed(q) = IF form = "REAL" THEN newFIR_Lowpass_REAL(lo, Rate, size)
                       ELSE newFIR_Lowpass_COMPLEX(lo, Rate, size)
    /\ kind = "Highpass" =>
         Designed(q) = IF form = "REAL" THEN newFIR_Highpass_REAL(lo, Rate, size)
                       ELSE newFIR_Highpass_COMPLEX(lo, Rate, size)
    /\ kind = "Bandpass" =>
         Designed(q) = IF form = "REAL" THEN newFIR_Bandpass_REAL(lo, hi, Rate, size)
                       ELSE newFIR_Bandpass_COMPLEX(lo, hi, Rate, size)
    /\ kind = "Hilbert" =>
         Designed(q) = IF form = "REAL" THEN newFIR_Hilbert_REAL(lo, hi, Rate, size)
                       ELSE newFIR_Hilbert_COMPLEX(lo, hi, Rate, size)
    /\ kind = "Bandstop" =>
         Designed(q) = IF form = "REAL" THEN newFIR_Bandstop_REAL(lo, hi, Rate, size)
                       ELSE newFIR_Bandstop_COMPLEX(lo, hi, Rate, size)
<1>1. q.kind = kind /\ q.form = form /\ q.lo = lo /\ q.hi = hi /\ q.size = size
  BY DEF Asked
<1>2. CASE kind = "Lowpass"
  BY <1>1, <1>2 DEF Designed
<1>3. CASE kind = "Highpass"
  BY <1>1, <1>3 DEF Designed
<1>4. CASE kind = "Bandpass"
  BY <1>1, <1>4 DEF Designed
<1>5. CASE kind = "Hilbert"
  BY <1>1, <1>5 DEF Designed
<1>6. CASE kind = "Bandstop"
  BY <1>1, <1>6 DEF Designed
<1>7. QED
  BY <1>2, <1>3, <1>4, <1>5, <1>6

(* The pass filters have the taps of Kept, the stop filters those of the   *)
(* pass with the same edges turned round.                                  *)
Pass == {"Lowpass", "Bandpass"}
Stop == {"Highpass", "Bandstop"}
PassOf(kind) == IF kind = "Highpass" THEN "Lowpass" ELSE "Bandpass"

TapsOf(kind, form, n) ==
  IF kind = "Lowpass" THEN IF form = "REAL" THEN LowTaps(n) ELSE LowTapsCx(n)
  ELSE IF form = "REAL" THEN Moved("cos", n) ELSE MovedCx(n)

(* The tables the constructors put in.                                     *)
LEMMA TapsAreKept ==
  ASSUME NEW kind, NEW form, NEW n \in Nat, NEW i \in 1 .. n
  PROVE  TapsOf(kind, form, n)[i] = Kept(kind, form, n, i)
<1>1. LowTapsCx(n)[i] = [re |-> LowTaps(n)[i], im |-> None]
  BY DEF LowTapsCx
<1>2. MovedCx(n)[i] = [re |-> Moved("cos", n)[i], im |-> Moved("sin", n)[i]]
  BY DEF MovedCx
<1>3. QED
  BY ONLY <1>1, <1>2, Zenon DEF TapsOf, Kept, KeptRe, KeptIm

LEMMA PassTaps ==
  ASSUME NEW kind \in Pass, NEW form \in {"REAL", "COMPLEX"}, NEW lo, NEW hi,
         NEW size \in Int, NEW h, h = Designed(Asked(kind, form, lo, hi, size)),
         ~Refused(kind, form, lo, hi, size), NEW n, n = Odd(size)
  PROVE  /\ size >= 1 /\ n \in Nat /\ h.size = n /\ DOMAIN h.tap = 0 .. n - 1
         /\ \A j \in 0 .. n - 1 : h.tap[j] = Kept(kind, form, n, j + 1)
<1>1. size >= 1
  BY DEF Refused, BadCutoff, BadBandREAL, OneEdge, Pass
<1>2. n \in Nat
  BY <1>1, OddLength
<1> DEFINE fr == newFIR_REAL(n)
           fc == newFIR_COMPLEX(n)
           taps == TapsOf(kind, form, n)
<1>3. fr.size = n /\ fc.size = n
  BY DEF newFIR_REAL, newFIR_COMPLEX
<1>4. h \in {Filled(fr, kind, taps), Filled(fc, kind, taps)}
  <2>1. CASE kind = "Lowpass" /\ form = "REAL"
    BY <2>1, Constructors DEF newFIR_Lowpass_REAL, Refused, OneEdge, TapsOf
  <2>2. CASE kind = "Lowpass" /\ form = "COMPLEX"
    BY <2>2, Constructors DEF newFIR_Lowpass_COMPLEX, Refused, OneEdge, TapsOf
  <2>3. CASE kind = "Bandpass" /\ form = "REAL"
    BY <2>3, Constructors DEF newFIR_Bandpass_REAL, Refused, OneEdge, TapsOf
  <2>4. CASE kind = "Bandpass" /\ form = "COMPLEX"
    BY <2>4, Constructors DEF newFIR_Bandpass_COMPLEX, Refused, OneEdge, TapsOf
  <2>5. QED
    BY <2>1, <2>2, <2>3, <2>4 DEF Pass
<1> HIDE DEF fr, fc, taps
<1>5. \A i \in 1 .. n : taps[i] = Kept(kind, form, n, i)
  BY <1>2, TapsAreKept DEF taps
<1>6. /\ h.size = n /\ DOMAIN h.tap = 0 .. n - 1
      /\ \A j \in 0 .. n - 1 : h.tap[j] = taps[j + 1]
  BY <1>2, <1>3, <1>4, FilledShape
<1>7. ASSUME NEW j \in 0 .. n - 1 PROVE h.tap[j] = Kept(kind, form, n, j + 1)
  <2>1. j + 1 \in 1 .. n
    BY <1>2
  <2>2. QED
    BY <1>5, <1>6, <2>1
<1>8. QED
  BY <1>1, <1>2, <1>6, <1>7

LEMMA StopTaps ==
  ASSUME NEW kind \in Stop, NEW form \in {"REAL", "COMPLEX"}, NEW lo, NEW hi,
         NEW size \in Int, NEW h, h = Designed(Asked(kind, form, lo, hi, size)),
         ~Refused(kind, form, lo, hi, size), NEW n, n = Odd(size)
  PROVE  /\ size >= 1 /\ n \in Nat /\ h.size = n /\ DOMAIN h.tap = 0 .. n - 1
         /\ \A j \in 0 .. n - 1 :
              h.tap[j] = Blocked(PassOf(kind), form, n, j + 1)
<1>1. size >= 1
  BY DEF Refused, BadCutoff, BadBandREAL, OneEdge, Stop
<1>2. n \in Nat
  BY <1>1, OddLength
<1> DEFINE fr == newFIR_REAL(n)
           fc == newFIR_COMPLEX(n)
           taps == TapsOf(PassOf(kind), form, n)
<1>3. fr.size = n /\ fc.size = n
  BY DEF newFIR_REAL, newFIR_COMPLEX
<1>4. h \in {Inverted(Filled(fr, kind, taps)), Inverted(Filled(fc, kind, taps))}
  <2>1. CASE kind = "Highpass" /\ form = "REAL"
    BY <2>1, Constructors DEF newFIR_Highpass_REAL, Refused, OneEdge, TapsOf, PassOf
  <2>2. CASE kind = "Highpass" /\ form = "COMPLEX"
    BY <2>2, Constructors DEF newFIR_Highpass_COMPLEX, Refused, OneEdge, TapsOf, PassOf
  <2>3. CASE kind = "Bandstop" /\ form = "REAL"
    BY <2>3, Constructors DEF newFIR_Bandstop_REAL, Refused, OneEdge, TapsOf, PassOf
  <2>4. CASE kind = "Bandstop" /\ form = "COMPLEX"
    BY <2>4, Constructors DEF newFIR_Bandstop_COMPLEX, Refused, OneEdge, TapsOf, PassOf
  <2>5. QED
    BY <2>1, <2>2, <2>3, <2>4 DEF Stop
<1> HIDE DEF fr, fc, taps
<1>5. \A i \in 1 .. n : taps[i] = Kept(PassOf(kind), form, n, i)
  BY <1>2, TapsAreKept DEF taps
<1>6. /\ h.size = n /\ DOMAIN h.tap = 0 .. n - 1
      /\ \A j \in 0 .. n - 1 :
           h.tap[j] = IF j + 1 # Midpoint(n) THEN Flipped(taps[j + 1])
                                             ELSE Delta(taps[j + 1])
  BY <1>2, <1>3, <1>4, InvertedShape
<1>7. ASSUME NEW j \in 0 .. n - 1
      PROVE  h.tap[j] = Blocked(PassOf(kind), form, n, j + 1)
  <2>1. j + 1 \in 1 .. n
    BY <1>2
  <2>2. QED
    BY <1>5, <1>6, <2>1 DEF Blocked
<1>8. QED
  BY <1>1, <1>2, <1>6, <1>7

(* Of a Hilbert transformer only the length matters.                       *)
LEMMA HilbertTaps ==
  ASSUME NEW form \in {"REAL", "COMPLEX"}, NEW lo, NEW hi, NEW size \in Int,
         NEW h, h = Designed(Asked("Hilbert", form, lo, hi, size)),
         ~Refused("Hilbert", form, lo, hi, size), NEW n, n = Odd(size)
  PROVE  /\ size >= 1 /\ n \in Nat /\ h.size = n /\ DOMAIN h.tap = 0 .. n - 1
<1>1. size >= 1
  BY DEF Refused, BadCutoff, BadBandREAL, OneEdge
<1>2. n \in Nat
  BY <1>1, OddLength
<1> DEFINE fr == newFIR_REAL(n)
           fc == newFIR_COMPLEX(n)
<1>3. fr.size = n /\ fc.size = n
  BY DEF newFIR_REAL, newFIR_COMPLEX
<1>4. \E f \in {fr, fc} : \E taps : h = Filled(f, "Hilbert", taps)
  <2>1. CASE form = "REAL"
    BY <2>1, Constructors DEF newFIR_Hilbert_REAL, Refused, OneEdge
  <2>2. CASE form = "COMPLEX"
    <3>1. h = newFIR_Hilbert_COMPLEX(lo, hi, Rate, size)
      BY <2>2, Constructors
    <3>2. ~BadBandREAL(lo, hi, Rate, size)
      BY <2>2 DEF Refused, OneEdge
    <3>3. h = Filled(fc, "Hilbert", [i \in 1 .. fc.size |-> fc.zero])
      BY ONLY <3>1, <3>2, n = Odd(size), Zenon DEF newFIR_Hilbert_COMPLEX
    <3>4. QED
      BY <3>3
  <2>3. QED
    BY <2>1, <2>2
<1> HIDE DEF fr, fc
<1>5. QED
  BY <1>1, <1>2, <1>3, <1>4, FilledShape

(* What a stop takes away is what the pass lets through.                   *)
LEMMA Complement ==
  ASSUME NEW kind \in Pass, NEW form \in {"REAL", "COMPLEX"}, NEW n \in Nat,
         NEW i \in 1 .. n,
         NEW a, a = Blocked(kind, form, n, i), NEW b, b = Kept(kind, form, n, i),
         NEW x \in DOMAIN Parts(a)
  PROVE  AddUpTo(Parts(a)[x], Parts(b)[x],
                 IF x = 1 /\ i = Midpoint(n) THEN 1 ELSE 0)
<1> DEFINE re == KeptRe(kind, n, i)
           im == KeptIm(kind, n, i)
<1>1. PICK t \in Int : \E o : re = Value(t, o)
  BY KeptValues
<1>2. PICK o : re = Value(t, o)
  BY <1>1
<1>3. PICK u \in Int : \E w : im = Value(u, w)
  BY KeptValues
<1>4. PICK w : im = Value(u, w)
  BY <1>3
<1> HIDE DEF re, im
<1>5. /\ re.one = 0 /\ re.times = t /\ re.of = o /\ "re" \notin DOMAIN re
      /\ Negated(re).one = 0 /\ Negated(re).times = -t /\ Negated(re).of = o
      /\ OneLess(re).one = 1 /\ OneLess(re).times = -t /\ OneLess(re).of = o
      /\ "re" \notin DOMAIN Negated(re) /\ "re" \notin DOMAIN OneLess(re)
  BY <1>2, Turning
<1>6. /\ im.one = 0 /\ im.times = u /\ im.of = w
      /\ Negated(im).one = 0 /\ Negated(im).times = -u /\ Negated(im).of = w
  BY <1>4, Turning
<1> DEFINE turned == IF i # Midpoint(n) THEN Negated(re) ELSE OneLess(re)
<1>7. AddUpTo(turned, re, IF i = Midpoint(n) THEN 1 ELSE 0)
  BY <1>5 DEF AddUpTo
<1>8. AddUpTo(Negated(im), im, 0)
  BY <1>6 DEF AddUpTo
<1>9. CASE form = "REAL"
  <2>1. b = re /\ a = turned
    BY <1>5, <1>9 DEF Kept, Blocked, Flipped, Delta, re
  <2>2. Parts(a) = <<turned>> /\ Parts(b) = <<re>>
    BY <1>5, <2>1 DEF Parts
  <2> HIDE DEF turned
  <2>3. x = 1 /\ Parts(a)[x] = turned /\ Parts(b)[x] = re
    BY <2>2
  <2>4. QED
    BY <1>7, <2>3
<1>10. CASE form = "COMPLEX"
  <2>1. b = [re |-> re, im |-> im]
    BY <1>10 DEF Kept, re, im
  <2>2. a = [re |-> turned, im |-> Negated(im)]
    <3>1. "re" \in DOMAIN b /\ b.re = re /\ b.im = im
      BY <2>1
    <3>2. Flipped(b) = [re |-> Negated(re), im |-> Negated(im)]
      BY <3>1 DEF Flipped
    <3>3. Delta(b) = [re |-> OneLess(re), im |-> Negated(im)]
      BY <3>1 DEF Delta
    <3>4. QED
      BY <3>2, <3>3 DEF Blocked
  <2> HIDE DEF turned
  <2>3. Parts(a) = <<turned, Negated(im)>> /\ Parts(b) = <<re, im>>
    BY <2>1, <2>2 DEF Parts
  <2>4. x = 1 \/ x = 2
    BY <2>3
  <2>5. QED
    BY <1>7, <1>8, <2>3, <2>4
<1>11. QED
  BY <1>9, <1>10

(* The real part is the same in both forms.                                *)
LEMMA FormsAgree ==
  ASSUME NEW kind \in Pass, NEW form \in {"REAL", "COMPLEX"}, NEW n \in Nat,
         NEW i \in 1 .. n
  PROVE  /\ Parts(Kept(kind, "REAL", n, i))[1] = Parts(Kept(kind, form, n, i))[1]
         /\ Parts(Blocked(kind, "REAL", n, i))[1]
              = Parts(Blocked(kind, form, n, i))[1]
<1> DEFINE re == KeptRe(kind, n, i)
           im == KeptIm(kind, n, i)
           turned == IF i # Midpoint(n) THEN Negated(re) ELSE OneLess(re)
<1>1. PICK t \in Int : \E o : re = Value(t, o)
  BY KeptValues
<1>2. PICK o : re = Value(t, o)
  BY <1>1
<1> HIDE DEF re, im
<1>3. /\ "re" \notin DOMAIN re
      /\ "re" \notin DOMAIN Negated(re) /\ "re" \notin DOMAIN OneLess(re)
  BY <1>2, Turning
<1>4. Kept(kind, "REAL", n, i) = re /\ Blocked(kind, "REAL", n, i) = turned
  BY <1>3 DEF Kept, Blocked, Flipped, Delta, re
<1>5. Parts(re) = <<re>> /\ Parts(turned) = <<turned>>
  BY <1>3 DEF Parts
<1>6. CASE form = "COMPLEX"
  <2> DEFINE b == Kept(kind, form, n, i)
  <2>1. b = [re |-> re, im |-> im]
    BY <1>6 DEF Kept, re, im
  <2> HIDE DEF b
  <2>2. /\ Flipped(b) = [re |-> Negated(re), im |-> Negated(im)]
        /\ Delta(b) = [re |-> OneLess(re), im |-> Negated(im)]
    BY <2>1 DEF Flipped, Delta
  <2>3. Blocked(kind, form, n, i) = [re |-> turned, im |-> Negated(im)]
    BY <2>2 DEF Blocked, b
  <2> HIDE DEF turned
  <2>4. /\ Parts(b) = <<re, im>>
        /\ Parts(Blocked(kind, form, n, i)) = <<turned, Negated(im)>>
    BY <2>1, <2>3 DEF Parts
  <2>5. QED
    BY <1>4, <1>5, <2>4 DEF b
<1>7. QED
  BY <1>6

(* The constructors refuse what they are meant to.                         *)
LEMMA Refusals ==
  ASSUME NEW kind \in Kinds, NEW form \in {"REAL", "COMPLEX"}, NEW lo, NEW hi,
         NEW size, Refused(kind, form, lo, hi, size)
  PROVE  Designed(Asked(kind, form, lo, hi, size)) = Null
<1> USE DEF Refused, OneEdge
<1>1. CASE kind = "Lowpass"
  BY <1>1, Constructors DEF newFIR_Lowpass_REAL, newFIR_Lowpass_COMPLEX
<1>2. CASE kind = "Highpass"
  BY <1>2, Constructors DEF newFIR_Highpass_REAL, newFIR_Highpass_COMPLEX
<1>3. CASE kind = "Bandpass"
  BY <1>3, Constructors DEF newFIR_Bandpass_REAL, newFIR_Bandpass_COMPLEX
<1>4. CASE kind = "Hilbert"
  <2>1. CASE form = "REAL"
    BY <1>4, <2>1, Constructors DEF newFIR_Hilbert_REAL
  <2>2. CASE form = "COMPLEX"
    <3>1. BadBandREAL(lo, hi, Rate, size)
      BY <1>4
    <3>2. newFIR_Hilbert_COMPLEX(lo, hi, Rate, size) = Null
      BY ONLY <3>1, Zenon DEF newFIR_Hilbert_COMPLEX
    <3>3. QED
      BY <1>4, <2>2, <3>2, Constructors
  <2>3. QED
    BY <2>1, <2>2
<1>5. CASE kind = "Bandstop"
  BY <1>5, Constructors DEF newFIR_Bandstop_REAL, newFIR_Bandstop_COMPLEX
<1>6. QED
  BY <1>1, <1>2, <1>3, <1>4, <1>5 DEF Kinds

(* A design is as it was meant.                                            *)
Fresh ==
  /\ fir = Designed(asked)
  /\ \E kind \in Kinds, form \in {"REAL", "COMPLEX"}, lo, hi, size \in Int :
       asked = Asked(kind, form, lo, hi, size)

LEMMA DesignGood == Fresh => AsDesigned
<1> SUFFICES ASSUME NEW kind \in Kinds, NEW form \in {"REAL", "COMPLEX"},
                    NEW lo \in Int, NEW hi \in Int, NEW size \in Int,
                    asked = Asked(kind, form, lo, hi, size), fir = Designed(asked)
             PROVE  AsDesigned
  BY DEF Fresh
<1>1. asked.kind = kind /\ asked.form = form /\ asked.size = size
  BY DEF Asked
<1>2. kind # "window"
  BY DEF Kinds, OneEdge
<1>3. /\ \A f : [asked EXCEPT !.form = f] = Asked(kind, f, lo, hi, size)
      /\ \A kd : [asked EXCEPT !.kind = kd] = Asked(kd, form, lo, hi, size)
  BY DEF Asked
<1> DEFINE Instead(f)   == Designed([asked EXCEPT !.form = f])
           Opposite(kd) == Designed([asked EXCEPT !.kind = kd]).tap
           Impulse(h)   ==
             \A j \in DOMAIN fir.tap : \A x \in DOMAIN Parts(fir.tap[j]) :
               AddUpTo(Parts(fir.tap[j])[x], Parts(h[j])[x],
                       IF x = 1 /\ j + 1 = Midpoint(fir.size) THEN 1 ELSE 0)
           n == Odd(size)
<1>4. SUFFICES ASSUME fir # Null
      PROVE  /\ DOMAIN fir.tap = 0 .. fir.size - 1 /\ fir.size \in {size, size + 1}
             /\ kind = "Highpass" => Impulse(Opposite("Lowpass"))
             /\ kind = "Bandstop" => Impulse(Opposite("Bandpass"))
             /\ (/\ kind \in {"Lowpass", "Highpass", "Bandpass"}
                 /\ Instead("REAL") # Null) =>
                  \A j \in DOMAIN fir.tap :
                    Parts(Instead("REAL").tap[j])[1] = Parts(fir.tap[j])[1]
  BY <1>1, <1>2, Zenon DEF AsDesigned
<1>5. ~Refused(kind, form, lo, hi, size)
  BY <1>4, Refusals
<1>6. /\ size >= 1 /\ n \in Nat /\ n \in {size, size + 1}
      /\ fir.size = n /\ DOMAIN fir.tap = 0 .. n - 1
  <2>1. CASE kind \in Pass
    BY <1>5, <2>1, PassTaps, OddLength
  <2>2. CASE kind \in Stop
    BY <1>5, <2>2, StopTaps, OddLength
  <2>3. CASE kind = "Hilbert"
    BY <1>5, <2>3, HilbertTaps, OddLength
  <2>4. QED
    BY <2>1, <2>2, <2>3 DEF Kinds, OneEdge, Pass, Stop
<1> HIDE DEF n
<1>7. ASSUME kind \in Stop PROVE Impulse(Opposite(PassOf(kind)))
  <2> DEFINE h == Opposite(PassOf(kind))
  <2>1. PassOf(kind) \in Pass /\ ~Refused(PassOf(kind), form, lo, hi, size)
    BY <1>5, <1>7, DesignAssumption
       DEF PassOf, Pass, Stop, Refused, OneEdge, BadBandREAL, BadCutoff
  <2>2. \A j \in 0 .. n - 1 : h[j] = Kept(PassOf(kind), form, n, j + 1)
    BY <1>3, <2>1, PassTaps DEF n
  <2>3. \A j \in 0 .. n - 1 : fir.tap[j] = Blocked(PassOf(kind), form, n, j + 1)
    BY <1>5, <1>7, StopTaps DEF n
  <2> HIDE DEF h
  <2>4. ASSUME NEW j \in 0 .. n - 1, NEW x \in DOMAIN Parts(fir.tap[j])
        PROVE  AddUpTo(Parts(fir.tap[j])[x], Parts(h[j])[x],
                       IF x = 1 /\ j + 1 = Midpoint(n) THEN 1 ELSE 0)
    <3>1. j + 1 \in 1 .. n
      BY <1>6
    <3>2. QED
      BY <1>6, <2>1, <2>2, <2>3, <3>1, Complement
  <2>5. QED
    BY ONLY <1>6, <2>4, Zenon DEF h
<1>8. ASSUME kind \in {"Lowpass", "Highpass", "Bandpass"}, Instead("REAL") # Null,
             NEW j \in 0 .. n - 1
      PROVE  Parts(Instead("REAL").tap[j])[1] = Parts(fir.tap[j])[1]
  <2> DEFINE h == Instead("REAL")
  <2>1. /\ ~Refused(kind, "REAL", lo, hi, size)
        /\ h = Designed(Asked(kind, "REAL", lo, hi, size))
    BY <1>3, <1>8, Refusals
  <2>2. j + 1 \in 1 .. n
    BY <1>6
  <2> HIDE DEF h
  <2>3. CASE kind \in Pass
    <3>1. /\ h.tap[j] = Kept(kind, "REAL", n, j + 1)
          /\ fir.tap[j] = Kept(kind, form, n, j + 1)
      BY <1>5, <2>1, <2>3, PassTaps DEF n
    <3>2. QED
      BY <1>6, <2>2, <2>3, <3>1, FormsAgree DEF h
  <2>4. CASE kind \in Stop
    <3>1. /\ h.tap[j] = Blocked(PassOf(kind), "REAL", n, j + 1)
          /\ fir.tap[j] = Blocked(PassOf(kind), form, n, j + 1)
      BY <1>5, <2>1, <2>4, StopTaps DEF n
    <3>2. PassOf(kind) \in Pass
      BY DEF PassOf, Pass
    <3>3. QED
      BY <1>6, <2>2, <3>1, <3>2, FormsAgree DEF h
  <2>5. QED
    BY <1>8, <2>3, <2>4 DEF Pass, Stop
<1>9. /\ kind = "Highpass" => Impulse(Opposite("Lowpass"))
      /\ kind = "Bandstop" => Impulse(Opposite("Bandpass"))
  BY <1>7 DEF Stop, PassOf
<1>10. QED
  BY <1>6, <1>8, <1>9

LEMMA DesignGoodNext == (Fresh => AsDesigned)'
BY DesignGood, PTL

(* Filters and windows of every length, for every edge and sampling rate,  *)
(* are as they were meant.                                                 *)
THEOREM MadeAsMeant == DesignInit /\ [][DesignNext]_designVars => []AsDesigned
<1>1. DesignInit => AsDesigned
  BY DEF DesignInit, AsDesigned, Kinds, OneEdge
<1>2. AsDesigned /\ [DesignNext]_designVars => AsDesigned'
  <2> SUFFICES ASSUME AsDesigned, [DesignNext]_designVars PROVE AsDesigned'
    OBVIOUS
  <2>1. ASSUME NEW kind \in Kinds, NEW form \in {"REAL", "COMPLEX"},
               NEW lo \in Edges, NEW hi \in Edges, NEW size \in Sizes, Design(kind, form, lo, hi, size)
        PROVE  AsDesigned'
    <3>1. asked' = Asked(kind, form, lo, hi, size) /\ fir' = Designed(asked')
      BY <2>1 DEF Design, Asked
    <3>2. lo \in Int /\ hi \in Int /\ size \in Int
      BY DesignAssumption
    <3>3. Fresh'
      BY <3>1, <3>2 DEF Fresh
    <3>4. QED
      BY <3>3, DesignGoodNext
  <2>2. ASSUME NEW type \in Windows, NEW size \in Sizes \cap (Nat \ {0}),
               Window(type, size)
        PROVE  AsDesigned'
    <3>1. asked'.kind = "window" /\ fir'.size = size /\ fir'.type = type
          /\ fir'.tap = makewindow(type, size)
      BY <2>2 DEF Window
    <3>2. fir'.tap # << >> =>
             /\ DOMAIN fir'.tap = 0 .. size - 1
             /\ type \in Mirrored =>
                  \A i \in DOMAIN fir'.tap : fir'.tap[i] = fir'.tap[size - 1 - i]
      BY <3>1, WindowShape
    <3>3. "window" \notin Kinds
      BY DEF Kinds, OneEdge
    <3>4. QED
      BY <3>1, <3>2, <3>3, Zenon DEF AsDesigned
  <2>3. CASE UNCHANGED designVars
    BY <2>3 DEF designVars, AsDesigned
  <2>4. QED
    BY <2>1, <2>2, <2>3 DEF DesignNext
<1>3. QED
  BY <1>1, <1>2, PTL
=============================================================================
