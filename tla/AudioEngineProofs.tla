------------------------- MODULE AudioEngineProofs -------------------------
(***************************************************************************)
(* Proofs about AudioEngine, for rings, blocks and periods of any length.  *)
(*                                                                         *)
(* Part one: the types, the level of the output rings and the wake-up.     *)
(* Part two: the phase of the two channels, which needs to know when every *)
(* sample in the input rings was captured.                                 *)
(***************************************************************************)
EXTENDS AudioEngine, SequenceTheorems, TLAPS

USE EngineAssumption

(* A block is never empty: popcnt(new_buflen) == 1.                        *)
LengthInv ==
  /\ frames > 0
  /\ cmd = "resize" => PowerOfTwo(want)

(* While puthold is between its two writes, the left ring is one block     *)
(* ahead; before them, both have room for the block.  Between the restarts *)
(* of right and left, right holds one period, and no block is half put.    *)
LevelInv ==
  "out" \notin torn =>
    /\ cb # "restartleft" =>
         /\ trx = "putright" => outl = outr + frames
         /\ trx # "putright" => outl = outr
    /\ cb = "restartleft" =>
         trx # "putright" /\ outr = Least(NFrames, Capacity)
    /\ trx = "putleft" => Capacity - outr >= frames

IInv == TypeOK /\ LengthInv /\ LevelInv /\ NoLostWakeup

-----------------------------------------------------------------------------
(* The phase.                                                              *)

(* What is left to read of the left channel, the part that gethold has     *)
(* read before its other half included.                                    *)
LeftStream == IF trx = "right" THEN holdl \o inl ELSE inl

Clean == torn \cap {"in", "short", "gap"} = {}

(* The callback may store samples before it restarts the rings.            *)
MayStore == cb \notin {"idle", "post"} \/ ~doin

(* The capture time of the next sample each ring gets.                     *)
LeftNext  == IF cb \in {"inright", "post"} THEN now + NFrames ELSE now
RightNext == IF cb = "post" THEN now + NFrames ELSE now

Stamp(t) == (t % Period) + 1

(* Sample i of q was captured as long before time t as there are samples   *)
(* after it.                                                               *)
Dated(q, i, t) == q[i] # 0 => q[i] = Stamp(t - 1 - (Len(q) - i))

Together(l, r) ==
  \A i \in DOMAIN l \cap DOMAIN r :
    l[i] # 0 /\ r[i] # 0 => (r[i] - l[i] + skew) % Period = 0

(* gethold finds the samples it has counted.                               *)
BlockInv ==
  "in" \notin torn =>
    /\ trx = "left"  => BlockReady
    /\ trx = "right" => Len(inr) >= frames

ApartInv ==
  Clean => Len(inr) = Len(LeftStream) + skew - (IF cb = "inright" THEN NFrames ELSE 0)

TogetherInv == Clean => Together(LeftStream, inr)

DatedInv ==
  Clean /\ MayStore =>
    /\ skew # 0 =>
         /\ \A i \in DOMAIN LeftStream : Dated(LeftStream, i, LeftNext)
         /\ \A i \in DOMAIN inr : Dated(inr, i, RightNext)
    /\ cb = "inright" =>
         \A i \in DOMAIN LeftStream :
           Len(LeftStream) - i < NFrames => Dated(LeftStream, i, LeftNext)

(* The offsets that are asked for fit into a ring.                         *)
OffsetsFit ==
  \A k \in Offsets \cup {SkewOffs} : -Capacity <= k /\ k <= Capacity

OffsInv == offs \in Offsets \cup {SkewOffs}

PhaseInv == OffsInv /\ BlockInv /\ ApartInv /\ TogetherInv /\ DatedInv

-----------------------------------------------------------------------------
(* The ring's operations on sequences.                                     *)

LEMMA FunctionIsSeq ==
  ASSUME NEW S, NEW n \in Nat, NEW f \in [1 .. n -> S]
  PROVE  f \in Seq(S) /\ Len(f) = n /\ DOMAIN f = 1 .. n
<1>1. f \in Seq(S)
  BY SeqDef
<1>2. Len(f) \in Nat /\ DOMAIN f = 1 .. Len(f)
  BY <1>1, LenProperties
<1>3. DOMAIN f = 1 .. n
  OBVIOUS
<1>4. Len(f) = n
  BY <1>2, <1>3
<1>5. QED
  BY <1>1, <1>3, <1>4

LEMMA SilenceIs ==
  ASSUME NEW n \in Nat
  PROVE  /\ Silence(n) \in Seq(Sample) /\ Len(Silence(n)) = n
         /\ \A i \in 1 .. n : Silence(n)[i] = 0
<1>1. Silence(n) \in [1 .. n -> Sample]
  BY DEF Silence, Sample
<1>2. \A i \in 1 .. n : Silence(n)[i] = 0
  BY DEF Silence
<1>3. QED
  BY <1>1, <1>2, FunctionIsSeq

LEMMA LeastIs ==
  ASSUME NEW a \in Int, NEW b \in Int
  PROVE  Least(a, b) \in {a, b} /\ Least(a, b) <= a /\ Least(a, b) <= b
  BY DEF Least

(* What is in a ring stays there in front of what is written.              *)
LEMMA WrittenIs ==
  ASSUME NEW q \in Seq(Sample), Len(q) <= Capacity, NEW s \in Seq(Sample)
  PROVE  LET n == Least(Len(s), Capacity - Len(q)) IN
         /\ n \in 0 .. Len(s)
         /\ Written(q, s) \in Seq(Sample)
         /\ Len(Written(q, s)) = Len(q) + n
         /\ Len(Written(q, s)) <= Capacity
         /\ \A i \in 1 .. Len(q) + n :
              Written(q, s)[i] = IF i <= Len(q) THEN q[i] ELSE s[i - Len(q)]
<1> DEFINE n == Least(Len(s), Capacity - Len(q))
           w == SubSeq(s, 1, n)
<1>1. Len(q) \in Nat /\ Len(s) \in Nat /\ Capacity \in Nat
  BY LenProperties
<1>2. n \in 0 .. Len(s) /\ n <= Capacity - Len(q)
  BY <1>1, LeastIs
<1> HIDE DEF n
<1>3. \A i \in 1 .. n : s[i] \in Sample
  BY <1>1, <1>2, ElementOfSeq
<1>4. w \in Seq(Sample) /\ Len(w) = n /\ \A i \in 1 .. n : w[i] = s[i]
  BY <1>1, <1>2, <1>3, SubSeqProperties
<1>5. /\ q \o w \in Seq(Sample) /\ Len(q \o w) = Len(q) + n
      /\ \A i \in 1 .. Len(q) + n :
           (q \o w)[i] = IF i <= Len(q) THEN q[i] ELSE w[i - Len(q)]
  BY <1>4, ConcatProperties
<1>6. Written(q, s) = q \o w
  BY DEF Written, n
<1>7. \A i \in 1 .. Len(q) + n :
        (q \o w)[i] = IF i <= Len(q) THEN q[i] ELSE s[i - Len(q)]
  BY <1>1, <1>2, <1>4, <1>5
<1>8. QED
  BY <1>1, <1>2, <1>5, <1>6, <1>7 DEF n

(* A ring that is restarted holds zeros, as many as it has room for.       *)
LEMMA RestartedIs ==
  ASSUME NEW n \in Nat
  PROVE  LET w == Written(<<>>, Silence(n)) IN
         /\ w \in Seq(Sample) /\ Len(w) = Least(n, Capacity)
         /\ \A i \in 1 .. Len(w) : w[i] = 0
<1> DEFINE q == <<>>
           z == Silence(n)
           w == Written(q, z)
<1>1. q \in Seq(Sample) /\ Len(q) = 0
  BY EmptySeq
<1>2. z \in Seq(Sample) /\ Len(z) = n /\ \A i \in 1 .. n : z[i] = 0
  BY SilenceIs
<1> HIDE DEF q, z
<1>3. Len(q) <= Capacity
  BY <1>1
<1>4. Least(n, Capacity - 0) = Least(n, Capacity) /\ Least(n, Capacity) \in 0 .. n
  BY DEF Least
<1>5. /\ w \in Seq(Sample) /\ Len(w) = Least(n, Capacity)
      /\ \A i \in 1 .. Least(n, Capacity) : w[i] = z[i - 0]
  <2> DEFINE m == Least(Len(z), Capacity - Len(q))
  <2>1. /\ w \in Seq(Sample) /\ Len(w) = Len(q) + m
        /\ \A i \in 1 .. Len(q) + m :
             w[i] = IF i <= Len(q) THEN q[i] ELSE z[i - Len(q)]
    BY <1>1, <1>2, <1>3, WrittenIs
  <2>2. m = Least(n, Capacity)
    BY <1>1, <1>2, <1>4
  <2> HIDE DEF m, w
  <2>3. QED
    BY <1>1, <1>4, <2>1, <2>2
<1>6. \A i \in 1 .. Len(w) : w[i] = 0
  BY <1>2, <1>4, <1>5
<1>7. QED
  BY <1>5, <1>6 DEF q, z

(* A read takes the oldest samples.                                        *)
LEMMA TakenIs ==
  ASSUME NEW q \in Seq(Sample), NEW n \in Nat
  PROVE  LET m == Least(n, Len(q)) IN
         /\ m \in 0 .. Len(q)
         /\ Taken(q, n) \in Seq(Sample)
         /\ Len(Taken(q, n)) = Len(q) - m
         /\ \A i \in 1 .. Len(q) - m : Taken(q, n)[i] = q[m + i]
<1> DEFINE m == Least(n, Len(q))
<1>1. Len(q) \in Nat
  BY LenProperties
<1>2. m \in 0 .. Len(q)
  BY <1>1, LeastIs
<1> HIDE DEF m
<1>3. \A i \in m + 1 .. Len(q) : q[i] \in Sample
  BY <1>1, <1>2, ElementOfSeq
<1>4. m + 1 \in Int /\ Len(q) \in Int
  BY <1>1, <1>2
<1>5. /\ SubSeq(q, m + 1, Len(q)) \in Seq(Sample)
      /\ Len(SubSeq(q, m + 1, Len(q)))
           = IF m + 1 <= Len(q) THEN Len(q) - (m + 1) + 1 ELSE 0
      /\ \A i \in 1 .. Len(q) - (m + 1) + 1 :
           SubSeq(q, m + 1, Len(q))[i] = q[(m + 1) + i - 1]
  BY <1>3, <1>4, SubSeqProperties
<1>6. /\ Len(SubSeq(q, m + 1, Len(q))) = Len(q) - m
      /\ \A i \in 1 .. Len(q) - m : SubSeq(q, m + 1, Len(q))[i] = q[m + i]
  BY <1>1, <1>2, <1>5
<1>7. QED
  BY <1>2, <1>5, <1>6 DEF Taken, m

LEMMA BlockTakenIs ==
  ASSUME NEW q \in Seq(Sample), NEW n \in Nat, n <= Len(q)
  PROVE  /\ Taken(q, n) \in Seq(Sample)
         /\ Len(Taken(q, n)) = Len(q) - n
         /\ \A i \in 1 .. Len(q) - n : Taken(q, n)[i] = q[n + i]
<1> DEFINE m == Least(n, Len(q))
<1>1. m = n
  BY LenProperties DEF Least
<1>2. /\ Taken(q, n) \in Seq(Sample) /\ Len(Taken(q, n)) = Len(q) - m
      /\ \A i \in 1 .. Len(q) - m : Taken(q, n)[i] = q[m + i]
  BY TakenIs
<1> HIDE DEF m
<1>3. QED
  BY <1>1, <1>2

LEMMA FilledIs ==
  ASSUME NEW dest \in Seq(Sample), NEW q \in Seq(Sample), NEW n \in Nat
  PROVE  /\ Filled(dest, q, n) \in Seq(Sample)
         /\ Len(Filled(dest, q, n)) = Len(dest)
         /\ \A i \in 1 .. Len(dest) :
              i <= n /\ i <= Len(q) => Filled(dest, q, n)[i] = q[i]
<1>1. /\ Len(q) \in Nat /\ Len(dest) \in Nat
      /\ DOMAIN dest = 1 .. Len(dest)
  BY LenProperties
<1>2. \A i \in 1 .. Len(dest) : dest[i] \in Sample
  BY ElementOfSeq
<1>3. \A i \in 1 .. Len(q) : q[i] \in Sample
  BY ElementOfSeq
<1>4. Filled(dest, q, n) \in [1 .. Len(dest) -> Sample]
  BY <1>1, <1>2, <1>3 DEF Filled
<1>5. \A i \in 1 .. Len(dest) :
        i <= n /\ i <= Len(q) => Filled(dest, q, n)[i] = q[i]
  BY <1>1 DEF Filled
<1>6. QED
  BY <1>1, <1>4, <1>5, FunctionIsSeq

LEMMA RemainderRange ==
  ASSUME NEW a \in Int
  PROVE  a % Period \in 0 .. Period - 1
  OBVIOUS

LEMMA CapturedIs ==
  ASSUME NEW t \in Int, now = t
  PROVE  /\ Captured \in Seq(Sample) /\ Len(Captured) = NFrames
         /\ \A i \in 1 .. NFrames : Captured[i] = Stamp(t + i - 1)
<1>1. \A i \in 1 .. NFrames : now + i - 1 \in Int
  OBVIOUS
<1>2. \A i \in 1 .. NFrames : (now + i - 1) % Period \in 0 .. Period - 1
  BY <1>1, RemainderRange
<1>3. \A i \in 1 .. NFrames : ((now + i - 1) % Period) + 1 \in Sample
  BY <1>2 DEF Sample
<1>4. Captured \in [1 .. NFrames -> Sample]
  BY <1>3 DEF Captured
<1>5. \A i \in 1 .. NFrames : Captured[i] = Stamp(t + i - 1)
  BY DEF Captured, Stamp
<1>6. QED
  BY <1>4, <1>5, FunctionIsSeq

LEMMA NotEmptyBlock == ASSUME NEW n \in Nat, PowerOfTwo(n) PROVE n > 0
<1>1. ~PowerOfTwo(0)
  BY DEF PowerOfTwo
<1>2. QED
  BY <1>1

-----------------------------------------------------------------------------
(* Types.                                                                  *)

LEMMA InitIInv == Init => IInv
<1> SUFFICES ASSUME Init PROVE IInv
  OBVIOUS
<1>1. /\ Silence(Frames0) \in Seq(Sample) /\ Len(Silence(Frames0)) = Frames0
      /\ <<>> \in Seq(Sample) /\ Len(<<>>) = 0
  BY SilenceIs, EmptySeq
<1>2. doin \in BOOLEAN /\ susp \in BOOLEAN /\ freed \in BOOLEAN
  BY Zenon DEF Init
<1>3. TypeOK
  BY <1>1, <1>2 DEF Init, TypeOK
<1>4. LengthInv /\ LevelInv
  BY DEF Init, LengthInv, LevelInv
<1>5. ~BlockReady
  BY <1>1 DEF Init, BlockReady
<1>6. QED
  BY <1>3, <1>4, <1>5 DEF IInv, NoLostWakeup

LEMMA TypeCallback == ASSUME TypeOK, Callback PROVE TypeOK'
<1> USE DEF rings, holds, command
<1>1. ASSUME NEW n \in Nat
      PROVE  /\ Written(<<>>, Silence(n)) \in Seq(Sample)
             /\ Len(Written(<<>>, Silence(n))) <= Capacity
  BY RestartedIs DEF Least
<1>2. CASE RestartInput
  <2>1. offs \in Int
    BY DEF TypeOK
  <2>2. /\ (IF offs < 0 THEN -offs ELSE 0) \in Nat
        /\ (IF offs > 0 THEN offs ELSE 0) \in Nat
    BY <2>1
  <2>3. /\ inl' \in Seq(Sample) /\ Len(inl') <= Capacity
        /\ inr' \in Seq(Sample) /\ Len(inr') <= Capacity
    BY <1>1, <1>2, <2>2 DEF RestartInput
  <2>4. torn' \subseteq {"in", "out", "short", "gap", "len"}
    BY <1>2 DEF RestartInput, Mark, TypeOK
  <2>5. QED
    BY <1>2, <2>3, <2>4 DEF RestartInput, TypeOK
<1>3. CASE RestartOutputRight \/ RestartOutputLeft
  <2>1. Least(NFrames, Capacity) \in 0 .. Capacity
    BY DEF Least
  <2>2. torn' \subseteq {"in", "out", "short", "gap", "len"}
    BY <1>3 DEF RestartOutputRight, RestartOutputLeft, Mark, TypeOK
  <2>3. QED
    BY <1>3, <2>1, <2>2 DEF RestartOutputRight, RestartOutputLeft, TypeOK
<1>4. ASSUME Tick PROVE now' \in 0 .. Period - 1
  <2>1. now + NFrames \in Int
    BY DEF TypeOK
  <2>2. QED
    BY <1>4, <2>1, RemainderRange DEF Tick
<1>5. CASE CallbackSuspended
  <2>1. now' \in 0 .. Period - 1
    BY <1>4, <1>5 DEF CallbackSuspended
  <2>2. QED
    BY <1>5, <2>1 DEF CallbackSuspended, TypeOK
<1>6. CASE CopyOutput
  <2>1. outl' \in 0 .. Capacity /\ outr' \in 0 .. Capacity
    BY <1>6 DEF CopyOutput, TypeOK
  <2>2. QED
    BY <1>6, <2>1 DEF CopyOutput, TypeOK
<1>7. CASE CopyInputLeft
  <2>1. Captured \in Seq(Sample)
    BY CapturedIs DEF TypeOK
  <2>2. inl' \in Seq(Sample) /\ Len(inl') <= Capacity
    BY <1>7, <2>1, WrittenIs DEF CopyInputLeft, TypeOK
  <2>3. QED
    BY <1>7, <2>2 DEF CopyInputLeft, TypeOK
<1>8. CASE CopyInputRight
  <2>1. Captured \in Seq(Sample)
    BY CapturedIs DEF TypeOK
  <2>2. inr' \in Seq(Sample) /\ Len(inr') <= Capacity
    BY <1>8, <2>1, WrittenIs DEF CopyInputRight, TypeOK
  <2>3. QED
    BY <1>8, <2>2 DEF CopyInputRight, TypeOK
<1>9. CASE Post
  <2>1. now' \in 0 .. Period - 1
    BY <1>4, <1>9 DEF Post
  <2>2. bufsem' \in 0 .. MaxPosts
    BY <1>9 DEF Post, Least, TypeOK
  <2>3. QED
    BY <1>9, <2>1, <2>2 DEF Post, TypeOK
<1>10. QED
  BY <1>2, <1>3, <1>5, <1>6, <1>7, <1>8, <1>9 DEF Callback

LEMMA TypeProcessSamples == ASSUME TypeOK, ProcessSamples PROVE TypeOK'
<1> USE DEF rings, holds, command
<1>1. CASE WaitBuf \/ CheckHold \/ CheckPut
  <2>1. /\ bufsem' \in 0 .. MaxPosts
        /\ trx' \in {"wait", "check", "left", "putleft"}
    BY <1>1 DEF WaitBuf, CheckHold, CheckPut, TypeOK
  <2>2. UNCHANGED <<rings, doin, susp, offs, upd, holds, cb, command, now, skew,
                    torn>>
    BY <1>1 DEF WaitBuf, CheckHold, CheckPut
  <2>3. QED
    BY <2>1, <2>2 DEF TypeOK
<1>2. CASE GetLeft
  <2>1. /\ holdl \in Seq(Sample) /\ Len(holdl) = frames /\ frames \in Nat
        /\ inl \in Seq(Sample) /\ Len(inl) \in Nat /\ Len(inl) <= Capacity
    BY LenProperties DEF TypeOK
  <2>2. holdl' \in Seq(Sample) /\ Len(holdl') = frames
    BY <1>2, <2>1, FilledIs DEF GetLeft
  <2>3. inl' \in Seq(Sample) /\ Len(inl') <= Capacity
    <3>1. inl' = Taken(inl, frames)
      BY <1>2 DEF GetLeft
    <3>2. QED
      BY <2>1, <3>1, TakenIs
  <2>4. QED
    BY <1>2, <2>2, <2>3 DEF GetLeft, TypeOK
<1>3. CASE GetRight
  <2>1. /\ holdr \in Seq(Sample) /\ Len(holdr) = frames /\ frames \in Nat
        /\ inr \in Seq(Sample) /\ Len(inr) \in Nat /\ Len(inr) <= Capacity
    BY LenProperties DEF TypeOK
  <2>2. holdr' \in Seq(Sample) /\ Len(holdr') = frames
    BY <1>3, <2>1, FilledIs DEF GetRight
  <2>3. inr' \in Seq(Sample) /\ Len(inr') <= Capacity
    <3>1. inr' = Taken(inr, frames)
      BY <1>3 DEF GetRight
    <3>2. QED
      BY <2>1, <3>1, TakenIs
  <2>4. QED
    BY <1>3, <2>2, <2>3 DEF GetRight, TypeOK
<1>4. CASE Process
  <2>1. Silence(frames) \in Seq(Sample) /\ Len(Silence(frames)) = frames
    BY SilenceIs DEF TypeOK
  <2>2. QED
    BY <1>4, <2>1 DEF Process, TypeOK
<1>5. CASE PutLeft \/ PutRight
  <2>1. Least(outl + frames, Capacity) \in 0 .. Capacity
    BY DEF Least, TypeOK
  <2>2. Least(outr + frames, Capacity) \in 0 .. Capacity
    BY DEF Least, TypeOK
  <2>3. torn' \subseteq {"in", "out", "short", "gap", "len"}
    BY <1>5 DEF PutLeft, PutRight, TypeOK
  <2>4. QED
    BY <1>5, <2>1, <2>2, <2>3 DEF PutLeft, PutRight, TypeOK
<1>6. QED
  BY <1>1, <1>2, <1>3, <1>4, <1>5 DEF ProcessSamples

LEMMA TypeUpdate == ASSUME TypeOK, Update PROVE TypeOK'
<1> USE DEF rings, holds, command
<1>1. CASE SetRingBufferReset
  BY <1>1 DEF SetRingBufferReset, MayCommand, TypeOK
<1>2. ASSUME NEW k \in Offsets, SetRingBufferOffset(k) PROVE TypeOK'
  BY <1>2 DEF SetRingBufferOffset, MayCommand, TypeOK
<1>3. ASSUME NEW n \in BufLens, SetNewBuflen(n) PROVE TypeOK'
  BY <1>3 DEF SetNewBuflen, MayCommand, TypeOK
<1>4. CASE FreeHold
  BY <1>4 DEF FreeHold, TypeOK
<1>5. CASE AllocHold
  <2>1. want \in Nat
    BY DEF TypeOK
  <2>2. Silence(want) \in Seq(Sample) /\ Len(Silence(want)) = want
    BY <2>1, SilenceIs
  <2>3. frames' = want /\ holdl' = Silence(want) /\ holdr' = Silence(want)
        /\ freed' = FALSE
    BY <1>5 DEF AllocHold, NewHold
  <2>4. torn' \subseteq {"in", "out", "short", "gap", "len"}
    BY <1>5 DEF AllocHold, TypeOK
  <2>5. QED
    BY <1>5, <2>1, <2>2, <2>3, <2>4 DEF AllocHold, TypeOK
<1>6. CASE Resume
  BY <1>6 DEF Resume, TypeOK
<1>7. QED
  BY <1>1, <1>2, <1>3, <1>4, <1>5, <1>6 DEF Update

LEMMA TypeStep == ASSUME TypeOK, [Next]_vars PROVE TypeOK'
<1>1. CASE UNCHANGED vars
  BY <1>1 DEF vars, rings, holds, command, TypeOK
<1>2. QED
  BY <1>1, TypeCallback, TypeProcessSamples, TypeUpdate DEF Next

-----------------------------------------------------------------------------
(* The level of the output rings, and the wake-up.                         *)

LEMMA LengthStep ==
  ASSUME TypeOK, LengthInv, [Next]_vars
  PROVE  LengthInv'
<1> USE DEF LengthInv, rings, holds, command
<1>1. CASE Callback
  BY <1>1
  DEF Callback, RestartInput, RestartOutputRight, RestartOutputLeft,
      CallbackSuspended, CopyOutput, CopyInputLeft, CopyInputRight, Post
<1>2. CASE ProcessSamples
  BY <1>2
  DEF ProcessSamples, WaitBuf, CheckHold, GetLeft, GetRight, Process,
      CheckPut, PutLeft, PutRight
<1>3. CASE SetRingBufferReset \/ \E k \in Offsets : SetRingBufferOffset(k)
  BY <1>3 DEF SetRingBufferReset, SetRingBufferOffset
<1>4. ASSUME NEW n \in BufLens, SetNewBuflen(n) PROVE LengthInv'
  BY <1>4 DEF SetNewBuflen
<1>5. CASE FreeHold \/ Resume
  BY <1>5 DEF FreeHold, Resume
<1>6. CASE AllocHold
  <2>1. PowerOfTwo(want) /\ want \in Nat
    BY <1>6 DEF AllocHold, TypeOK
  <2>2. frames' > 0 /\ cmd' = "resume"
    BY <1>6, <2>1, NotEmptyBlock DEF AllocHold, NewHold
  <2>3. QED
    BY <2>2
<1>7. CASE UNCHANGED vars
  BY <1>7 DEF vars
<1>8. QED
  BY <1>1, <1>2, <1>3, <1>4, <1>5, <1>6, <1>7 DEF Next, Update

LEMMA LevelStep ==
  ASSUME TypeOK, LevelInv, [Next]_vars
  PROVE  LevelInv'
<1> USE DEF LevelInv, rings, holds, command
<1>1. outl \in 0 .. Capacity /\ outr \in 0 .. Capacity /\ frames \in Nat
  BY DEF TypeOK
(* The output rings are restarted with the same silence, one by one.       *)
<1>2. CASE RestartOutputRight
  <2>1. /\ outr' = Least(NFrames, Capacity) /\ cb' = "restartleft"
        /\ trx' = trx /\ ("out" \notin torn' => ~Putting)
    BY <1>2 DEF RestartOutputRight, Mark
  <2>2. QED
    BY <2>1 DEF Putting
<1>3. CASE RestartOutputLeft
  <2>1. /\ outl' = Least(NFrames, Capacity) /\ outr' = outr
        /\ cb = "restartleft" /\ cb' = "run"
        /\ UNCHANGED <<trx, torn, frames>>
    BY <1>3 DEF RestartOutputLeft
  <2>2. QED
    BY <2>1
(* The callback takes a period from both or from neither.                  *)
<1>4. CASE CopyOutput
  <2>1. PICK n \in {0, NFrames} : outl' = outl - n /\ outr' = outr - n
    BY <1>4 DEF CopyOutput
  <2>2. /\ UNCHANGED <<torn, trx, frames>>
        /\ cb # "restartleft" /\ cb' # "restartleft"
    BY <1>4 DEF CopyOutput, AtSuspCheck
  <2>3. QED
    BY <1>1, <2>1, <2>2
<1>5. CASE RestartInput \/ CallbackSuspended \/ CopyInputLeft
           \/ CopyInputRight \/ Post
  <2>1. "out" \notin torn' => "out" \notin torn
    BY <1>5
    DEF RestartInput, Mark, CallbackSuspended, CopyInputLeft, CopyInputRight,
        Post
  <2>2. /\ UNCHANGED <<outl, outr, trx, frames>>
        /\ cb # "restartleft" /\ cb' # "restartleft"
    BY <1>5
    DEF RestartInput, CallbackSuspended, CopyInputLeft, CopyInputRight, Post,
        AtSuspCheck
  <2>3. QED
    BY <2>1, <2>2
<1>6. CASE WaitBuf \/ CheckHold \/ GetLeft \/ GetRight \/ Process
  <2>1. /\ UNCHANGED <<torn, outl, outr, cb>>
        /\ ~Putting /\ trx' \notin {"putleft", "putright"}
    BY <1>6 DEF WaitBuf, CheckHold, GetLeft, GetRight, Process, Putting
  <2>2. QED
    BY <2>1 DEF Putting
<1>7. CASE CheckPut
  BY <1>1, <1>7 DEF CheckPut
(* A left block put between the two restarts marks the rings.              *)
<1>8. CASE PutLeft
  <2>1. /\ trx = "putleft" /\ trx' = "putright"
        /\ outl' = Least(outl + frames, Capacity)
        /\ torn' = IF cb = "restartleft" THEN torn \cup {"out"} ELSE torn
        /\ UNCHANGED <<outr, frames, cb>>
    BY <1>8 DEF PutLeft
  <2>2. QED
    BY <1>1, <2>1 DEF Least
<1>9. CASE PutRight
  <2>1. /\ trx = "putright" /\ trx' = "check"
        /\ outr' = Least(outr + frames, Capacity)
        /\ UNCHANGED <<torn, outl, frames, cb>>
    BY <1>9 DEF PutRight
  <2>2. QED
    BY <1>1, <2>1 DEF Least
<1>10. CASE AllocHold
  <2>1. /\ "out" \notin torn' => "out" \notin torn /\ ~Putting
        /\ UNCHANGED <<outl, outr, trx, cb>>
    BY <1>10 DEF AllocHold
  <2>2. QED
    BY <2>1 DEF Putting
<1>11. CASE Update /\ ~AllocHold
  <2>1. UNCHANGED <<torn, outl, outr, trx, frames, cb>>
    BY <1>11
    DEF Update, SetRingBufferReset, SetRingBufferOffset, SetNewBuflen,
        FreeHold, Resume
  <2>2. QED
    BY <2>1
<1>12. CASE UNCHANGED vars
  BY <1>12 DEF vars
<1>13. QED
  BY <1>2, <1>3, <1>4, <1>5, <1>6, <1>7, <1>8, <1>9, <1>10, <1>11, <1>12
  DEF Next, Callback, ProcessSamples

LEMMA WakeupStep ==
  ASSUME TypeOK, LengthInv, NoLostWakeup, [Next]_vars
  PROVE  NoLostWakeup'
<1> USE DEF NoLostWakeup, BlockReady, rings, holds, command
(* One of the two input rings is restarted empty.                          *)
<1>1. CASE RestartInput
  <2>1. Written(<<>>, Silence(0)) = <<>>
    BY RestartedIs, EmptySeq DEF Least
  <2>2. inl' = <<>> \/ inr' = <<>>
    <3>1. offs \in Int
      BY DEF TypeOK
    <3>2. CASE offs < 0
      BY <1>1, <2>1, <3>1, <3>2 DEF RestartInput
    <3>3. CASE ~(offs < 0)
      BY <1>1, <2>1, <3>1, <3>3 DEF RestartInput
    <3>4. QED
      BY <3>2, <3>3
  <2>3. frames' > 0 /\ frames' \in Nat
    BY <1>1 DEF RestartInput, LengthInv, TypeOK
  <2>4. Len(<<>>) = 0
    BY EmptySeq
  <2>5. ~BlockReady'
    BY <2>2, <2>3, <2>4
  <2>6. QED
    BY <2>5
<1>2. CASE RestartOutputRight \/ RestartOutputLeft \/ CallbackSuspended
           \/ CopyOutput
  <2>1. /\ cb \notin {"inright", "post"}
        /\ "len" \in torn => "len" \in torn'
        /\ UNCHANGED <<trx, bufsem, inl, inr, frames>>
    BY <1>2
    DEF RestartOutputRight, RestartOutputLeft, CallbackSuspended, CopyOutput,
        Mark, AtSuspCheck
  <2>2. QED
    BY <2>1
<1>3. CASE CopyInputLeft \/ CopyInputRight
  BY <1>3 DEF CopyInputLeft, CopyInputRight
<1>4. CASE Post
  <2>1. bufsem' > 0
    BY <1>4 DEF Post, Least, TypeOK
  <2>2. QED
    BY <2>1
<1>5. CASE CheckHold
  BY <1>5 DEF CheckHold
<1>6. CASE ProcessSamples /\ ~CheckHold
  <2>1. trx' # "wait"
    BY <1>6
    DEF ProcessSamples, WaitBuf, GetLeft, GetRight, Process, CheckPut,
        PutLeft, PutRight
  <2>2. QED
    BY <2>1
<1>7. CASE AllocHold
  BY <1>7 DEF AllocHold
<1>8. CASE Update /\ ~AllocHold
  <2>1. UNCHANGED <<trx, bufsem, inl, inr, frames, cb, torn>>
    BY <1>8
    DEF Update, SetRingBufferReset, SetRingBufferOffset, SetNewBuflen,
        FreeHold, Resume
  <2>2. QED
    BY <2>1
<1>9. CASE UNCHANGED vars
  BY <1>9 DEF vars
<1>10. QED
  BY <1>1, <1>2, <1>3, <1>4, <1>5, <1>6, <1>7, <1>8, <1>9
  DEF Next, Callback

-----------------------------------------------------------------------------
(* The theorems of part one.                                               *)

(* Every step of the three threads keeps the invariant.                    *)
THEOREM Inductive == Spec => []IInv
<1>1. IInv /\ [Next]_vars => IInv'
  BY TypeStep, LengthStep, LevelStep, WakeupStep DEF IInv
<1>2. QED
  BY InitIInv, <1>1, PTL DEF Spec

(* The rings never hold more than they have room for, and the semaphore,   *)
(* the hold buffers and the counts keep their types.                       *)
THEOREM TypeCorrect == Spec => []TypeOK
<1>1. IInv => TypeOK
  BY DEF IInv
<1>2. QED
  BY <1>1, Inductive, PTL

(* Left and right leave together: the output rings stay level under any    *)
(* interleaving of the callback, the DSP and the updates, unless a restart *)
(* or a new length came in the middle of puthold.                          *)
THEOREM OutputStaysLevel == Spec => []OutputLevel
<1>1. IInv => OutputLevel
  BY DEF IInv, LevelInv, OutputLevel
<1>2. QED
  BY <1>1, Inductive, PTL

(* The DSP does not sleep on a full block.                                 *)
THEOREM WakeupKept == Spec => []NoLostWakeup
<1>1. IInv => NoLostWakeup
  BY DEF IInv
<1>2. QED
  BY <1>1, Inductive, PTL

-----------------------------------------------------------------------------
(* Part two.  Arithmetic modulo Period.                                    *)

LEMMA Quotient ==
  ASSUME NEW a \in Int
  PROVE  \E q \in Int : a = Period * q + (a % Period)
<1>1. a \div Period \in Int /\ a = Period * (a \div Period) + (a % Period)
  OBVIOUS
<1>2. QED
  BY <1>1

LEMMA RemainderOf ==
  ASSUME NEW q \in Int, NEW r \in 0 .. Period - 1
  PROVE  (Period * q + r) % Period = r
  OBVIOUS

LEMMA Distribute ==
  ASSUME NEW q \in Int, NEW m \in Int
  PROVE  /\ Period * q \in Int
         /\ Period * (q + m) = Period * q + Period * m
         /\ Period * (q - m) = Period * q - Period * m
  OBVIOUS

LEMMA WholePeriods ==
  ASSUME NEW a \in Int, NEW q \in Int
  PROVE  (Period * q + a) % Period = a % Period
<1>1. PICK m \in Int : a = Period * m + (a % Period)
  BY Quotient
<1>2. Period * q + a = Period * (q + m) + (a % Period)
  <2>1. /\ Period * (q + m) = Period * q + Period * m
        /\ Period * q \in Int /\ Period * m \in Int /\ a % Period \in Int
    BY Distribute, RemainderRange
  <2>2. QED
    BY <1>1, <2>1
<1>3. (Period * (q + m) + (a % Period)) % Period = a % Period
  <2>1. q + m \in Int /\ a % Period \in 0 .. Period - 1
    BY RemainderRange
  <2>2. QED
    BY <2>1, RemainderOf, Zenon
<1>4. QED
  BY <1>2, <1>3

LEMMA RemainderPlus ==
  ASSUME NEW a \in Int, NEW b \in Int
  PROVE  ((a % Period) + b) % Period = (a + b) % Period
<1>1. PICK m \in Int : a = Period * m + (a % Period)
  BY Quotient
<1>2. (a % Period) + b \in Int /\ a % Period \in Int
  BY RemainderRange
<1>3. a + b = Period * m + ((a % Period) + b)
  BY <1>1, <1>2
<1>4. (Period * m + ((a % Period) + b)) % Period = ((a % Period) + b) % Period
  BY <1>2, WholePeriods, Zenon
<1>5. QED
  BY <1>3, <1>4, Zenon

LEMMA StampIs ==
  ASSUME NEW t \in Int
  PROVE  Stamp(t) \in Sample /\ Stamp(t) # 0
  BY RemainderRange DEF Stamp, Sample

(* Stamps of times s apart are s apart, modulo Period.                     *)
LEMMA StampPhase ==
  ASSUME NEW a \in Int, NEW b \in Int, NEW s \in Int, a - b + s = 0
  PROVE  (Stamp(a) - Stamp(b) + s) % Period = 0
<1>1. PICK m \in Int : a = Period * m + (a % Period)
  BY Quotient
<1>2. PICK n \in Int : b = Period * n + (b % Period)
  BY Quotient
<1>3. a % Period \in Int /\ b % Period \in Int
  BY RemainderRange
<1>4. Stamp(a) - Stamp(b) + s = Period * (n - m)
  <2>1. /\ Period * (n - m) = Period * n - Period * m
        /\ Period * n \in Int /\ Period * m \in Int
    BY Distribute
  <2>2. (a % Period) - (b % Period) + s = Period * (n - m)
    BY ONLY a \in Int, b \in Int, s \in Int, a - b + s = 0,
            <1>1, <1>2, <1>3, <2>1
  <2>3. QED
    BY <1>3, <2>2 DEF Stamp
<1>5. n - m \in Int /\ Period * (n - m) = Period * (n - m) + 0
  OBVIOUS
<1>6. (Period * (n - m) + 0) % Period = 0
  BY <1>5, RemainderOf
<1>7. QED
  BY <1>4, <1>5, <1>6

-----------------------------------------------------------------------------
(* What storing, taking and time do to the dates of the samples.           *)

(* q2 is q with the period that is being captured after it.                *)
LEMMA DatedStored ==
  ASSUME TypeOK, NEW q \in Seq(Sample), NEW q2 \in Seq(Sample),
         Len(q2) = Len(q) + NFrames,
         \A j \in 1 .. Len(q) + NFrames :
           q2[j] = IF j <= Len(q) THEN q[j] ELSE Captured[j - Len(q)],
         NEW i \in 1 .. Len(q2), i <= Len(q) => Dated(q, i, now)
  PROVE  Dated(q2, i, now + NFrames)
<1>1. now \in Int /\ Len(q) \in Nat
  BY LenProperties DEF TypeOK
<1>2. (now + NFrames) - 1 - (Len(q2) - i) = now - 1 - (Len(q) - i)
  BY <1>1
<1>3. CASE i <= Len(q)
  <2>1. q2[i] = q[i]
    BY <1>3, <1>1
  <2>2. QED
    BY <1>2, <1>3, <2>1 DEF Dated
<1>4. CASE ~(i <= Len(q))
  <2>1. i - Len(q) \in 1 .. NFrames /\ q2[i] = Captured[i - Len(q)]
    BY <1>1, <1>4
  <2>2. Captured[i - Len(q)] = Stamp(now + (i - Len(q)) - 1)
    BY <1>1, <2>1, CapturedIs
  <2>3. now + (i - Len(q)) - 1 = now - 1 - (Len(q) - i)
    BY <1>1
  <2>4. QED
    BY <1>2, <2>1, <2>2, <2>3 DEF Dated
<1>5. QED
  BY <1>3, <1>4

(* q2 is q without its m oldest samples.                                   *)
LEMMA DatedTaken ==
  ASSUME NEW q \in Seq(Sample), NEW q2 \in Seq(Sample), NEW m \in 0 .. Len(q),
         Len(q2) = Len(q) - m, NEW i \in 1 .. Len(q2), q2[i] = q[m + i],
         NEW t \in Int, Dated(q, m + i, t)
  PROVE  Dated(q2, i, t)
<1>1. Len(q) \in Nat /\ m \in Nat /\ i \in Nat
  BY LenProperties
<1>2. t - 1 - (Len(q2) - i) = t - 1 - (Len(q) - (m + i))
  BY <1>1
<1>3. QED
  BY <1>2 DEF Dated

LEMMA DatedTick ==
  ASSUME TypeOK, Tick, NEW q \in Seq(Sample), NEW i \in 1 .. Len(q),
         Dated(q, i, now + NFrames)
  PROVE  Dated(q, i, now')
<1> DEFINE a == now + NFrames
           b == 0 - 1 - (Len(q) - i)
<1>1. a \in Int /\ b \in Int /\ now' = a % Period /\ a % Period \in Int
  BY LenProperties, RemainderRange DEF TypeOK, Tick
<1>2. (now + NFrames) - 1 - (Len(q) - i) = a + b
  BY <1>1, LenProperties DEF TypeOK
<1>3. now' - 1 - (Len(q) - i) = (a % Period) + b
  BY <1>1, LenProperties
<1>4. Stamp((a % Period) + b) = Stamp(a + b)
  BY <1>1, RemainderPlus DEF Stamp
<1> HIDE DEF a, b
<1>5. QED
  BY <1>2, <1>3, <1>4 DEF Dated

(* Two dated samples that were captured skew apart.                        *)
LEMMA DatedTogether ==
  ASSUME NEW l \in Seq(Sample), NEW r \in Seq(Sample),
         NEW i \in 1 .. Len(l), i \in 1 .. Len(r), l[i] # 0, r[i] # 0,
         NEW tl \in Int, NEW tr \in Int, Dated(l, i, tl), Dated(r, i, tr),
         skew \in Int, (tr - Len(r)) - (tl - Len(l)) + skew = 0
  PROVE  (r[i] - l[i] + skew) % Period = 0
<1> DEFINE a == tr - 1 - (Len(r) - i)
           b == tl - 1 - (Len(l) - i)
<1>1. Len(l) \in Nat /\ Len(r) \in Nat
  BY LenProperties
<1>2. a \in Int /\ b \in Int /\ a - b + skew = 0
  BY <1>1
<1>3. r[i] = Stamp(a) /\ l[i] = Stamp(b)
  BY DEF Dated
<1> HIDE DEF a, b
<1>4. (Stamp(a) - Stamp(b) + skew) % Period = 0
  BY <1>2, StampPhase
<1>5. QED
  BY <1>3, <1>4, Zenon

-----------------------------------------------------------------------------
(* The steps that move no sample into or out of the input rings.           *)

LEMMA Streams ==
  ASSUME TypeOK
  PROVE  /\ inl \in Seq(Sample) /\ Len(inl) \in Nat /\ DOMAIN inl = 1 .. Len(inl)
         /\ inr \in Seq(Sample) /\ Len(inr) \in Nat /\ DOMAIN inr = 1 .. Len(inr)
         /\ LeftStream \in Seq(Sample) /\ Len(LeftStream) \in Nat
         /\ DOMAIN LeftStream = 1 .. Len(LeftStream)
         /\ now \in Int /\ LeftNext \in Int /\ RightNext \in Int
<1>1. /\ inl \in Seq(Sample) /\ inr \in Seq(Sample) /\ holdl \in Seq(Sample)
      /\ now \in Int
  BY DEF TypeOK
<1>2. LeftStream \in Seq(Sample)
  BY <1>1, ConcatProperties DEF LeftStream
<1>3. LeftNext \in Int /\ RightNext \in Int
  BY <1>1 DEF LeftNext, RightNext
<1>4. QED
  BY <1>1, <1>2, <1>3, LenProperties

LEMMA QuietStep ==
  ASSUME TypeOK, PhaseInv, inr' = inr, skew' = skew, now' = now,
         Clean' => Clean /\ LeftStream' = LeftStream,
         MayStore' => MayStore,
         cb' = "inright" <=> cb = "inright", cb' = "post" <=> cb = "post"
  PROVE  ApartInv' /\ TogetherInv' /\ DatedInv'
<1> SUFFICES ASSUME Clean'
             PROVE  ApartInv' /\ TogetherInv' /\ DatedInv'
  BY DEF ApartInv, TogetherInv, DatedInv
<1>1. Clean /\ LeftStream' = LeftStream
  OBVIOUS
<1>2. LeftNext' = LeftNext /\ RightNext' = RightNext
  BY DEF LeftNext, RightNext
<1>3. ApartInv'
  BY <1>1 DEF PhaseInv, ApartInv
<1>4. TogetherInv'
  BY <1>1 DEF PhaseInv, TogetherInv, Together
<1>5. DatedInv'
  BY <1>1, <1>2 DEF PhaseInv, DatedInv, Dated
<1>6. QED
  BY <1>3, <1>4, <1>5

LEMMA BlockInvKept ==
  ASSUME BlockInv, "in" \notin torn' => "in" \notin torn,
         UNCHANGED <<trx, inl, inr, frames>>
  PROVE  BlockInv'
  BY DEF BlockInv, BlockReady

(* Everything the DSP thread does apart from gethold's two reads.          *)
LEMMA PhaseWork ==
  ASSUME TypeOK, PhaseInv, ProcessSamples, ~GetLeft, ~GetRight
  PROVE  PhaseInv'
<1> USE DEF rings, holds, command
<1>1. WaitBuf \/ CheckHold \/ Process \/ CheckPut \/ PutLeft \/ PutRight
  BY DEF ProcessSamples
<1>2. /\ UNCHANGED <<inl, inr, skew, now, cb, doin, offs, frames>>
      /\ torn' \in {torn, torn \cup {"out"}}
      /\ trx # "right" /\ trx' # "right"
  BY <1>1 DEF WaitBuf, CheckHold, Process, CheckPut, PutLeft, PutRight
<1>3. trx' = "left" => BlockReady'
  BY <1>1, <1>2
  DEF WaitBuf, CheckHold, Process, CheckPut, PutLeft, PutRight, BlockReady
<1>4. LeftStream' = LeftStream
  BY <1>2 DEF LeftStream
<1>5. ApartInv' /\ TogetherInv' /\ DatedInv'
  BY <1>2, <1>4, QuietStep DEF Clean, MayStore
<1>6. BlockInv' /\ OffsInv'
  BY <1>2, <1>3 DEF BlockInv, PhaseInv, OffsInv
<1>7. QED
  BY <1>5, <1>6 DEF PhaseInv

(* The updates: a restart asked for, a new offset, a new length.           *)
LEMMA PhaseUpdate == ASSUME TypeOK, PhaseInv, Update PROVE PhaseInv'
<1> USE DEF rings, holds, command
<1>1. CASE AllocHold
  <2>1. /\ UNCHANGED <<inl, inr, skew, now, cb, doin, trx>>
        /\ offs' = SkewOffs
        /\ torn \subseteq torn' /\ (Getting => "in" \in torn')
    BY <1>1 DEF AllocHold
  <2>2. Clean' => Clean /\ ~Getting
    BY <2>1 DEF Clean
  <2>3. Clean' => Clean /\ LeftStream' = LeftStream
    BY <2>1, <2>2 DEF LeftStream, Getting
  <2>4. ApartInv' /\ TogetherInv' /\ DatedInv'
    BY <2>1, <2>3, QuietStep DEF MayStore
  <2>5. BlockInv' /\ OffsInv'
    BY <2>1 DEF BlockInv, OffsInv, Getting
  <2>6. QED
    BY <2>4, <2>5 DEF PhaseInv
<1>2. CASE Update /\ ~AllocHold
  <2>1. /\ UNCHANGED <<inl, inr, holdl, frames, skew, now, cb, trx, torn>>
        /\ doin' = doin \/ doin' = TRUE
        /\ offs' = offs \/ offs' \in Offsets
    BY <1>2
    DEF Update, SetRingBufferReset, SetRingBufferOffset, SetNewBuflen,
        FreeHold, Resume
  <2>2. MayStore' => MayStore
    BY <2>1 DEF MayStore
  <2>3. LeftStream' = LeftStream /\ Clean' = Clean
    BY <2>1 DEF LeftStream, Clean
  <2>4. ApartInv' /\ TogetherInv' /\ DatedInv'
    BY <2>1, <2>2, <2>3, QuietStep
  <2>5. BlockInv'
    BY <2>1, BlockInvKept DEF PhaseInv
  <2>6. OffsInv'
    BY <2>1 DEF PhaseInv, OffsInv
  <2>7. QED
    BY <2>4, <2>5, <2>6 DEF PhaseInv
<1>3. QED
  BY <1>1, <1>2

LEMMA PhaseOutput ==
  ASSUME TypeOK, PhaseInv,
         RestartOutputRight \/ RestartOutputLeft \/ CopyOutput
  PROVE  PhaseInv'
<1> USE DEF rings, holds, command
<1>1. /\ UNCHANGED <<inl, inr, holdl, frames, skew, now, trx, offs>>
      /\ cb' \in {"restartleft", "run", "input"} /\ cb \notin {"inright", "post"}
      /\ "in" \in torn' <=> "in" \in torn
      /\ Clean' => Clean
  BY DEF RestartOutputRight, RestartOutputLeft, CopyOutput, Mark, AtSuspCheck,
         Clean
<1>2. MayStore
  BY DEF RestartOutputRight, RestartOutputLeft, CopyOutput, AtSuspCheck,
         MayStore
<1>3. LeftStream' = LeftStream
  BY <1>1 DEF LeftStream
<1>4. ApartInv' /\ TogetherInv' /\ DatedInv'
  BY <1>1, <1>2, <1>3, QuietStep
<1>5. BlockInv' /\ OffsInv'
  BY <1>1, BlockInvKept DEF PhaseInv, OffsInv
<1>6. QED
  BY <1>4, <1>5 DEF PhaseInv

(* A period that is left out of both rings, at the same place in each.     *)
LEMMA PhaseSuspended ==
  ASSUME TypeOK, PhaseInv, CallbackSuspended
  PROVE  PhaseInv'
<1> USE DEF rings, holds, command
<1>1. /\ UNCHANGED <<inl, inr, holdl, frames, skew, trx, offs>>
      /\ cb' = "idle" /\ cb # "inright"
      /\ torn' = IF skew # 0 THEN torn \cup {"gap"} ELSE torn
  BY DEF CallbackSuspended, AtSuspCheck
<1>2. LeftStream' = LeftStream
  BY <1>1 DEF LeftStream
<1>3. Clean' => Clean /\ skew' = 0
  BY <1>1 DEF Clean
<1>4. ApartInv' /\ TogetherInv' /\ DatedInv'
  BY <1>1, <1>2, <1>3
  DEF PhaseInv, ApartInv, TogetherInv, Together, DatedInv
<1>5. BlockInv' /\ OffsInv'
  BY <1>1, BlockInvKept DEF PhaseInv, OffsInv
<1>6. QED
  BY <1>4, <1>5 DEF PhaseInv

(* Time passes over what was stored in this period.                        *)
LEMMA PhasePost ==
  ASSUME TypeOK, TypeOK', PhaseInv, Post
  PROVE  PhaseInv'
<1> USE DEF rings, holds, command
<1>1. /\ UNCHANGED <<inl, inr, holdl, frames, skew, trx, offs, doin>>
      /\ cb = "post" /\ cb' = "idle" /\ Tick
      /\ torn' = torn \ {"len"}
  BY DEF Post
<1>2. LeftStream' = LeftStream /\ Clean' = Clean
  BY <1>1 DEF LeftStream, Clean
<1>3. ApartInv' /\ TogetherInv'
  BY <1>1, <1>2 DEF PhaseInv, ApartInv, TogetherInv, Together
<1>4. DatedInv'
  <2> SUFFICES ASSUME Clean', MayStore', skew' # 0
               PROVE  /\ \A i \in DOMAIN LeftStream : Dated(LeftStream, i, now')
                      /\ \A i \in DOMAIN inr : Dated(inr, i, now')
    BY <1>1, <1>2 DEF DatedInv, LeftNext, RightNext, Dated
  <2>1. Clean /\ MayStore /\ skew # 0
    BY <1>1, <1>2 DEF MayStore
  <2>2. /\ \A i \in DOMAIN LeftStream : Dated(LeftStream, i, now + NFrames)
        /\ \A i \in DOMAIN inr : Dated(inr, i, now + NFrames)
    BY <1>1, <2>1 DEF PhaseInv, DatedInv, LeftNext, RightNext
  <2>3. QED
    BY <1>1, <2>2, DatedTick, Streams
<1>5. BlockInv' /\ OffsInv'
  BY <1>1, BlockInvKept DEF PhaseInv, OffsInv
<1>6. QED
  BY <1>3, <1>4, <1>5 DEF PhaseInv

-----------------------------------------------------------------------------
(* The steps that do.                                                      *)

LEMMA PhaseRestart ==
  ASSUME TypeOK, TypeOK', PhaseInv, OffsetsFit, RestartInput
  PROVE  PhaseInv'
<1> USE DEF rings, holds, command
<1> DEFINE a == IF offs < 0 THEN -offs ELSE 0
           b == IF offs > 0 THEN offs ELSE 0
<1>1. /\ UNCHANGED <<frames, trx, offs, holdl>>
      /\ inl' = Written(<<>>, Silence(a)) /\ inr' = Written(<<>>, Silence(b))
      /\ skew' = offs /\ cb' = "restartout"
      /\ "in" \in torn' <=> Getting
  BY DEF RestartInput, Mark
<1>2. /\ offs \in Int /\ a \in Nat /\ b \in Nat /\ b - a = offs
      /\ a <= Capacity /\ b <= Capacity
  <2>1. offs \in Int
    BY DEF TypeOK
  <2>2. -Capacity <= offs /\ offs <= Capacity
    BY DEF PhaseInv, OffsInv, OffsetsFit
  <2>3. QED
    BY <2>1, <2>2
<1> HIDE DEF a, b
<1>3. /\ Len(inl') = a /\ \A i \in 1 .. Len(inl') : inl'[i] = 0
      /\ Len(inr') = b /\ \A i \in 1 .. Len(inr') : inr'[i] = 0
  <2>1. ASSUME NEW n \in Nat, n <= Capacity, NEW w, w = Written(<<>>, Silence(n))
        PROVE  Len(w) = n /\ \A i \in 1 .. Len(w) : w[i] = 0
    <3>1. Least(n, Capacity) = n
      BY <2>1 DEF Least
    <3>2. QED
      BY <2>1, <3>1, RestartedIs
  <2>2. QED
    BY <1>1, <1>2, <2>1
<1>4. "in" \notin torn' => trx' \notin {"left", "right"}
  BY <1>1 DEF Getting
<1>5. Clean' => LeftStream' = inl'
  BY <1>4 DEF Clean, LeftStream
<1>6. /\ DOMAIN inl' = 1 .. Len(inl') /\ DOMAIN inr' = 1 .. Len(inr')
  BY Streams, LenProperties DEF TypeOK
<1>7. ApartInv'
  BY <1>1, <1>2, <1>3, <1>5 DEF ApartInv
<1>8. TogetherInv'
  BY <1>3, <1>5, <1>6 DEF TogetherInv, Together
<1>9. DatedInv'
  BY <1>1, <1>3, <1>5, <1>6 DEF DatedInv, Dated
<1>10. BlockInv' /\ OffsInv'
  BY <1>1, <1>4 DEF PhaseInv, OffsInv, BlockInv
<1>11. QED
  BY <1>7, <1>8, <1>9, <1>10 DEF PhaseInv

(* With no room in the left ring the period is lost to both, and nothing   *)
(* is stored before the restart.                                           *)
LEMMA PhaseDropped ==
  ASSUME TypeOK, PhaseInv, CopyInputLeft, ~(Capacity - Len(inl) >= NFrames)
  PROVE  PhaseInv'
<1> USE DEF rings, holds, command
<1>1. /\ UNCHANGED <<inl, inr, holdl, frames, skew, trx, offs, torn>>
      /\ cb = "input" /\ cb' = "post" /\ doin' = TRUE
  BY DEF CopyInputLeft
<1>2. LeftStream' = LeftStream /\ Clean' = Clean /\ ~MayStore'
  BY <1>1 DEF LeftStream, Clean, MayStore
<1>3. ApartInv' /\ TogetherInv' /\ DatedInv'
  BY <1>1, <1>2 DEF PhaseInv, ApartInv, TogetherInv, Together, DatedInv
<1>4. BlockInv' /\ OffsInv'
  BY <1>1, BlockInvKept DEF PhaseInv, OffsInv
<1>5. QED
  BY <1>3, <1>4 DEF PhaseInv

(* With room the whole period is stored.                                   *)
LEMMA StoredIs ==
  ASSUME TypeOK, NEW q \in Seq(Sample), Capacity - Len(q) >= NFrames,
         Len(q) <= Capacity
  PROVE  /\ Written(q, Captured) \in Seq(Sample)
         /\ Len(Written(q, Captured)) = Len(q) + NFrames
         /\ \A i \in 1 .. Len(q) + NFrames :
              Written(q, Captured)[i]
                = IF i <= Len(q) THEN q[i] ELSE Captured[i - Len(q)]
<1> DEFINE n == Least(Len(Captured), Capacity - Len(q))
<1>1. Captured \in Seq(Sample) /\ Len(Captured) = NFrames
  BY CapturedIs DEF TypeOK
<1>2. n = NFrames
  BY <1>1, LenProperties DEF Least
<1>3. /\ Written(q, Captured) \in Seq(Sample)
      /\ Len(Written(q, Captured)) = Len(q) + n
      /\ \A i \in 1 .. Len(q) + n :
           Written(q, Captured)[i]
             = IF i <= Len(q) THEN q[i] ELSE Captured[i - Len(q)]
  BY <1>1, WrittenIs
<1> HIDE DEF n
<1>4. QED
  BY <1>2, <1>3

LEMMA StreamStored ==
  ASSUME TypeOK, CopyInputLeft, Capacity - Len(inl) >= NFrames
  PROVE  /\ LeftStream' \in Seq(Sample)
         /\ Len(LeftStream') = Len(LeftStream) + NFrames
         /\ \A i \in 1 .. Len(LeftStream) + NFrames :
              LeftStream'[i] = IF i <= Len(LeftStream) THEN LeftStream[i]
                                           ELSE Captured[i - Len(LeftStream)]
<1> DEFINE w == Written(inl, Captured)
<1>1. inl' = w /\ UNCHANGED <<holdl, trx>>
  BY DEF CopyInputLeft, holds
<1>2. /\ w \in Seq(Sample) /\ Len(w) = Len(inl) + NFrames
      /\ \A i \in 1 .. Len(inl) + NFrames :
           w[i] = IF i <= Len(inl) THEN inl[i] ELSE Captured[i - Len(inl)]
  BY StoredIs DEF TypeOK
<1> HIDE DEF w
<1>3. CASE trx # "right"
  BY <1>1, <1>2, <1>3 DEF LeftStream
<1>4. CASE trx = "right"
  <2>1. /\ holdl \in Seq(Sample) /\ Len(holdl) \in Nat
        /\ inl \in Seq(Sample) /\ Len(inl) \in Nat
    BY LenProperties DEF TypeOK
  <2>2. /\ Len(holdl \o inl) = Len(holdl) + Len(inl)
        /\ \A i \in 1 .. Len(holdl) + Len(inl) :
             (holdl \o inl)[i] = IF i <= Len(holdl) THEN holdl[i]
                                                    ELSE inl[i - Len(holdl)]
    BY <2>1, ConcatProperties
  <2>3. /\ holdl \o w \in Seq(Sample)
        /\ Len(holdl \o w) = Len(holdl) + Len(w)
        /\ \A i \in 1 .. Len(holdl) + Len(w) :
             (holdl \o w)[i] = IF i <= Len(holdl) THEN holdl[i]
                                                  ELSE w[i - Len(holdl)]
    BY <1>2, <2>1, ConcatProperties
  <2>4. LeftStream = holdl \o inl /\ LeftStream' = holdl \o w
    BY <1>1, <1>4 DEF LeftStream
  <2>5. ASSUME NEW i \in 1 .. Len(holdl) + Len(inl) + NFrames
        PROVE  (holdl \o w)[i] = IF i <= Len(holdl) + Len(inl)
                                 THEN (holdl \o inl)[i]
                                 ELSE Captured[i - (Len(holdl) + Len(inl))]
    <3> DEFINE h == Len(holdl)
               n == Len(inl)
    <3>1. h \in Nat /\ n \in Nat /\ i \in 1 .. h + Len(w)
      BY <1>2, <2>1
    <3>2. (holdl \o w)[i] = IF i <= h THEN holdl[i] ELSE w[i - h]
      BY <2>3, <3>1
    <3>3. i <= h + n =>
            (holdl \o inl)[i] = IF i <= h THEN holdl[i] ELSE inl[i - h]
      BY <2>2, <3>1
    <3>4. i > h => w[i - h] = IF i - h <= n THEN inl[i - h]
                                            ELSE Captured[i - h - n]
      <4>1. i > h => i - h \in 1 .. n + NFrames
        BY <3>1
      <4>2. QED
        BY <1>2, <4>1
    <3>5. i - h - n = i - (h + n)
      BY <3>1
    <3> HIDE DEF h, n
    <3>6. CASE i <= h
      BY <3>1, <3>2, <3>3, <3>6 DEF h, n
    <3>7. CASE i > h /\ i <= h + n
      BY <3>1, <3>2, <3>3, <3>4, <3>7 DEF h, n
    <3>8. CASE i > h + n
      BY <3>1, <3>2, <3>4, <3>5, <3>8 DEF h, n
    <3>9. i <= h \/ (i > h /\ i <= h + n) \/ i > h + n
      BY <3>1
    <3>10. QED
      BY <3>6, <3>7, <3>8, <3>9, Zenon
  <2>6. QED
    BY <1>2, <2>1, <2>2, <2>3, <2>4, <2>5
<1>5. QED
  BY <1>3, <1>4

LEMMA PhaseStoreLeft ==
  ASSUME TypeOK, TypeOK', PhaseInv, CopyInputLeft, Capacity - Len(inl) >= NFrames
  PROVE  PhaseInv'
<1> USE DEF rings, holds, command
<1> DEFINE l == LeftStream
           m == LeftStream'
<1>1. /\ UNCHANGED <<inr, holdl, frames, skew, trx, offs, torn, now, doin>>
      /\ cb = "input" /\ cb' = "inright" /\ inl' = Written(inl, Captured)
  BY DEF CopyInputLeft
<1>2. /\ m \in Seq(Sample) /\ Len(m) = Len(l) + NFrames
      /\ \A i \in 1 .. Len(l) + NFrames :
           m[i] = IF i <= Len(l) THEN l[i] ELSE Captured[i - Len(l)]
      /\ Len(m) \in Nat /\ DOMAIN m = 1 .. Len(m)
  BY StreamStored, LenProperties
<1>3. /\ l \in Seq(Sample) /\ Len(l) \in Nat /\ DOMAIN l = 1 .. Len(l)
      /\ inr \in Seq(Sample) /\ Len(inr) \in Nat /\ DOMAIN inr = 1 .. Len(inr)
      /\ now \in Int /\ skew \in Int
  BY Streams DEF TypeOK
<1>4. Clean' = Clean /\ MayStore
  BY <1>1 DEF Clean, MayStore
<1>5. BlockInv' /\ OffsInv'
  <2>1. Len(inl) \in Nat /\ Len(inl') \in Nat /\ Len(inl) <= Len(inl')
    BY <1>1, <1>3, StoredIs, Streams DEF TypeOK
  <2>2. BlockReady => BlockReady'
    BY <1>1, <2>1 DEF BlockReady, TypeOK
  <2>3. QED
    BY <1>1, <2>2 DEF PhaseInv, BlockInv, OffsInv
<1> SUFFICES ASSUME Clean
             PROVE  ApartInv' /\ TogetherInv' /\ DatedInv'
  BY <1>4, <1>5 DEF PhaseInv, ApartInv, TogetherInv, DatedInv
<1>6. Len(inr) = Len(l) + skew
  BY <1>1, <1>3 DEF PhaseInv, ApartInv
<1>7. skew # 0 => /\ \A i \in 1 .. Len(l) : Dated(l, i, now)
                  /\ \A i \in 1 .. Len(inr) : Dated(inr, i, now)
  BY <1>1, <1>3, <1>4 DEF PhaseInv, DatedInv, LeftNext, RightNext
<1>8. /\ skew # 0 => \A i \in 1 .. Len(m) : Dated(m, i, now + NFrames)
      /\ \A i \in 1 .. Len(m) : i > Len(l) => Dated(m, i, now + NFrames)
  <2> HIDE DEF l, m
  <2>1. ASSUME NEW i \in 1 .. Len(m), i <= Len(l) => Dated(l, i, now)
        PROVE  Dated(m, i, now + NFrames)
    BY <1>2, <1>3, <2>1, DatedStored
  <2>2. ASSUME skew # 0, NEW i \in 1 .. Len(m)
        PROVE  Dated(m, i, now + NFrames)
    BY <1>3, <1>7, <2>1, <2>2
  <2>3. ASSUME NEW i \in 1 .. Len(m), i > Len(l)
        PROVE  Dated(m, i, now + NFrames)
    BY <1>3, <2>1, <2>3
  <2>4. QED
    BY <2>2, <2>3
<1> HIDE DEF l, m
<1>9. ApartInv'
  BY <1>1, <1>2, <1>3, <1>6 DEF ApartInv, m
<1>10. Together(m, inr)
  <2> SUFFICES ASSUME NEW i \in 1 .. Len(m), i \in 1 .. Len(inr),
                      m[i] # 0, inr[i] # 0
               PROVE  (inr[i] - m[i] + skew) % Period = 0
    BY <1>2, <1>3 DEF Together
  <2>1. CASE i <= Len(l)
    <3>1. m[i] = l[i] /\ i \in DOMAIN l \cap DOMAIN inr
      BY <1>2, <1>3, <2>1
    <3>2. Together(l, inr)
      BY DEF PhaseInv, TogetherInv, l
    <3>3. QED
      BY <3>1, <3>2 DEF Together
  (* The right ring is ahead: only an offset makes it so.                  *)
  <2>2. CASE i > Len(l)
    <3>1. skew # 0
      BY <1>3, <1>6, <2>2
    <3>2. Dated(m, i, now + NFrames) /\ Dated(inr, i, now)
      BY <1>7, <1>8, <3>1
    <3>3. (now - Len(inr)) - ((now + NFrames) - Len(m)) + skew = 0
      BY <1>2, <1>3, <1>6
    <3>4. now + NFrames \in Int
      BY <1>3
    <3>5. QED
      BY <1>2, <1>3, <3>2, <3>3, <3>4, DatedTogether
  <2>3. QED
    BY <1>3, <2>1, <2>2
<1>11. TogetherInv'
  BY <1>1, <1>10 DEF TogetherInv, Together, m
<1>12. DatedInv'
  <2>1. LeftNext' = now + NFrames /\ RightNext' = now
    BY <1>1 DEF LeftNext, RightNext
  <2>2. \A i \in 1 .. Len(m) : Len(m) - i < NFrames => i > Len(l)
    BY <1>2, <1>3
  <2>3. QED
    BY <1>1, <1>2, <1>3, <1>7, <1>8, <2>1, <2>2 DEF DatedInv, Dated, m
<1>13. QED
  BY <1>9, <1>11, <1>12

LEMMA PhaseStoreRight ==
  ASSUME TypeOK, TypeOK', PhaseInv, CopyInputRight
  PROVE  PhaseInv'
<1> USE DEF rings, holds, command
<1> DEFINE l == LeftStream
           n == Written(inr, Captured)
<1>1. /\ UNCHANGED <<inl, holdl, frames, skew, trx, offs, now, doin>>
      /\ cb = "inright" /\ cb' = "post" /\ inr' = n
      /\ torn' = IF Capacity - Len(inr) < NFrames THEN torn \cup {"short"}
                                                  ELSE torn
  BY DEF CopyInputRight
<1>2. /\ l \in Seq(Sample) /\ Len(l) \in Nat /\ DOMAIN l = 1 .. Len(l)
      /\ inr \in Seq(Sample) /\ Len(inr) \in Nat /\ DOMAIN inr = 1 .. Len(inr)
      /\ now \in Int /\ skew \in Int /\ Len(inr) <= Capacity
  BY Streams DEF TypeOK
<1>3. LeftStream' = l
  BY <1>1 DEF LeftStream
<1>4. BlockInv' /\ OffsInv'
  <2>1. Len(inr) <= Len(inr') /\ Len(inr') \in Nat
    <3>1. Captured \in Seq(Sample)
      BY <1>2, CapturedIs
    <3>2. QED
      BY <1>1, <1>2, <3>1, WrittenIs, LenProperties
  <2>2. Len(inr) >= frames => Len(inr') >= frames
    BY <1>2, <2>1 DEF TypeOK
  <2>3. QED
    BY <1>1, <2>2 DEF PhaseInv, BlockInv, BlockReady, OffsInv
<1> SUFFICES ASSUME Clean'
             PROVE  ApartInv' /\ TogetherInv' /\ DatedInv'
  BY <1>4 DEF PhaseInv, ApartInv, TogetherInv, DatedInv
<1>5. Clean /\ MayStore /\ Capacity - Len(inr) >= NFrames
  BY <1>1, <1>2 DEF Clean, MayStore
<1>6. /\ n \in Seq(Sample) /\ Len(n) = Len(inr) + NFrames
      /\ \A i \in 1 .. Len(inr) + NFrames :
           n[i] = IF i <= Len(inr) THEN inr[i] ELSE Captured[i - Len(inr)]
      /\ DOMAIN n = 1 .. Len(n)
  BY <1>2, <1>5, StoredIs, LenProperties
<1>7. Len(inr) = Len(l) + skew - NFrames
  BY <1>1, <1>2, <1>5 DEF PhaseInv, ApartInv
<1>8. /\ skew # 0 => /\ \A i \in 1 .. Len(l) : Dated(l, i, now + NFrames)
                     /\ \A i \in 1 .. Len(inr) : Dated(inr, i, now)
      /\ \A i \in 1 .. Len(l) :
           Len(l) - i < NFrames => Dated(l, i, now + NFrames)
  BY <1>1, <1>2, <1>5 DEF PhaseInv, DatedInv, LeftNext, RightNext
<1>9. /\ skew # 0 => \A i \in 1 .. Len(n) : Dated(n, i, now + NFrames)
      /\ \A i \in 1 .. Len(n) : i > Len(inr) => Dated(n, i, now + NFrames)
  <2> HIDE DEF l, n
  <2>1. ASSUME NEW i \in 1 .. Len(n), i <= Len(inr) => Dated(inr, i, now)
        PROVE  Dated(n, i, now + NFrames)
    BY <1>2, <1>6, <2>1, DatedStored
  <2>2. ASSUME skew # 0, NEW i \in 1 .. Len(n)
        PROVE  Dated(n, i, now + NFrames)
    BY <1>2, <1>8, <2>1, <2>2
  <2>3. ASSUME NEW i \in 1 .. Len(n), i > Len(inr)
        PROVE  Dated(n, i, now + NFrames)
    BY <1>2, <2>1, <2>3
  <2>4. QED
    BY <2>2, <2>3
<1>10. Together(l, inr)
  BY <1>5 DEF PhaseInv, TogetherInv
<1> HIDE DEF l, n
<1>11. ApartInv'
  BY <1>1, <1>2, <1>3, <1>6, <1>7 DEF ApartInv
<1>12. Together(l, n)
  <2> SUFFICES ASSUME NEW i \in 1 .. Len(l), i \in 1 .. Len(n),
                      l[i] # 0, n[i] # 0
               PROVE  (n[i] - l[i] + skew) % Period = 0
    BY <1>2, <1>6 DEF Together
  <2>1. CASE i <= Len(inr)
    <3>1. n[i] = inr[i] /\ i \in DOMAIN l \cap DOMAIN inr
      BY <1>2, <1>6, <2>1
    <3>2. QED
      BY <1>10, <3>1 DEF Together
  (* Without an offset it is the period that has just been stored left.    *)
  <2>2. CASE i > Len(inr)
    <3>1. skew = 0 => Len(l) - i < NFrames
      BY <1>2, <1>7, <2>2
    <3>2. Dated(l, i, now + NFrames) /\ Dated(n, i, now + NFrames)
      BY <1>8, <1>9, <2>2, <3>1
    <3>3. ((now + NFrames) - Len(n)) - ((now + NFrames) - Len(l)) + skew = 0
      BY <1>2, <1>6, <1>7
    <3>4. now + NFrames \in Int
      BY <1>2
    <3>5. QED
      BY <1>2, <1>6, <3>2, <3>3, <3>4, DatedTogether
  <2>3. QED
    BY <1>2, <2>1, <2>2
<1>13. TogetherInv'
  BY <1>1, <1>3, <1>12 DEF TogetherInv, Together
<1>14. DatedInv'
  <2>1. LeftNext' = now + NFrames /\ RightNext' = now + NFrames
    BY <1>1 DEF LeftNext, RightNext
  <2>2. QED
    BY <1>1, <1>2, <1>3, <1>6, <1>8, <1>9, <2>1 DEF DatedInv, Dated
<1>15. QED
  BY <1>11, <1>13, <1>14

(* gethold's first read: the block is in holdl, and still the front of the *)
(* stream.                                                                 *)
LEMMA PhaseGetLeft ==
  ASSUME TypeOK, TypeOK', PhaseInv, GetLeft
  PROVE  PhaseInv'
<1> USE DEF rings, holds, command
<1>1. /\ UNCHANGED <<inr, frames, skew, offs, now, doin, cb, torn>>
      /\ trx = "left" /\ trx' = "right"
      /\ holdl' = Filled(holdl, inl, frames) /\ inl' = Taken(inl, frames)
  BY DEF GetLeft
<1>2. Clean' = Clean /\ MayStore' = MayStore /\ LeftStream = inl
  BY <1>1 DEF Clean, MayStore, LeftStream
<1>3. "in" \notin torn => LeftStream' = inl
  <2> SUFFICES ASSUME "in" \notin torn PROVE holdl' \o inl' = inl
    BY <1>1 DEF LeftStream
  <2>1. /\ frames \in Nat /\ frames <= Len(inl) /\ Len(inl) \in Nat
        /\ inl \in Seq(Sample) /\ holdl \in Seq(Sample)
        /\ Len(holdl) = frames
    BY <1>1, Streams DEF PhaseInv, BlockInv, BlockReady, TypeOK
  <2>2. /\ holdl' \in Seq(Sample) /\ Len(holdl') = frames
        /\ \A i \in 1 .. frames : holdl'[i] = inl[i]
    BY <1>1, <2>1, FilledIs
  <2>3. /\ inl' \in Seq(Sample) /\ Len(inl') = Len(inl) - frames
        /\ \A i \in 1 .. Len(inl) - frames : inl'[i] = inl[frames + i]
    BY <1>1, <2>1, BlockTakenIs
  <2> DEFINE h == holdl'
             q == inl'
             w == h \o q
  <2> HIDE DEF h, q
  <2>4. /\ w \in Seq(Sample) /\ Len(w) = Len(h) + Len(q)
        /\ \A i \in 1 .. Len(h) + Len(q) :
             w[i] = IF i <= Len(h) THEN h[i] ELSE q[i - Len(h)]
    <3>1. h \in Seq(Sample) /\ q \in Seq(Sample)
      BY <2>2, <2>3 DEF h, q
    <3>2. QED
      BY <3>1, ConcatProperties
  <2>5. Len(w) = Len(inl)
    BY <2>1, <2>2, <2>3, <2>4 DEF h, q
  <2>6. ASSUME NEW i \in 1 .. Len(inl) PROVE w[i] = inl[i]
    <3>1. CASE i <= frames
      BY <2>1, <2>2, <2>4, <2>5, <3>1 DEF h, q
    <3>2. CASE i > frames
      <4>1. i - frames \in 1 .. Len(inl) - frames /\ frames + (i - frames) = i
        BY <2>1, <3>2
      <4>2. w[i] = inl'[i - frames]
        BY <2>1, <2>2, <2>4, <2>5, <3>2 DEF h, q
      <4>3. QED
        BY <2>3, <4>1, <4>2
    <3>3. i <= frames \/ i > frames
      BY <2>1
    <3>4. QED
      BY <3>1, <3>2, <3>3, Zenon
  <2> HIDE DEF w
  <2>7. w = inl
    BY <2>1, <2>4, <2>5, <2>6, SeqEqual
  <2>8. QED
    BY <2>7 DEF w, h, q
<1>4. Clean' => Clean /\ LeftStream' = LeftStream
  BY <1>2, <1>3 DEF Clean
<1>5. ApartInv' /\ TogetherInv' /\ DatedInv'
  BY <1>1, <1>2, <1>4, QuietStep
<1>6. BlockInv' /\ OffsInv'
  BY <1>1 DEF PhaseInv, BlockInv, BlockReady, OffsInv
<1>7. QED
  BY <1>5, <1>6 DEF PhaseInv

(* gethold's second read: the block leaves both streams.                   *)
LEMMA BlockLeaves ==
  ASSUME TypeOK, PhaseInv, GetRight, "in" \notin torn
  PROVE  /\ frames \in Nat
         /\ LeftStream' \in Seq(Sample) /\ inr' \in Seq(Sample)
         /\ Len(LeftStream') = Len(LeftStream) - frames
         /\ Len(inr') = Len(inr) - frames
         /\ frames \in 0 .. Len(LeftStream) /\ frames \in 0 .. Len(inr)
         /\ \A i \in 1 .. Len(LeftStream) - frames :
              LeftStream'[i] = LeftStream[frames + i]
         /\ \A i \in 1 .. Len(inr) - frames : inr'[i] = inr[frames + i]
         /\ \A i \in 1 .. frames :
              holdl'[i] = LeftStream[i] /\ holdr'[i] = inr[i]
<1>1. /\ trx = "right" /\ trx' = "process" /\ UNCHANGED <<inl, holdl>>
      /\ holdr' = Filled(holdr, inr, frames) /\ inr' = Taken(inr, frames)
  BY DEF GetRight
<1>2. /\ frames \in Nat /\ frames <= Len(inr) /\ Len(inr) \in Nat
      /\ inr \in Seq(Sample) /\ holdr \in Seq(Sample) /\ Len(holdr) = frames
      /\ inl \in Seq(Sample) /\ Len(inl) \in Nat
      /\ holdl \in Seq(Sample) /\ Len(holdl) = frames
  BY <1>1, Streams DEF PhaseInv, BlockInv, TypeOK
<1>3. LeftStream = holdl \o inl /\ LeftStream' = inl
  BY <1>1 DEF LeftStream
<1>4. /\ Len(LeftStream) = frames + Len(inl)
      /\ \A i \in 1 .. frames + Len(inl) :
           LeftStream[i] = IF i <= frames THEN holdl[i] ELSE inl[i - frames]
  <2>1. /\ Len(holdl \o inl) = Len(holdl) + Len(inl)
        /\ \A i \in 1 .. Len(holdl) + Len(inl) :
             (holdl \o inl)[i] = IF i <= Len(holdl) THEN holdl[i]
                                ELSE inl[i - Len(holdl)]
    BY <1>2, ConcatProperties
  <2>2. QED
    BY ONLY <1>2, <1>3, <2>1, Zenon
<1>5. \A i \in 1 .. frames : holdr'[i] = inr[i]
  BY <1>1, <1>2, FilledIs, SMTT(60)
<1>6. \A i \in 1 .. frames : holdl'[i] = LeftStream[i]
  BY <1>1, <1>2, <1>4
<1>7. \A i \in 1 .. Len(inl) : inl[i] = LeftStream[frames + i]
  <2> SUFFICES ASSUME NEW i \in 1 .. Len(inl)
               PROVE  inl[i] = LeftStream[frames + i]
    OBVIOUS
  <2>1. /\ frames + i \in 1 .. frames + Len(inl) /\ ~(frames + i <= frames)
        /\ (frames + i) - frames = i
    BY <1>2
  <2>2. LeftStream[frames + i] = inl[(frames + i) - frames]
    BY <1>4, <2>1
  <2>3. QED
    BY <2>1, <2>2
<1>8. /\ inr' \in Seq(Sample) /\ Len(inr') = Len(inr) - frames
      /\ \A i \in 1 .. Len(inr) - frames : inr'[i] = inr[frames + i]
  BY <1>1, <1>2, BlockTakenIs
<1>9. Len(LeftStream) - frames = Len(inl)
  BY <1>2, <1>4
<1>10. frames \in 0 .. Len(LeftStream) /\ frames \in 0 .. Len(inr)
  BY <1>2, <1>4
<1>11. QED
  BY <1>2, <1>3, <1>5, <1>6, <1>7, <1>8, <1>9, <1>10

LEMMA PhaseGetRight ==
  ASSUME TypeOK, TypeOK', PhaseInv, GetRight
  PROVE  PhaseInv'
<1> USE DEF rings, holds, command
<1>1. /\ UNCHANGED <<skew, offs, now, doin, cb, torn>>
      /\ trx = "right" /\ trx' = "process"
  BY DEF GetRight
<1>2. BlockInv' /\ OffsInv'
  BY <1>1 DEF PhaseInv, BlockInv, OffsInv
<1>3. /\ Clean' = Clean /\ MayStore' = MayStore
      /\ LeftNext' = LeftNext /\ RightNext' = RightNext
  BY <1>1 DEF Clean, MayStore, LeftNext, RightNext
<1> SUFFICES ASSUME Clean
             PROVE  ApartInv' /\ TogetherInv' /\ DatedInv'
  BY <1>2, <1>3 DEF PhaseInv, ApartInv, TogetherInv, DatedInv
<1> DEFINE l == LeftStream
           m == LeftStream'
           n == inr'
<1>4. "in" \notin torn
  BY DEF Clean
<1>5. /\ l \in Seq(Sample) /\ Len(l) \in Nat /\ DOMAIN l = 1 .. Len(l)
      /\ inr \in Seq(Sample) /\ Len(inr) \in Nat /\ DOMAIN inr = 1 .. Len(inr)
      /\ LeftNext \in Int /\ RightNext \in Int
  BY Streams
<1>6. /\ frames \in Nat /\ m \in Seq(Sample) /\ n \in Seq(Sample)
      /\ Len(m) = Len(l) - frames /\ Len(n) = Len(inr) - frames
      /\ frames \in 0 .. Len(l) /\ frames \in 0 .. Len(inr)
      /\ \A i \in 1 .. Len(l) - frames : m[i] = l[frames + i]
      /\ \A i \in 1 .. Len(inr) - frames : n[i] = inr[frames + i]
  BY <1>4, BlockLeaves
<1>7. DOMAIN m = 1 .. Len(m) /\ DOMAIN n = 1 .. Len(n)
  BY <1>6, LenProperties
<1>8. /\ \A i \in 1 .. Len(m) : frames + i \in 1 .. Len(l)
      /\ \A i \in 1 .. Len(n) : frames + i \in 1 .. Len(inr)
      /\ \A i \in 1 .. Len(m) : Len(m) - i = Len(l) - (frames + i)
  BY <1>5, <1>6
<1>9. Together(l, inr)
  BY DEF PhaseInv, TogetherInv
<1>10. MayStore =>
         /\ skew # 0 => /\ \A i \in 1 .. Len(l) : Dated(l, i, LeftNext)
                        /\ \A i \in 1 .. Len(inr) : Dated(inr, i, RightNext)
         /\ cb = "inright" =>
              \A i \in 1 .. Len(l) : Len(l) - i < NFrames => Dated(l, i, LeftNext)
  BY <1>5 DEF PhaseInv, DatedInv
<1>11. Len(n) = Len(m) + skew - (IF cb = "inright" THEN NFrames ELSE 0)
  <2>1. /\ Len(inr) = Len(l) + skew - (IF cb = "inright" THEN NFrames ELSE 0)
        /\ skew \in Int
    BY DEF PhaseInv, ApartInv, TypeOK
  <2>2. QED
    BY <1>5, <1>6, <2>1
<1> HIDE DEF l, m, n
<1>12. Together(m, n)
  <2> SUFFICES ASSUME NEW i \in 1 .. Len(m), i \in 1 .. Len(n),
                      m[i] # 0, n[i] # 0
               PROVE  (n[i] - m[i] + skew) % Period = 0
    BY <1>7 DEF Together
  <2>1. /\ m[i] = l[frames + i] /\ n[i] = inr[frames + i]
        /\ frames + i \in DOMAIN l \cap DOMAIN inr
    BY <1>5, <1>6, <1>8
  <2>2. QED
    BY <1>9, <2>1 DEF Together
<1>13. ASSUME NEW i \in 1 .. Len(m), Dated(l, frames + i, LeftNext)
       PROVE  Dated(m, i, LeftNext)
  BY <1>5, <1>6, <1>13, DatedTaken
<1>14. ASSUME NEW i \in 1 .. Len(n), Dated(inr, frames + i, RightNext)
       PROVE  Dated(n, i, RightNext)
  BY <1>5, <1>6, <1>14, DatedTaken
<1>15. MayStore =>
         /\ skew # 0 => /\ \A i \in 1 .. Len(m) : Dated(m, i, LeftNext)
                        /\ \A i \in 1 .. Len(n) : Dated(n, i, RightNext)
         /\ cb = "inright" =>
              \A i \in 1 .. Len(m) : Len(m) - i < NFrames => Dated(m, i, LeftNext)
  BY <1>8, <1>10, <1>13, <1>14
<1>16. ApartInv'
  BY <1>1, <1>11 DEF ApartInv, m, n
<1>17. TogetherInv'
  BY <1>1, <1>12 DEF TogetherInv, Together, m, n
<1>18. DatedInv'
  BY <1>1, <1>3, <1>7, <1>15 DEF DatedInv, Dated, m, n
<1>19. QED
  BY <1>16, <1>17, <1>18

-----------------------------------------------------------------------------
(* The theorem of part two.                                                *)

LEMMA InitPhaseInv == Init => PhaseInv
<1> SUFFICES ASSUME Init PROVE PhaseInv
  OBVIOUS
<1>1. /\ LeftStream = <<>> /\ inl = <<>> /\ inr = <<>> /\ skew = 0
      /\ cb = "idle" /\ trx = "wait" /\ offs = SkewOffs
  BY DEF Init, LeftStream
<1>2. Len(<<>>) = 0 /\ DOMAIN <<>> = {}
  BY EmptySeq
<1>3. QED
  BY <1>1, <1>2
  DEF PhaseInv, OffsInv, BlockInv, ApartInv, TogetherInv, Together, DatedInv

LEMMA PhaseStep ==
  ASSUME TypeOK, PhaseInv, OffsetsFit, [Next]_vars
  PROVE  PhaseInv'
<1>1. TypeOK'
  BY TypeStep
<1>2. CASE Callback
  BY <1>1, <1>2, PhaseRestart, PhaseOutput, PhaseSuspended, PhaseDropped,
     PhaseStoreLeft, PhaseStoreRight, PhasePost DEF Callback
<1>3. CASE ProcessSamples
  BY <1>1, <1>3, PhaseWork, PhaseGetLeft, PhaseGetRight
<1>4. CASE Update
  BY <1>4, PhaseUpdate
<1>5. CASE UNCHANGED vars
  <2>1. UNCHANGED <<inl, inr, holdl, frames, skew, now, cb, doin, trx, offs,
                    torn>>
    BY <1>5 DEF vars, rings, holds
  <2>2. LeftStream' = LeftStream /\ Clean' = Clean /\ MayStore' = MayStore
    BY <2>1 DEF LeftStream, Clean, MayStore
  <2>3. ApartInv' /\ TogetherInv' /\ DatedInv'
    BY <2>1, <2>2, QuietStep
  <2>4. BlockInv' /\ OffsInv'
    BY <2>1, BlockInvKept DEF PhaseInv, OffsInv
  <2>5. QED
    BY <2>3, <2>4 DEF PhaseInv
<1>6. QED
  BY <1>2, <1>3, <1>4, <1>5 DEF Next

(* A block that reaches the DSP has its two channels in phase, after any   *)
(* overruns, restarts and changes of length and offset, but for the cases  *)
(* that BlocksInPhase names, as long as the offsets fit into the rings: a  *)
(* larger one is cut to the ring's size without a word.                    *)
THEOREM ChannelsInPhase == ASSUME OffsetsFit PROVE Spec => BlocksInPhase
<1>1. TypeOK /\ PhaseInv /\ [Next]_vars => PhaseInv'
  BY PhaseStep
<1>2. TypeOK /\ PhaseInv /\ [Next]_vars =>
        [BlockTaken /\ torn \subseteq {"out", "len"}
           => InPhase(holdl', holdr')]_vars
  <2> SUFFICES ASSUME TypeOK, PhaseInv, Next, BlockTaken,
                      torn \subseteq {"out", "len"}
               PROVE  InPhase(holdl', holdr')
    BY Zenon
  <2>1. GetRight
    BY DEF Next, Callback, ProcessSamples, Update, RestartInput,
           RestartOutputRight, RestartOutputLeft,
           CallbackSuspended, CopyOutput, CopyInputLeft, CopyInputRight, Post,
           WaitBuf, CheckHold, GetLeft, Process, CheckPut, PutLeft, PutRight,
           SetRingBufferReset, SetRingBufferOffset, SetNewBuflen, FreeHold,
           AllocHold, Resume, BlockTaken
  <2>2. Clean /\ "in" \notin torn
    BY DEF Clean
  <2>3. Together(LeftStream, inr)
    BY <2>2 DEF PhaseInv, TogetherInv
  <2>4. /\ DOMAIN LeftStream = 1 .. Len(LeftStream)
        /\ DOMAIN inr = 1 .. Len(inr)
        /\ Len(LeftStream) \in Nat /\ Len(inr) \in Nat
    BY Streams
  <2>5. /\ frames \in Nat
        /\ frames \in 0 .. Len(LeftStream) /\ frames \in 0 .. Len(inr)
        /\ \A i \in 1 .. frames :
             holdl'[i] = LeftStream[i] /\ holdr'[i] = inr[i]
    BY <2>1, <2>2, BlockLeaves
  <2>6. DOMAIN holdl' = 1 .. frames
    BY <2>1, LenProperties DEF GetRight, TypeOK
  <2>7. SUFFICES ASSUME NEW i \in 1 .. frames, holdl'[i] # 0, holdr'[i] # 0
                 PROVE  (holdr'[i] - holdl'[i] + skew) % Period = 0
    BY <2>6 DEF InPhase
  <2>8. /\ i \in DOMAIN LeftStream \cap DOMAIN inr
        /\ holdl'[i] = LeftStream[i] /\ holdr'[i] = inr[i]
    BY <2>4, <2>5
  <2>9. LeftStream[i] # 0 /\ inr[i] # 0
    BY <2>7, <2>8
  <2>10. (inr[i] - LeftStream[i] + skew) % Period = 0
    BY ONLY <2>3, <2>8, <2>9, Zenon DEF Together
  <2>11. QED
    BY ONLY <2>8, <2>10, Zenon
<1>3. QED
  BY InitPhaseInv, <1>1, <1>2, TypeCorrect, PTL DEF Spec, BlocksInPhase
=============================================================================
