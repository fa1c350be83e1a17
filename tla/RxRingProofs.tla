---------------------------- MODULE RxRingProofs ----------------------------
(***************************************************************************)
(* Proofs about RxRing, for every ring size, counter width and set of      *)
(* devices: nobody sleeps on a ring with bytes in it, the clock of the     *)
(* automatic shutdown is never ahead by more than a second, and the ring   *)
(* implements the queue of DropOldest.                                     *)
(***************************************************************************)
EXTENDS RxRing, Integers, SequenceTheorems, TLAPS

\* Both sides touch the ring with the mutex held only.
Exclusion ==
  /\ \A d \in Devices : rxpc[d] \in {"test", "push"} <=> mutex = d
  /\ getcpc = "take" <=> mutex = "getc"

\* The ring holds at most N bytes, and a callback that has pushed all of its
\* bytes, like a consumer that is about to take one, leaves it not empty.
Occupancy ==
  /\ Distance(head, tail) <= N
  /\ \A d \in Devices :
       /\ rxpc[d] # "idle" => data[d] # <<>> \/ (rxpc[d] = "push" /\ ~Empty)
  /\ getcpc = "take" => ~Empty

\* A callback in its loop will have left bytes in the ring, so a consumer
\* that sleeps meanwhile has been posted to as well.
Pushing == \E d \in Devices : rxpc[d] = "push"

Wakeup == getcpc = "wait" /\ (~Empty \/ Pushing) => signal

\* No byte in the ring and none on the way from the post to the ring.
Quiet == Empty /\ ~Pushing

Clock ==
  /\ no_activity_time <= seconds + 1
  /\ getcpc \in {"idle", "lock"} => no_activity_time = 0 /\ seconds = 0
  /\ getcpc = "wait" /\ Quiet /\ signal => no_activity_time <= seconds
  /\ getcpc = "relock" /\ Quiet => no_activity_time <= seconds /\ ~signal

IInv == TypeOK /\ Exclusion /\ Occupancy /\ Wakeup /\ Clock

-----------------------------------------------------------------------------
\* The remainder of a number below twice the modulus.
LEMMA Remainder ==
  ASSUME NEW W \in Nat \ {0}, NEW a \in Nat, a < 2 * W
  PROVE  a % W = IF a < W THEN a ELSE a - W
<1>1. a % W \in 0 .. W-1 /\ a = W * (a \div W) + (a % W) /\ a \div W \in Int
  OBVIOUS
<1>2. a \div W = 0 \/ a \div W = 1
  <2> DEFINE q == a \div W
  <2>1. q < 2
    BY <1>1
  <2>2. q > -1
    BY <1>1
  <2> QED
    BY <1>1, <2>1, <2>2
<1>3. CASE a \div W = 0
  BY <1>1, <1>3
<1>4. CASE a \div W = 1
  BY <1>1, <1>4
<1> QED
  BY <1>2, <1>3, <1>4

\* The two uses of % in the module, for counters in range.
LEMMA Counters ==
  ASSUME NEW x \in 0 .. Wrap-1, NEW y \in 0 .. Wrap-1
  PROVE  /\ (x + 1) % Wrap = IF x + 1 < Wrap THEN x + 1 ELSE 0
         /\ Distance(x, y) = IF x < y THEN x + Wrap - y ELSE x - y
<1>1. Wrap \in Nat \ {0}
  BY RingAssumption
<1>2. (x + 1) % Wrap = IF x + 1 < Wrap THEN x + 1 ELSE 0
  <2>1. x + 1 \in Nat /\ x + 1 < 2 * Wrap
    BY <1>1
  <2> DEFINE a == x + 1
  <2>2. a % Wrap = IF a < Wrap THEN a ELSE a - Wrap
    <3>1. a \in Nat /\ a < 2 * Wrap
      BY <2>1
    <3> HIDE DEF a
    <3> QED
      BY <1>1, <3>1, Remainder
  <2>3. x + 1 = Wrap \/ x + 1 < Wrap
    BY <1>1
  <2>4. a \in Nat /\ (a = Wrap \/ a < Wrap)
    BY <2>1, <2>3
  <2> HIDE DEF a
  <2>5. a % Wrap = IF a < Wrap THEN a ELSE 0
    BY <1>1, <2>2, <2>4
  <2> USE DEF a
  <2> QED
    BY <2>5, Zenon
<1>3. Distance(x, y) = IF x < y THEN x + Wrap - y ELSE x - y
  <2>1. x + Wrap - y \in Nat /\ x + Wrap - y < 2 * Wrap
    BY <1>1
  <2> DEFINE a == x + Wrap - y
  <2>2. a % Wrap = IF a < Wrap THEN a ELSE a - Wrap
    <3>1. a \in Nat /\ a < 2 * Wrap
      BY <2>1
    <3> HIDE DEF a
    <3> QED
      BY <1>1, <3>1, Remainder
  <2>3. Distance(x, y) = a % Wrap
    BY DEF Distance
  <2>4. a - Wrap = x - y /\ (a < Wrap <=> x < y)
    BY <1>1
  <2> HIDE DEF a
  <2>5. Distance(x, y) = IF a < Wrap THEN a ELSE x - y
    BY <2>2, <2>3, <2>4
  <2> USE DEF a
  <2> QED
    BY <2>4, <2>5
<1> QED
  BY <1>2, <1>3

\* Taking a byte: the distance of the counters falls by one.
LEMMA Taken ==
  ASSUME NEW h \in 0 .. Wrap-1, NEW t \in 0 .. Wrap-1, h # t,
         Distance(h, t) <= N,
         NEW u, u = (t + 1) % Wrap
  PROVE  /\ u \in 0 .. Wrap-1
         /\ Distance(h, u) <= N
<1> DEFINE Gap(x, y) == IF x < y THEN x + Wrap - y ELSE x - y
<1>1. u = IF t + 1 < Wrap THEN t + 1 ELSE 0
  BY Counters, Zenon
<1>2. u \in 0 .. Wrap-1
  BY <1>1, RingAssumption
<1>3. Distance(h, t) = Gap(h, t) /\ Distance(h, u) = Gap(h, u)
  BY <1>2, Counters, Zenon
<1>4. Gap(h, t) <= N
  BY <1>3, Zenon
<1>5. Gap(h, u) <= N
  BY <1>1, <1>4, RingAssumption
<1> QED
  BY <1>2, <1>3, <1>5, Zenon

\* Pushing a byte: the distance stays within N and above zero.
LEMMA Pushed ==
  ASSUME NEW h \in 0 .. Wrap-1, NEW t \in 0 .. Wrap-1, Distance(h, t) <= N,
         NEW g, g = (h + 1) % Wrap,
         NEW u, u = IF Distance(g, t) > N THEN Distance(g, N) ELSE t
  PROVE  /\ g \in 0 .. Wrap-1 /\ u \in 0 .. Wrap-1
         /\ Distance(g, u) <= N
         /\ g # u
<1> DEFINE Gap(x, y) == IF x < y THEN x + Wrap - y ELSE x - y
<1>0. N \in Nat \ {0} /\ Wrap \in Nat /\ N + 1 < Wrap
  BY RingAssumption
<1>1. g = IF h + 1 < Wrap THEN h + 1 ELSE 0
  BY Counters, Zenon
<1>2. g \in 0 .. Wrap-1 /\ N \in 0 .. Wrap-1
  BY <1>0, <1>1
<1>3. /\ Distance(h, t) = Gap(h, t) /\ Distance(g, t) = Gap(g, t)
      /\ Distance(g, N) = Gap(g, N)
  BY <1>2, Counters, Zenon
<1>4. Gap(h, t) <= N /\ u = IF Gap(g, t) > N THEN Gap(g, N) ELSE t
  BY <1>3, Zenon
<1>5. u \in 0 .. Wrap-1
  BY <1>0, <1>2, <1>4
<1>6. Distance(g, u) = Gap(g, u)
  BY <1>2, <1>5, Counters, Zenon
<1>7. Gap(g, u) <= N /\ g # u
  BY <1>0, <1>1, <1>4
<1> QED
  BY <1>2, <1>5, <1>6, <1>7, Zenon

-----------------------------------------------------------------------------
\* A read is a sequence of characters, and not the empty one.
LEMMA BatchIsSequence ==
  ASSUME NEW d \in Devices, NEW batch \in Batches(d)
  PROVE  batch \in Seq(Chars) /\ batch # <<>>
<1>1. PICK n \in 1 .. MaxBatch[d] : batch \in [1 .. n -> Chars]
  BY DEF Batches
<1>2. n \in Nat /\ n >= 1
  BY <1>1, RingAssumption
<1>3. batch \in Seq(Chars) /\ Len(batch) = n
  BY <1>1, <1>2
<1> QED
  BY <1>2, <1>3

LEMMA InitIInv == Init => IInv
<1> SUFFICES ASSUME Init PROVE IInv
  OBVIOUS
<1> USE DEF Init
<1>1. TypeOK
  <2>1. buffer \in [0 .. N-1 -> Chars \union {NoChar}]
    OBVIOUS
  <2>2. /\ data \in [Devices -> Seq(Chars)]
        /\ rxpc \in [Devices -> {"idle", "lock", "test", "push"}]
    OBVIOUS
  <2>3. head \in 0 .. Wrap-1 /\ tail \in 0 .. Wrap-1
    BY RingAssumption
  <2> QED
    BY <2>1, <2>2, <2>3 DEF TypeOK, GetcPlaces
<1>2. Exclusion
  BY RingAssumption DEF Exclusion
<1>3. Occupancy
  <2>1. 0 \in 0 .. Wrap-1
    BY RingAssumption
  <2>2. Distance(0, 0) = 0
    BY <2>1, Counters
  <2> QED
    BY <2>2, RingAssumption DEF Occupancy, Empty
<1>4. Wakeup /\ Clock
  BY DEF Wakeup, Clock, Pushing, Quiet, Empty
<1> QED
  BY <1>1, <1>2, <1>3, <1>4 DEF IInv

\* The steps of a callback.
LEMMA StepRx ==
  ASSUME IInv, NEW d \in Devices,
         RxStep(d) \/ \E batch \in Batches(d) : RxRead(d, batch)
  PROVE  IInv'
<1> USE DEF IInv, TypeOK, RxGoto
<1>1. ASSUME NEW batch \in Batches(d), RxRead(d, batch) PROVE IInv'
  <2> USE <1>1 DEF RxRead, ring
  <2>1. batch \in Seq(Chars) /\ batch # <<>>
    BY BatchIsSequence
  <2>2. TypeOK'
    BY <2>1
  <2>3. Exclusion'
    BY DEF Exclusion
  <2>4. Occupancy'
    BY <2>1 DEF Occupancy, Empty, Distance
  <2>5. Wakeup' /\ Clock'
    BY DEF Wakeup, Clock, Pushing, Quiet, Empty
  <2> QED
    BY <2>2, <2>3, <2>4, <2>5
<1>2. CASE RxLock(d)
  <2> USE <1>2 DEF RxLock, ring
  <2>1. TypeOK'
    OBVIOUS
  <2>2. Exclusion'
    BY RingAssumption DEF Exclusion
  <2>3. Occupancy'
    BY DEF Occupancy, Empty, Distance
  <2>4. Wakeup' /\ Clock'
    BY DEF Wakeup, Clock, Pushing, Quiet, Empty
  <2> QED
    BY <2>1, <2>2, <2>3, <2>4
<1>3. CASE RxSignal(d)
  <2> USE <1>3 DEF RxSignal, ring
  <2>1. TypeOK'
    BY DEF Empty
  <2>2. Exclusion'
    BY DEF Exclusion
  <2>3. Occupancy'
    BY DEF Occupancy, Empty, Distance
  <2>4. Wakeup'
    BY DEF Wakeup, Pushing, Empty
  <2>5. Clock'
    BY DEF Clock, Pushing, Quiet, Empty
  <2> QED
    BY <2>1, <2>2, <2>3, <2>4, <2>5
<1>4. CASE RxPush(d)
  <2> USE <1>4 DEF RxPush, Trimmed
  <2>1. /\ head' \in 0 .. Wrap-1 /\ tail' \in 0 .. Wrap-1
        /\ Distance(head', tail') <= N
        /\ head' # tail'
    BY Pushed DEF Occupancy
  <2>2. TypeOK'
    <3>1. head % N \in 0 .. N-1
      BY RingAssumption
    <3>2. Head(data[d]) \in Chars /\ Tail(data[d]) \in Seq(Chars)
      OBVIOUS
    <3>3. buffer' \in [0 .. N-1 -> Chars \union {NoChar}]
      BY <3>1, <3>2
    <3>4. data' \in [Devices -> Seq(Chars)]
      BY <3>2
    <3> QED
      BY <2>1, <3>3, <3>4
  <2>3. Exclusion'
    BY DEF Exclusion
  <2>4. Occupancy'
    BY <2>1 DEF Occupancy, Empty, Distance, Exclusion
  <2>5. Wakeup'
    BY DEF Wakeup, Pushing
  <2>6. Clock'
    BY <2>1 DEF Clock, Pushing, Quiet, Empty
  <2> QED
    BY <2>2, <2>3, <2>4, <2>5, <2>6
<1>5. CASE RxUnlock(d)
  <2> USE <1>5 DEF RxUnlock, ring
  <2>1. ~Empty
    BY DEF Occupancy
  <2>2. TypeOK'
    OBVIOUS
  <2>3. Exclusion'
    BY RingAssumption DEF Exclusion
  <2>4. Occupancy'
    BY DEF Occupancy, Empty, Distance
  <2>5. Wakeup' /\ Clock'
    BY <2>1 DEF Wakeup, Clock, Pushing, Quiet, Empty
  <2> QED
    BY <2>2, <2>3, <2>4, <2>5
<1> QED
  BY <1>1, <1>2, <1>3, <1>4, <1>5 DEF RxStep

\* The steps of retarget_getc.
LEMMA StepGetc ==
  ASSUME IInv, GetcCall \/ GetcStep
  PROVE  IInv'
<1> USE DEF IInv, TypeOK, GetcPlaces
<1>1. CASE GetcCall
  <2> USE <1>1 DEF GetcCall, ring, rx
  <2>1. TypeOK' /\ Exclusion' /\ Occupancy'
    BY DEF Exclusion, Occupancy, Empty, Distance
  <2>2. Wakeup' /\ Clock'
    BY DEF Wakeup, Clock, Pushing, Quiet, Empty
  <2> QED
    BY <2>1, <2>2
<1>2. CASE GetcEmpty
  <2> USE <1>2 DEF GetcEmpty, ring, rx
  <2>1. TypeOK' /\ Exclusion' /\ Occupancy'
    BY DEF Exclusion, Occupancy, Empty, Distance
  <2>2. ~Pushing
    BY RingAssumption DEF Pushing, Exclusion
  <2>3. Wakeup' /\ Clock'
    BY <2>2 DEF Wakeup, Clock, Pushing, Quiet, Empty
  <2> QED
    BY <2>1, <2>3
<1>3. CASE GetcFound
  <2> USE <1>3 DEF GetcFound, ring, rx
  <2>1. TypeOK' /\ Occupancy'
    BY DEF Occupancy, Empty, Distance
  <2>2. Exclusion'
    BY RingAssumption DEF Exclusion
  <2>3. Wakeup' /\ Clock'
    BY DEF Wakeup, Clock, Pushing, Quiet, Empty
  <2> QED
    BY <2>1, <2>2, <2>3
<1>4. CASE GetcSignalled
  <2> USE <1>4 DEF GetcSignalled, ring, rx
  <2>1. TypeOK' /\ Exclusion' /\ Occupancy'
    BY DEF Exclusion, Occupancy, Empty, Distance
  <2>2. Wakeup' /\ Clock'
    BY DEF Wakeup, Clock, Pushing, Quiet, Empty
  <2> QED
    BY <2>1, <2>2
<1>5. CASE GetcTimeout
  <2> USE <1>5 DEF GetcTimeout, ring, rx
  <2>1. TypeOK' /\ Exclusion' /\ Occupancy'
    BY DEF Exclusion, Occupancy, Empty, Distance
  <2>2. Wakeup' /\ Clock'
    BY DEF Wakeup, Clock, Pushing, Quiet, Empty
  <2> QED
    BY <2>1, <2>2
<1>6. CASE GetcCount
  <2> USE <1>6 DEF GetcCount, ring, rx
  <2>1. TypeOK' /\ Exclusion' /\ Occupancy'
    BY DEF Exclusion, Occupancy, Empty, Distance
  <2>2. ~Pushing
    BY RingAssumption DEF Pushing, Exclusion
  <2>3. Wakeup' /\ Clock'
    BY <2>2 DEF Wakeup, Clock, Pushing, Quiet, Empty
  <2> QED
    BY <2>1, <2>3
<1>7. CASE GetcTake
  <2> USE <1>7 DEF GetcTake, rx
  <2>1. ~Empty /\ mutex = "getc"
    BY DEF Occupancy, Exclusion
  <2>2. tail' \in 0 .. Wrap-1 /\ Distance(head, tail') <= N
    BY <2>1, Taken DEF Occupancy, Empty
  <2>3. tail % N \in 0 .. N-1
    BY RingAssumption
  <2>4. TypeOK'
    BY <2>2, <2>3
  <2>5. \A d \in Devices : rxpc[d] \notin {"test", "push"} /\ d # "free"
    BY <2>1, RingAssumption DEF Exclusion
  <2>6. Exclusion'
    BY <2>5 DEF Exclusion
  <2>7. Occupancy'
    <3>1. Distance(head', tail') <= N
      BY <2>2 DEF Distance
    <3> QED
      BY <2>5, <3>1 DEF Occupancy
  <2>8. Wakeup' /\ Clock'
    BY DEF Wakeup, Clock
  <2> QED
    BY <2>4, <2>6, <2>7, <2>8
<1>8. CASE GetcReturn
  <2> USE <1>8 DEF GetcReturn, ring, rx
  <2>1. TypeOK' /\ Exclusion' /\ Occupancy'
    BY DEF Exclusion, Occupancy, Empty, Distance
  <2>2. Wakeup' /\ Clock'
    BY DEF Wakeup, Clock, Pushing, Quiet, Empty
  <2> QED
    BY <2>1, <2>2
<1> QED
  BY <1>1, <1>2, <1>3, <1>4, <1>5, <1>6, <1>7, <1>8 DEF GetcStep

LEMMA StepIInv == IInv /\ [Next]_vars => IInv'
<1> SUFFICES ASSUME IInv, [Next]_vars PROVE IInv'
  OBVIOUS
<1>1. CASE \E d \in Devices :
             RxStep(d) \/ \E batch \in Batches(d) : RxRead(d, batch)
  BY <1>1, StepRx
<1>2. CASE GetcCall \/ GetcStep
  BY <1>2, StepGetc
<1>3. ASSUME NEW t \in Targets, Retarget(t) PROVE IInv'
  <2> USE <1>3 DEF Retarget, ring, rx, IInv
  <2>1. TypeOK' /\ Exclusion' /\ Occupancy'
    BY DEF TypeOK, Exclusion, Occupancy, Empty, Distance
  <2>2. Wakeup' /\ Clock'
    BY DEF Wakeup, Clock, Pushing, Quiet, Empty
  <2> QED
    BY <2>1, <2>2
<1>4. CASE UNCHANGED vars
  <2> USE <1>4 DEF vars, IInv
  <2>1. TypeOK' /\ Exclusion' /\ Occupancy'
    BY DEF TypeOK, Exclusion, Occupancy, Empty, Distance
  <2>2. Wakeup' /\ Clock'
    BY DEF Wakeup, Clock, Pushing, Quiet, Empty
  <2> QED
    BY <2>1, <2>2
<1> QED
  BY <1>1, <1>2, <1>3, <1>4 DEF Next

THEOREM Inductive == Spec => []IInv
<1>1. Init => IInv
  BY InitIInv
<1>2. IInv /\ [Next]_vars => IInv'
  BY StepIInv
<1> QED
  BY <1>1, <1>2, PTL DEF Spec

(***************************************************************************)
(* Type correctness, for every ring size, counter width and device set.    *)
(***************************************************************************)
THEOREM TypeCorrect == Spec => []TypeOK
<1>1. IInv => TypeOK
  BY DEF IInv
<1> QED
  BY <1>1, Inductive, PTL

(***************************************************************************)
(* retarget_getc never sleeps on bytes without a post to wake it: the      *)
(* one-second time-out is not needed for the console to answer.            *)
(***************************************************************************)
THEOREM NobodyOversleeps == Spec => []NoLostWakeup
<1>1. IInv => NoLostWakeup
  BY DEF IInv, Wakeup, NoLostWakeup
<1> QED
  BY <1>1, Inductive, PTL

(***************************************************************************)
(* A stale post makes the inactivity clock of retarget_getc run ahead of   *)
(* the real seconds by one at most, whatever the bytes did meanwhile.      *)
(***************************************************************************)
THEOREM IdleClockIsRight == Spec => []IdleClock
<1>1. IInv => IdleClock
  BY DEF IInv, Clock, IdleClock
<1> QED
  BY <1>1, Inductive, PTL
-----------------------------------------------------------------------------
(***************************************************************************)
(* The ring implements the queue.  The counters wrap at a multiple of N,   *)
(* so a place in the buffer is that of the counter before the wrap.        *)
(***************************************************************************)
LEMMA Product ==
  ASSUME NEW a \in Nat, NEW b \in Nat
  PROVE  a * b \in Nat
OBVIOUS

\* Quotient and remainder are unique.
LEMMA RemainderIs ==
  ASSUME NEW m \in Nat \ {0}, NEW a \in Nat, NEW q \in Int,
         NEW r \in 0 .. m - 1, a = m * q + r
  PROVE  a % m = r
<1> DEFINE p == a \div m
           s == a % m
<1>1. s \in 0 .. m - 1 /\ p \in Int /\ a = m * p + s
  OBVIOUS
<1> HIDE DEF p, s
<1>2. ~(p > q)
  <2> SUFFICES ASSUME p > q PROVE FALSE
    OBVIOUS
  <2>1. m * (p - q - 1) \in Nat
    <3>1. p - q - 1 \in Nat
      BY <1>1
    <3> QED
      BY <3>1, Product
  <2>2. m * (p - q - 1) = m * p - m * q - m
    BY <1>1
  <2> QED
    BY <1>1, <2>1, <2>2
<1>3. ~(q > p)
  <2> SUFFICES ASSUME q > p PROVE FALSE
    OBVIOUS
  <2>1. m * (q - p - 1) \in Nat
    <3>1. q - p - 1 \in Nat
      BY <1>1
    <3> QED
      BY <3>1, Product
  <2>2. m * (q - p - 1) = m * q - m * p - m
    BY <1>1
  <2> QED
    BY <1>1, <2>1, <2>2
<1>4. p = q
  BY <1>1, <1>2, <1>3
<1>5. s = r
  BY <1>1, <1>4
<1> QED
  BY <1>5 DEF s

LEMMA Turn ==
  ASSUME NEW m \in Nat \ {0}, NEW k \in Nat, NEW a \in Nat
  PROVE  (m * k + a) % m = a % m
<1> DEFINE p == a \div m
           s == a % m
<1>1. s \in 0 .. m - 1 /\ p \in Int /\ a = m * p + s
  OBVIOUS
<1> HIDE DEF p, s
<1>2. m * k + a = m * (k + p) + s
  BY <1>1
<1>3. m * k + a \in Nat
  BY Product
<1>4. (m * k + a) % m = s
  BY <1>1, <1>2, <1>3, RemainderIs
<1> QED
  BY <1>4 DEF s

\* A place is the same before and after the wrap.
LEMMA Wrapped ==
  ASSUME NEW a \in Nat
  PROVE  (Wrap + a) % N = a % N
<1>1. N \in Nat \ {0} /\ Wrap \in Nat /\ Wrap % N = 0
  BY RingAssumption
<1> DEFINE k == Wrap \div N
<1>2. k \in Nat /\ Wrap = N * k
  BY <1>1
<1> HIDE DEF k
<1> QED
  BY <1>1, <1>2, Turn

\* A full turn later it is the same place again.
LEMMA Round ==
  ASSUME NEW a \in Nat
  PROVE  (a + N) % N = a % N
<1>1. N \in Nat \ {0}
  BY RingAssumption
<1>2. (N * 1 + a) % N = a % N
  BY <1>1, Turn
<1>3. a + N = N * 1 + a
  BY <1>1
<1> QED
  BY <1>2, <1>3

\* Within a turn the places are different.
LEMMA Distinct ==
  ASSUME NEW a \in Nat, NEW k \in 1 .. N - 1
  PROVE  (a + k) % N # a % N
<1>1. N \in Nat \ {0}
  BY RingAssumption
<1> DEFINE p == a \div N
           s == a % N
<1>2. s \in 0 .. N - 1 /\ p \in Int /\ a = N * p + s
  BY <1>1
<1> HIDE DEF p, s
<1>3. CASE s + k < N
  <2>1. (a + k) % N = s + k
    <3>1. a + k = N * p + (s + k) /\ s + k \in 0 .. N - 1 /\ a + k \in Nat
      BY <1>1, <1>2, <1>3
    <3> QED
      BY <1>1, <1>2, <3>1, RemainderIs
  <2> QED
    BY <1>1, <1>2, <2>1 DEF s
<1>4. CASE s + k >= N
  <2>1. (a + k) % N = s + k - N
    <3>1. /\ a + k = N * (p + 1) + (s + k - N)
          /\ s + k - N \in 0 .. N - 1 /\ a + k \in Nat /\ p + 1 \in Int
      BY <1>1, <1>2, <1>4
    <3> QED
      BY <1>1, <3>1, RemainderIs
  <2> QED
    BY <1>1, <1>2, <2>1 DEF s
<1> QED
  BY <1>1, <1>2, <1>3, <1>4

\* The place a counter of the ring stands for, k bytes further on.
LEMMA Further ==
  ASSUME NEW x \in 0 .. Wrap-1, NEW k \in Nat
  PROVE  (((x + 1) % Wrap) + k) % N = (x + k + 1) % N
<1>0. Wrap \in Nat
  BY RingAssumption
<1>1. CASE x + 1 < Wrap
  <2>1. (x + 1) % Wrap = x + 1
    BY <1>1, Counters
  <2>2. x + 1 + k = x + k + 1
    BY <1>0
  <2> QED
    BY <2>1, <2>2
<1>2. CASE x + 1 >= Wrap
  <2>1. (x + 1) % Wrap = 0
    <3>1. ~(x + 1 < Wrap)
      BY <1>0, <1>2
    <3> QED
      BY <3>1, Counters, Zenon
  <2>2. x + k + 1 = Wrap + k /\ 0 + k = k
    BY <1>0, <1>2
  <2> QED
    BY <2>1, <2>2, Wrapped
<1> QED
  BY <1>0, <1>1, <1>2

\* The head is as many places beyond the tail as there are bytes.
LEMMA HeadBeyondTail ==
  ASSUME NEW h \in 0 .. Wrap-1, NEW t \in 0 .. Wrap-1
  PROVE  /\ Distance(h, t) \in Nat
         /\ (t + Distance(h, t)) % N = h % N
<1>0. Wrap \in Nat
  BY RingAssumption
<1>1. CASE h < t
  <2>1. Distance(h, t) = h + Wrap - t
    BY <1>1, Counters
  <2>2. t + (h + Wrap - t) = Wrap + h /\ h + Wrap - t \in Nat
    BY <1>0
  <2> QED
    BY <2>1, <2>2, Wrapped
<1>2. CASE h >= t
  <2>1. Distance(h, t) = h - t
    BY <1>0, <1>2, Counters
  <2>2. t + (h - t) = h /\ h - t \in Nat
    BY <1>0, <1>2
  <2> QED
    BY <2>1, <2>2
<1> QED
  BY <1>0, <1>1, <1>2

\* Taking a byte.
LEMMA DistanceTaken ==
  ASSUME NEW h \in 0 .. Wrap-1, NEW t \in 0 .. Wrap-1, h # t
  PROVE  /\ (t + 1) % Wrap \in 0 .. Wrap-1
         /\ Distance(h, (t + 1) % Wrap) = Distance(h, t) - 1
<1> DEFINE Gap(x, y) == IF x < y THEN x + Wrap - y ELSE x - y
           u == (t + 1) % Wrap
<1>0. Wrap \in Nat
  BY RingAssumption
<1>1. u = IF t + 1 < Wrap THEN t + 1 ELSE 0
  BY Counters, Zenon
<1>2. u \in 0 .. Wrap-1
  BY <1>0, <1>1
<1>3. Distance(h, t) = Gap(h, t) /\ Distance(h, u) = Gap(h, u)
  BY <1>2, Counters, Zenon
<1>4. Gap(h, u) = Gap(h, t) - 1
  <2> HIDE DEF u
  <2> QED
    BY <1>0, <1>1
<1> QED
  BY <1>2, <1>3, <1>4, Zenon

\* Pushing a byte: a full ring keeps its number of bytes.
LEMMA DistancePushed ==
  ASSUME NEW h \in 0 .. Wrap-1, NEW t \in 0 .. Wrap-1, Distance(h, t) <= N,
         NEW g, g = (h + 1) % Wrap,
         NEW u, u = IF Distance(g, t) > N THEN Distance(g, N) ELSE t
  PROVE  /\ Distance(h, t) < N => u = t /\ Distance(g, u) = Distance(h, t) + 1
         /\ Distance(h, t) = N => u = (t + 1) % Wrap /\ Distance(g, u) = N
<1> DEFINE Gap(x, y) == IF x < y THEN x + Wrap - y ELSE x - y
<1>0. N \in Nat \ {0} /\ Wrap \in Nat /\ N + 1 < Wrap
  BY RingAssumption
<1>1. g = IF h + 1 < Wrap THEN h + 1 ELSE 0
  BY Counters, Zenon
<1>2. g \in 0 .. Wrap-1 /\ N \in 0 .. Wrap-1
  BY <1>0, <1>1
<1>3. /\ Distance(h, t) = Gap(h, t) /\ Distance(g, t) = Gap(g, t)
      /\ Distance(g, N) = Gap(g, N)
  BY <1>2, Counters, Zenon
<1>4. Gap(h, t) <= N /\ u = IF Gap(g, t) > N THEN Gap(g, N) ELSE t
  BY <1>3, Zenon
<1>5. u \in 0 .. Wrap-1
  BY <1>0, <1>2, <1>4
<1>6. Distance(g, u) = Gap(g, u)
  BY <1>2, <1>5, Counters, Zenon
<1>7. (t + 1) % Wrap = IF t + 1 < Wrap THEN t + 1 ELSE 0
  BY Counters, Zenon
<1> DEFINE v == (t + 1) % Wrap
<1>8. v = IF t + 1 < Wrap THEN t + 1 ELSE 0
  BY <1>7, Zenon
<1> HIDE DEF v
<1>9. /\ Gap(h, t) < N => u = t /\ Gap(g, u) = Gap(h, t) + 1
      /\ Gap(h, t) = N => u = v /\ Gap(g, u) = N
  BY <1>0, <1>1, <1>4, <1>8
<1>10. /\ Distance(h, t) < N => u = t /\ Distance(g, u) = Distance(h, t) + 1
       /\ Distance(h, t) = N => u = v /\ Distance(g, u) = N
  BY <1>3, <1>6, <1>9, Zenon
<1> QED
  BY <1>10, Zenon DEF v

\* The queue of a ring.
Contents(b, h, t) == [i \in 1 .. Distance(h, t) |-> b[(t + i - 1) % N]]

Buffers == [0 .. N-1 -> Chars \union {NoChar}]

LEMMA ContentsIsQueue ==
  ASSUME NEW b \in Buffers, NEW h \in 0 .. Wrap-1, NEW t \in 0 .. Wrap-1
  PROVE  /\ Contents(b, h, t) \in Seq(Chars \union {NoChar})
         /\ Len(Contents(b, h, t)) = Distance(h, t)
         /\ \A i \in 1 .. Distance(h, t) :
              Contents(b, h, t)[i] = b[(t + i - 1) % N]
<1> DEFINE n == Distance(h, t)
<1>1. n \in Nat
  BY HeadBeyondTail
<1> HIDE DEF n
<1>2. \A i \in 1 .. n : b[(t + i - 1) % N] \in Chars \union {NoChar}
  <2> SUFFICES ASSUME NEW i \in 1 .. n
               PROVE  b[(t + i - 1) % N] \in Chars \union {NoChar}
    OBVIOUS
  <2>1. N \in Nat \ {0} /\ Wrap \in Nat
    BY RingAssumption
  <2>2. t + i - 1 \in Nat
    BY <1>1, <2>1
  <2>3. (t + i - 1) % N \in 0 .. N-1
    BY <2>1, <2>2
  <2> QED
    BY <2>3 DEF Buffers
<1> DEFINE s == [i \in 1 .. n |-> b[(t + i - 1) % N]]
<1>3. s \in [1 .. n -> Chars \union {NoChar}]
  BY <1>2
<1>4. s \in Seq(Chars \union {NoChar}) /\ Len(s) = n
  <2> HIDE DEF s
  <2> QED
    BY <1>1, <1>3
<1>5. \A i \in 1 .. n : s[i] = b[(t + i - 1) % N]
  OBVIOUS
<1>6. Contents(b, h, t) = s
  BY DEF Contents, n
<1> HIDE DEF s
<1> QED
  BY <1>4, <1>5, <1>6 DEF n

\* Taking a byte is the delivery of the oldest.
LEMMA TakeDelivers ==
  ASSUME NEW b \in Buffers, NEW h \in 0 .. Wrap-1, NEW t \in 0 .. Wrap-1,
         h # t
  PROVE  /\ Contents(b, h, t) # <<>>
         /\ Head(Contents(b, h, t)) = b[t % N]
         /\ Contents(b, h, (t + 1) % Wrap) = Tail(Contents(b, h, t))
<1> DEFINE u == (t + 1) % Wrap
           n == Distance(h, t)
           old == Contents(b, h, t)
           new == Contents(b, h, u)
<1>0. N \in Nat \ {0} /\ Wrap \in Nat /\ t \in Nat
  BY RingAssumption
<1>1. u \in 0 .. Wrap-1 /\ Distance(h, u) = n - 1
  BY DistanceTaken
<1>2. n \in Nat /\ Distance(h, u) \in Nat
  BY <1>1, HeadBeyondTail
<1>3. /\ old \in Seq(Chars \union {NoChar}) /\ Len(old) = n
      /\ \A i \in 1 .. n : old[i] = b[(t + i - 1) % N]
  BY ContentsIsQueue
<1>4. /\ new \in Seq(Chars \union {NoChar}) /\ Len(new) = n - 1
      /\ \A i \in 1 .. n - 1 : new[i] = b[(u + i - 1) % N]
  BY <1>1, ContentsIsQueue
<1>5. \A k \in Nat : (u + k) % N = (t + k + 1) % N
  BY Further
<1>6. n >= 1
  BY <1>1, <1>2
<1> HIDE DEF u, n, old, new
<1>7. old # <<>> /\ Head(old) = old[1]
  BY <1>3, <1>6
<1>8. Head(old) = b[t % N]
  <2>1. old[1] = b[(t + 1 - 1) % N]
    BY <1>2, <1>3, <1>6
  <2>2. t + 1 - 1 = t
    BY <1>0
  <2> QED
    BY <1>7, <2>1, <2>2
<1>9. \A i \in 1 .. n - 1 : new[i] = Tail(old)[i]
  <2> SUFFICES ASSUME NEW i \in 1 .. n - 1 PROVE new[i] = Tail(old)[i]
    OBVIOUS
  <2>1. i - 1 \in Nat /\ i + 1 \in 1 .. n
    BY <1>2
  <2>2. u + i - 1 = u + (i - 1) /\ t + (i - 1) + 1 = t + (i + 1) - 1
    BY <1>0, <1>1, <2>1
  <2>3. (u + (i - 1)) % N = (t + (i - 1) + 1) % N
    BY <1>5, <2>1
  <2>4. new[i] = old[i + 1]
    BY <1>3, <1>4, <2>1, <2>2, <2>3
  <2>5. Tail(old)[i] = old[i + 1]
    BY <1>3, <1>7, HeadTailProperties
  <2> QED
    BY <2>4, <2>5
<1>10. new = Tail(old)
  <2>1. Tail(old) \in Seq(Chars \union {NoChar}) /\ Len(Tail(old)) = n - 1
    BY <1>3, <1>7, HeadTailProperties
  <2> QED
    BY <1>4, <1>9, <2>1, SeqEqual
<1> QED
  BY <1>7, <1>8, <1>10 DEF u, old, new

\* A byte written at the head is not read before those in the ring.
LEMMA HeadIsFree ==
  ASSUME NEW h \in 0 .. Wrap-1, NEW t \in 0 .. Wrap-1, NEW k \in Nat,
         k < Distance(h, t), Distance(h, t) - k < N
  PROVE  (t + k) % N # h % N
<1>0. N \in Nat \ {0} /\ Wrap \in Nat
  BY RingAssumption
<1> DEFINE n == Distance(h, t)
<1>1. n \in Nat /\ (t + n) % N = h % N
  BY HeadBeyondTail
<1>2. k < n /\ n - k < N
  OBVIOUS
<1> HIDE DEF n
<1>3. t + k \in Nat /\ n - k \in 1 .. N - 1 /\ t + k + (n - k) = t + n
  BY <1>0, <1>1, <1>2
<1>4. (t + k + (n - k)) % N # (t + k) % N
  BY <1>3, Distinct
<1> QED
  BY <1>1, <1>3, <1>4

\* Pushing a byte is its arrival, with the loss of the oldest if need be.
LEMMA PushArrives ==
  ASSUME NEW b \in Buffers, NEW h \in 0 .. Wrap-1, NEW t \in 0 .. Wrap-1,
         Distance(h, t) <= N, NEW c \in Chars,
         NEW g \in 0 .. Wrap-1, NEW u \in 0 .. Wrap-1,
         Distance(h, t) < N => u = t /\ Distance(g, u) = Distance(h, t) + 1,
         Distance(h, t) = N => u = (t + 1) % Wrap /\ Distance(g, u) = N,
         NEW a \in Buffers, a[h % N] = c,
         \A p \in 0 .. N-1 : p # h % N => a[p] = b[p]
  PROVE  Contents(a, g, u) =
           Append(IF Len(Contents(b, h, t)) = N
                  THEN Tail(Contents(b, h, t)) ELSE Contents(b, h, t), c)
<1> DEFINE n == Distance(h, t)
           old == Contents(b, h, t)
           new == Contents(a, g, u)
           S == Chars \union {NoChar}
<1>0. N \in Nat \ {0} /\ Wrap \in Nat
  BY RingAssumption
<1>2. a[h % N] = c /\ \A p \in 0 .. N-1 : p # h % N => a[p] = b[p]
  OBVIOUS
<1>4. n \in Nat /\ (t + n) % N = h % N /\ n <= N
  BY HeadBeyondTail
<1>5. /\ old \in Seq(S) /\ Len(old) = n
      /\ \A i \in 1 .. n : old[i] = b[(t + i - 1) % N]
  BY ContentsIsQueue
<1>6. /\ new \in Seq(S) /\ Len(new) = Distance(g, u)
      /\ \A i \in 1 .. Distance(g, u) : new[i] = a[(u + i - 1) % N]
  BY ContentsIsQueue
<1>7. /\ n < N => u = t /\ Distance(g, u) = n + 1
      /\ n = N => u = (t + 1) % Wrap /\ Distance(g, u) = N
  OBVIOUS
<1>8. \A k \in Nat : k < n /\ n - k < N => (t + k) % N # h % N
  BY HeadIsFree
<1>9. \A k \in Nat : (t + k) % N \in 0 .. N-1
  <2> SUFFICES ASSUME NEW k \in Nat PROVE (t + k) % N \in 0 .. N-1
    OBVIOUS
  <2>1. t + k \in Nat
    BY <1>0
  <2> QED
    BY <1>0, <2>1
<1>10. c \in S
  OBVIOUS
<1> HIDE DEF n, old, new, S
<1>11. CASE n < N
  <2>1. u = t /\ Distance(g, u) = n + 1
    BY <1>7, <1>11
  <2>2. \A i \in 1 .. n : new[i] = old[i]
    <3> SUFFICES ASSUME NEW i \in 1 .. n PROVE new[i] = old[i]
      OBVIOUS
    <3>1. i - 1 \in Nat /\ i - 1 < n /\ n - (i - 1) < N /\ i \in 1 .. n + 1
      BY <1>0, <1>4, <1>11
    <3>2. t + i - 1 = t + (i - 1)
      BY <1>0, <3>1
    <3>3. a[(t + (i - 1)) % N] = b[(t + (i - 1)) % N]
      BY <1>2, <1>8, <1>9, <3>1
    <3> QED
      BY <1>5, <1>6, <2>1, <3>1, <3>2, <3>3
  <2>3. new[n + 1] = c
    <3>1. t + (n + 1) - 1 = t + n /\ n + 1 \in 1 .. n + 1
      BY <1>0, <1>4
    <3> QED
      BY <1>2, <1>4, <1>6, <2>1, <3>1
  <2>4. new = Append(old, c)
    <3>1. /\ Append(old, c) \in Seq(S) /\ Len(Append(old, c)) = n + 1
          /\ \A i \in 1 .. n : Append(old, c)[i] = old[i]
          /\ Append(old, c)[n + 1] = c
      BY <1>5, <1>10, AppendProperties
    <3>2. \A i \in 1 .. n + 1 : new[i] = Append(old, c)[i]
      BY <1>4, <2>2, <2>3, <3>1
    <3> QED
      BY <1>6, <2>1, <3>1, <3>2, SeqEqual
  <2> QED
    <3>1. Len(old) # N
      BY <1>0, <1>4, <1>5, <1>11
    <3> QED
      BY <2>4, <3>1, Zenon DEF old, new
<1>12. CASE n = N
  <2>1. u = (t + 1) % Wrap /\ Distance(g, u) = N
    BY <1>7, <1>12
  <2>2. \A k \in Nat : (u + k) % N = (t + k + 1) % N
    BY <2>1, Further
  <2>3. old # <<>>
    BY <1>0, <1>5, <1>12
  <2>4. /\ Tail(old) \in Seq(S) /\ Len(Tail(old)) = N - 1
        /\ \A i \in 1 .. N - 1 : Tail(old)[i] = old[i + 1]
    BY <1>5, <1>12, <2>3, HeadTailProperties
  <2>5. \A i \in 1 .. N : new[i] = a[(t + i) % N]
    <3> SUFFICES ASSUME NEW i \in 1 .. N PROVE new[i] = a[(t + i) % N]
      OBVIOUS
    <3>1. i - 1 \in Nat
      BY <1>0
    <3>2. u + i - 1 = u + (i - 1) /\ t + (i - 1) + 1 = t + i
      BY <1>0, <3>1
    <3>3. (u + (i - 1)) % N = (t + (i - 1) + 1) % N
      BY <2>2, <3>1
    <3> QED
      BY <1>6, <2>1, <3>2, <3>3
  <2>6. \A i \in 1 .. N - 1 : new[i] = Tail(old)[i]
    <3> SUFFICES ASSUME NEW i \in 1 .. N - 1 PROVE new[i] = Tail(old)[i]
      OBVIOUS
    <3>1. i \in Nat /\ i < n /\ n - i < N /\ i \in 1 .. N /\ i + 1 \in 1 .. n
      BY <1>0, <1>12
    <3>2. a[(t + i) % N] = b[(t + i) % N]
      BY <1>2, <1>8, <1>9, <3>1
    <3>3. t + (i + 1) - 1 = t + i
      BY <1>0, <3>1
    <3> QED
      BY <1>5, <2>4, <2>5, <3>1, <3>2, <3>3
  <2>7. new[N] = c
    <3>1. N \in 1 .. N
      BY <1>0
    <3> QED
      BY <1>2, <1>4, <1>12, <2>5, <3>1
  <2>8. new = Append(Tail(old), c)
    <3>1. /\ Append(Tail(old), c) \in Seq(S)
          /\ Len(Append(Tail(old), c)) = N - 1 + 1
          /\ \A i \in 1 .. N - 1 : Append(Tail(old), c)[i] = Tail(old)[i]
          /\ Append(Tail(old), c)[N - 1 + 1] = c
      BY <1>10, <2>4, AppendProperties
    <3>2. N - 1 + 1 = N
      BY <1>0
    <3>3. \A i \in 1 .. N : new[i] = Append(Tail(old), c)[i]
      BY <1>0, <2>6, <2>7, <3>1, <3>2
    <3> QED
      BY <1>6, <2>1, <3>1, <3>2, <3>3, SeqEqual
  <2> QED
    BY <1>5, <1>12, <2>8 DEF old, new
<1> QED
  <2>1. n < N \/ n = N
    BY <1>0, <1>4
  <2> QED
    BY <1>11, <1>12, <2>1, Zenon

LEMMA QueueIsContents == queue = Contents(buffer, head, tail)
BY DEF queue, Contents

LEMMA StepIsQueue ==
  IInv /\ [Next]_vars => [Abstract!Next]_<<queue, ch>>
<1> SUFFICES ASSUME IInv, [Next]_vars PROVE [Abstract!Next]_<<queue, ch>>
  OBVIOUS
<1>1. /\ buffer \in Buffers /\ head \in 0 .. Wrap-1 /\ tail \in 0 .. Wrap-1
      /\ Distance(head, tail) <= N
  BY DEF IInv, TypeOK, Occupancy, Buffers
<1>2. UNCHANGED ring => UNCHANGED queue
  BY DEF ring, queue, Distance
<1>3. queue' = Contents(buffer', head', tail')
  BY DEF queue, Contents, Distance
<1>4. ASSUME NEW d \in Devices, RxPush(d) PROVE Abstract!Next
  <2> DEFINE c == Head(data[d])
  <2>1. c \in Chars
    BY <1>4 DEF RxPush, IInv, TypeOK
  <2>2. /\ buffer' = [buffer EXCEPT ![head % N] = c]
        /\ head' = (head + 1) % Wrap
        /\ tail' = IF Distance(head', tail) > N
                   THEN Distance(head', N) ELSE tail
        /\ ch' = ch
    BY <1>4 DEF RxPush, Trimmed
  <2> HIDE DEF c
  <2>3. queue' = Append(IF Len(queue) = N THEN Tail(queue) ELSE queue, c)
    <3>1. /\ head' \in 0 .. Wrap-1 /\ tail' \in 0 .. Wrap-1
      BY <1>1, <2>2, Pushed
    <3>2. /\ Distance(head, tail) < N =>
               /\ tail' = tail
               /\ Distance(head', tail') = Distance(head, tail) + 1
          /\ Distance(head, tail) = N =>
               tail' = (tail + 1) % Wrap /\ Distance(head', tail') = N
      BY <1>1, <2>2, DistancePushed
    <3>3. head % N \in 0 .. N-1
      BY <1>1, RingAssumption
    <3>4. /\ buffer' \in Buffers /\ buffer'[head % N] = c
          /\ \A p \in 0 .. N-1 : p # head % N => buffer'[p] = buffer[p]
      BY <1>1, <2>1, <2>2, <3>3 DEF Buffers
    <3>5. Contents(buffer', head', tail') =
            Append(IF Len(Contents(buffer, head, tail)) = N
                   THEN Tail(Contents(buffer, head, tail))
                   ELSE Contents(buffer, head, tail), c)
      BY <1>1, <2>1, <3>1, <3>4, <3>2, PushArrives
    <3> QED
      BY <1>3, <3>5, QueueIsContents, Zenon
  <2>4. Abstract!Arrive(c)
    BY <2>2, <2>3 DEF Abstract!Arrive, Abstract!Room
  <2> QED
    BY <2>1, <2>4 DEF Abstract!Next
<1>5. CASE GetcTake
  <2>1. head # tail
    BY <1>5 DEF GetcTake, IInv, Occupancy, Empty
  <2>2. /\ ch' = buffer[tail % N] /\ tail' = (tail + 1) % Wrap
        /\ UNCHANGED <<buffer, head>>
    BY <1>5 DEF GetcTake
  <2>3. /\ queue # <<>> /\ Head(queue) = buffer[tail % N]
        /\ Contents(buffer, head, tail') = Tail(queue)
    BY <1>1, <2>1, <2>2, TakeDelivers, QueueIsContents
  <2> QED
    BY <1>3, <2>2, <2>3 DEF Abstract!Next, Abstract!Deliver
<1>6. CASE UNCHANGED <<ring, ch>>
  BY <1>2, <1>6
<1>7. \/ \E d \in Devices : RxPush(d)
      \/ GetcTake
      \/ UNCHANGED <<ring, ch>>
  <2>1. ASSUME NEW d \in Devices,
               RxStep(d) \/ \E batch \in Batches(d) : RxRead(d, batch)
        PROVE  RxPush(d) \/ UNCHANGED <<ring, ch>>
    BY <2>1 DEF RxStep, RxRead, RxLock, RxSignal, RxUnlock, ring
  <2>2. CASE GetcCall \/ GetcStep
    BY <2>2
    DEF GetcCall, GetcStep, GetcEmpty, GetcFound, GetcSignalled, GetcTimeout,
        GetcCount, GetcReturn, ring
  <2>3. ASSUME NEW t \in Targets, Retarget(t) PROVE UNCHANGED <<ring, ch>>
    BY <2>3 DEF Retarget, ring
  <2>4. CASE UNCHANGED vars
    BY <2>4 DEF vars, ring
  <2> QED
    BY <2>1, <2>2, <2>3, <2>4 DEF Next
<1> QED
  BY <1>4, <1>5, <1>6, <1>7

LEMMA InitIsQueue == Init => Abstract!Init
<1> SUFFICES ASSUME Init PROVE Abstract!Init
  OBVIOUS
<1>1. 0 \in 0 .. Wrap-1
  BY RingAssumption
<1>2. Distance(0, 0) = 0
  BY <1>1, Counters
<1>3. queue = <<>>
  BY <1>2 DEF Init, queue
<1> QED
  BY <1>3 DEF Init, Abstract!Init

(***************************************************************************)
(* The ring of retarget.c is a queue that loses its oldest character when  *)
(* it is full, for every size, every width of its counters that is a       *)
(* multiple of the size, and any number of devices.                        *)
(***************************************************************************)
THEOREM RingIsQueue == Spec => IsDropOldest
<1>1. Init => Abstract!Init
  BY InitIsQueue
<1>2. IInv /\ [Next]_vars => [Abstract!Next]_<<queue, ch>>
  BY StepIsQueue
<1> QED
  BY <1>1, <1>2, Inductive, PTL DEF Spec, Abstract!Spec, IsDropOldest
=============================================================================
