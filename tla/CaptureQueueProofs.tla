------------------------- MODULE CaptureQueueProofs -------------------------
(***************************************************************************)
(* TLAPS proofs about CaptureQueue, for every ring size, word width, batch *)
(* size and number of pushes.  First arithmetic of remainders, then what   *)
(* advancing a wrapping cursor does to the queue the cursors describe,     *)
(* then the inductive invariant.                                           *)
(***************************************************************************)
EXTENDS CaptureQueue, FiniteSetTheorems, SequenceTheorems, TLAPS

-----------------------------------------------------------------------------
(* Arithmetic of % *)

\* Division with remainder.
LEMMA DivMod ==
    ASSUME NEW m \in Nat \ {0}, NEW x \in Int
    PROVE  /\ x \div m \in Int
           /\ x % m \in 0..(m-1)
           /\ x = m * (x \div m) + (x % m)
OBVIOUS

\* The remainder of a number at most one lap away from 0..m-1.
LEMMA ModWrap ==
    ASSUME NEW m \in Nat \ {0}, NEW x \in Int, x >= -m, x < 2*m
    PROVE  x % m = IF x < 0 THEN x + m ELSE IF x >= m THEN x - m ELSE x
OBVIOUS

\* The remainder is the only number in 0..m-1 a multiple of m away.
LEMMA ModUnique ==
    ASSUME NEW m \in Nat \ {0}, NEW x \in Int, NEW q \in Int,
           NEW r \in 0..(m-1), x = m*q + r
    PROVE  x % m = r
<1> DEFINE Q == x \div m
<1>1. Q \in Int /\ x % m \in 0..(m-1) /\ x = m * Q + (x % m)  BY DivMod
<1>2. m*(Q - q) = r - (x % m)  BY <1>1
<1>3. CASE Q = q  BY <1>1, <1>3
<1>4. CASE Q > q
  <2>1. Q - q >= 1  BY <1>4, <1>1
  <2>2. m*(Q-q) >= m  BY <2>1, <1>1
  <2> QED  BY <2>2, <1>1, <1>2
<1>5. CASE Q < q
  <2>1. Q - q <= -1  BY <1>5, <1>1
  <2>2. m*(Q-q) <= -m  BY <2>1, <1>1
  <2> QED  BY <2>2, <1>1, <1>2
<1> QED  BY <1>1, <1>3, <1>4, <1>5

\* A subtraction may be done before or after taking the remainder.
LEMMA ModShift ==
    ASSUME NEW m \in Nat \ {0}, NEW x \in Int, NEW k \in Int
    PROVE  (x - k) % m = ((x % m) - k) % m
<1> DEFINE q == x \div m
           e == (x % m) - k
           p == e \div m
<1>1. q \in Int /\ x % m \in 0..(m-1) /\ x = m * q + (x % m)  BY DivMod
<1>2. e \in Int  BY <1>1
<1>3. p \in Int /\ e % m \in 0..(m-1) /\ e = m * p + (e % m)  BY DivMod, <1>2
<1>4. x - k = m * q + m * p + (e % m)  BY <1>1, <1>3
<1>5. m * (q+p) = m * q + m * p  BY <1>1, <1>3
<1>6. x - k = m * (q+p) + (e % m)  BY <1>1, <1>3, <1>4, <1>5
<1> HIDE DEF q, p, e
<1>7. q + p \in Int /\ x - k \in Int  BY <1>1, <1>3
<1>8. (x - k) % m = e % m  BY <1>3, <1>6, <1>7, ModUnique
<1> QED  BY <1>8 DEF e

\* Whole laps do not change the remainder.
LEMMA ModLap ==
    ASSUME NEW m \in Nat \ {0}, NEW x \in Int, NEW k \in Int
    PROVE  (x + m * k) % m = x % m
<1> DEFINE q == x \div m
<1>1. q \in Int /\ x % m \in 0..(m-1) /\ x = m * q + (x % m)  BY DivMod
<1>2. m * (q+k) = m*q + m*k  BY <1>1
<1>3. x + m*k = m * (q+k) + (x % m)  BY <1>1, <1>2
<1> HIDE DEF q
<1>4. q + k \in Int /\ x + m*k \in Int  BY <1>1
<1> QED  BY <1>1, <1>3, <1>4, ModUnique

-----------------------------------------------------------------------------
(* Cursors.  h and t stand for head and tail. *)

Cursor == 0..(Word-1)

\* A word holds at least two laps of the ring.
LEMMA WordFact ==
    /\ Size \in Nat \ {0} /\ Laps \in Int
    /\ Word \in Nat \ {0} /\ Word >= 2 * Size /\ Word > Size /\ Size >= 1
BY QueueAssumption DEF Word

\* Storing a message lengthens the queue by one.
LEMMA HeadAdvance ==
    ASSUME NEW h \in Cursor, NEW t \in Cursor, (h - t) % Word < Size
    PROVE  /\ (h + 1) % Word \in Cursor
           /\ (((h + 1) % Word) - t) % Word = ((h - t) % Word) + 1
<1> USE DEF Cursor
<1>1. (h - t) % Word = IF h - t < 0 THEN h - t + Word ELSE h - t
  BY WordFact
<1>2. (h + 1) % Word = IF h + 1 >= Word THEN h + 1 - Word ELSE h + 1
  BY WordFact
<1>3. (h + 1) % Word \in Cursor  BY <1>2, WordFact
<1> DEFINE n == (h + 1) % Word
<1>4. (n - t) % Word = IF n - t < 0 THEN n - t + Word ELSE n - t
  BY <1>3, WordFact
<1>5. n = IF h + 1 >= Word THEN h + 1 - Word ELSE h + 1  BY <1>2
<1> HIDE DEF n
<1>6. (n - t) % Word = ((h - t) % Word) + 1  BY <1>1, <1>4, <1>5, WordFact
<1> QED  BY <1>3, <1>6 DEF n

\* Removing k messages shortens it by k.
LEMMA TailAdvance ==
    ASSUME NEW h \in Cursor, NEW t \in Cursor, NEW k \in Nat, k <= (h - t) % Word
    PROVE  /\ (t + k) % Word \in Cursor
           /\ (h - ((t + k) % Word)) % Word = ((h - t) % Word) - k
<1> USE DEF Cursor
<1>1. (h - t) % Word = IF h - t < 0 THEN h - t + Word ELSE h - t
  BY WordFact
<1>2. (t + k) % Word = IF t + k >= Word THEN t + k - Word ELSE t + k
  BY <1>1, WordFact
<1>3. (t + k) % Word \in Cursor  BY <1>1, <1>2, WordFact
<1> DEFINE n == (t + k) % Word
<1>4. (h - n) % Word = IF h - n < 0 THEN h - n + Word ELSE h - n
  BY <1>3, WordFact
<1> QED  BY <1>1, <1>2, <1>3, <1>4, WordFact

\* The distance of a slot from the tail when the tail moves k slots on.
LEMMA AheadAdvance ==
    ASSUME NEW t \in Cursor, NEW k \in 0..Size, NEW j \in 0..(Size-1)
    PROVE  /\ (j - t) % Size \in 0..(Size-1)
           /\ (j - ((t + k) % Word)) % Size =
                IF (j - t) % Size >= k THEN ((j - t) % Size) - k
                                       ELSE ((j - t) % Size) - k + Size
<1> USE DEF Cursor
<1>1. (t + k) % Word = IF t + k >= Word THEN t + k - Word ELSE t + k
  BY WordFact
<1> DEFINE d == (j - t) % Size
<1>2. d \in 0..(Size-1) /\ j - t \in Int  BY DivMod, WordFact, QueueAssumption
<1>3. ((j - t) - k) % Size = (d - k) % Size
  <2> DEFINE x == j - t
  <2>1. x \in Int /\ k \in Int  BY <1>2, WordFact
  <2> HIDE DEF x
  <2>2. (x - k) % Size = ((x % Size) - k) % Size  BY <2>1, ModShift, WordFact
  <2> QED  BY <2>2 DEF x
<1>4. (d - k) % Size = IF d >= k THEN d - k ELSE d - k + Size
  BY <1>2, QueueAssumption
<1>5. (j - ((t + k) % Word)) % Size = ((j - t) - k) % Size
  <2>1. CASE t + k < Word
    <3>1. j - ((t + k) % Word) = (j - t) - k  BY <1>1, <2>1, WordFact
    <3> QED  BY <3>1
  <2>2. CASE t + k >= Word
    <3>1. j - ((t + k) % Word) = ((j - t) - k) + Size * Laps
      BY <1>1, <2>2, WordFact DEF Word
    <3> DEFINE y == (j - t) - k
    <3>2. y \in Int  BY <1>2
    <3>3. (y + Size * Laps) % Size = y % Size
      <4> HIDE DEF y
      <4> QED  BY <3>2, ModLap, WordFact
    <3> QED  BY <3>1, <3>3
  <2> QED  BY <2>1, <2>2, WordFact
<1> QED  BY <1>2, <1>3, <1>4, <1>5

\* The i-th slot from the tail is at distance i.
LEMMA AheadOfSlot ==
    ASSUME NEW t \in Cursor, NEW i \in 0..(Size-1)
    PROVE  /\ (t + i) % Size \in 0..(Size-1)
           /\ (((t + i) % Size) - t) % Size = i
<1> USE DEF Cursor
<1>1. t + i \in Int /\ t \in Int  BY WordFact
<1>2. ((t + i) - t) % Size = (((t + i) % Size) - t) % Size
  BY <1>1, ModShift, WordFact
<1>3. (t + i) - t = i  BY <1>1
<1>4. i % Size = i  BY QueueAssumption
<1>5. (t + i) % Size \in 0..(Size-1)  BY <1>1, DivMod, QueueAssumption
<1> QED  BY <1>2, <1>3, <1>4, <1>5

\* A slot is determined by its distance from the tail.
LEMMA SlotOfAhead ==
    ASSUME NEW t \in Cursor, NEW j \in 0..(Size-1)
    PROVE  (t + ((j - t) % Size)) % Size = j
<1> USE DEF Cursor
<1>1. j - t \in Int /\ -t \in Int  BY WordFact
<1>2. ((j - t) - (-t)) % Size = (((j - t) % Size) - (-t)) % Size
  BY <1>1, ModShift, WordFact
<1>3. (j - t) - (-t) = j  BY <1>1, WordFact
<1>4. j % Size = j  BY QueueAssumption
<1>5. (j - t) % Size \in 0..(Size-1)  BY <1>1, DivMod, QueueAssumption
<1>6. ((j - t) % Size) - (-t) = t + ((j - t) % Size)  BY <1>5, WordFact
<1> QED  BY <1>2, <1>3, <1>4, <1>6

\* The slot under the head cursor is the first one past the queue.
LEMMA HeadSlot ==
    ASSUME NEW h \in Cursor, NEW t \in Cursor
    PROVE  h % Size = (t + ((h - t) % Word)) % Size
<1> USE DEF Cursor
<1>1. (h - t) % Word = IF h - t < 0 THEN h - t + Word ELSE h - t
  BY WordFact
<1>2. CASE h - t >= 0
  <2>1. t + ((h - t) % Word) = h  BY <1>1, <1>2, WordFact
  <2> QED  BY <2>1
<1>3. CASE h - t < 0
  <2>1. t + ((h - t) % Word) = h + Size * Laps  BY <1>1, <1>3, WordFact DEF Word
  <2>2. h \in Int  BY WordFact
  <2>3. (h + Size * Laps) % Size = h % Size  BY <2>2, ModLap, WordFact
  <2> QED  BY <2>1, <2>3
<1> QED  BY <1>2, <1>3, WordFact

-----------------------------------------------------------------------------
(* The inductive invariant.  RingIntegrity and ExactlyOnePlace need the     *)
(* types; WakeupPending and CleanShutdown need to know how far the two      *)
(* threads can be apart.                                                    *)

\* Where the threads can be, relative to each other.
Control ==
    /\ running => worker \notin {"none", "exited"}
    /\ (~running /\ main \in {"init", "start", "wire", "loop", "wake"}) => worker = "none"
    /\ (worker # "none" /\ main # "done") => evfd = "open"
    /\ main = "start" => evfd = "open"
    /\ main \in {"init", "start"} => worker = "none" /\ enqueued = 0
    /\ main \in {"stopwake", "join"} => ~running /\ worker # "none"
    /\ main \in {"close", "done"} => ~running /\ worker \in {"none", "exited"}
    /\ main = "done" => Used = 0
    /\ worker = "process" <=> batch # <<>>

\* What was handled precedes what is being handled.
HandledFirst == \A m \in handled : \A i \in DOMAIN batch : m < batch[i]

IndInv ==
    /\ TypeOK /\ RingIntegrity /\ ExactlyOnePlace /\ HandledFirst
    /\ Control /\ WakeupPending

\* Types of the derived quantities.
LEMMA DerivedTypes ==
    ASSUME TypeOK, RingIntegrity
    PROVE  /\ head \in Cursor /\ tail \in Cursor
           /\ Used \in 0..Size /\ Gone \in Nat /\ Gone = enqueued - Used
           /\ \A j \in 0..(Size-1) : Ahead(j) \in 0..(Size-1)
<1>1. head \in Cursor /\ tail \in Cursor  BY DEF TypeOK, Cursor
<1>2. head - tail \in Int  BY <1>1, WordFact DEF Cursor
<1>3. Used \in 0..(Word-1)  BY <1>2, WordFact, DivMod DEF Used
<1>4. Used \in 0..Size /\ Gone \in Nat
  BY <1>3, WordFact, QueueAssumption DEF RingIntegrity, Gone, TypeOK
<1>5. ASSUME NEW j \in 0..(Size-1)  PROVE Ahead(j) \in 0..(Size-1)
  <2>1. j - tail \in Int  BY <1>1, WordFact DEF Cursor
  <2> QED  BY <2>1, WordFact, DivMod DEF Ahead
<1> QED  BY <1>1, <1>4, <1>5 DEF Gone

\* The queued messages are the consecutive numbers from Gone + 1 on.
LEMMA QueuedAre ==
    ASSUME TypeOK, RingIntegrity, NEW i \in 1..Used
    PROVE  Queued[i] = Gone + i
<1>1. i - 1 \in 0..(Size-1) /\ i - 1 < Used /\ tail \in Cursor
  BY DerivedTypes, WordFact
<1> DEFINE s == (tail + (i - 1)) % Size
<1>2. s \in 0..(Size-1) /\ (s - tail) % Size = i - 1  BY <1>1, AheadOfSlot
<1>3. Ahead(s) = i - 1  BY <1>2 DEF Ahead
<1>4. slots[s] = Gone + 1 + (i - 1)  BY <1>1, <1>2, <1>3 DEF RingIntegrity
<1>5. (tail + i - 1) % Size = s  BY <1>1, WordFact DEF Cursor
<1>6. Queued[i] = slots[s]  BY <1>5 DEF Queued
<1> QED  BY <1>4, <1>6, DerivedTypes

\* A drain of k messages keeps the ring in order.
LEMMA RingDrain ==
    ASSUME TypeOK, RingIntegrity, NEW k \in Nat, k <= Used,
           head' = head, enqueued' = enqueued, tail' = (tail + k) % Word,
           slots' = [j \in 0..Size-1 |-> IF Ahead(j) < k THEN 0 ELSE slots[j]]
    PROVE  /\ tail' \in Cursor /\ Used' = Used - k /\ Gone' = Gone + k
           /\ RingIntegrity'
<1>1. /\ head \in Cursor /\ tail \in Cursor /\ Used \in 0..Size
      /\ Gone \in Nat /\ Gone = enqueued - Used /\ enqueued \in Nat
  BY DerivedTypes DEF TypeOK
<1>2. tail' \in Cursor /\ Used' = Used - k  BY <1>1, TailAdvance DEF Used
<1>3. Gone' = Gone + k  BY <1>1, <1>2 DEF Gone
<1>4. k \in 0..Size  BY <1>1, WordFact
<1>5. ASSUME NEW j \in 0..(Size-1)
      PROVE  slots'[j] = IF Ahead(j)' < Used' THEN Gone' + 1 + Ahead(j)' ELSE 0
  <2>1. Ahead(j) \in 0..(Size-1)  BY DerivedTypes
  <2>2. Ahead(j)' = IF Ahead(j) >= k THEN Ahead(j) - k ELSE Ahead(j) - k + Size
    BY <1>1, <1>4, AheadAdvance DEF Ahead
  <2>3. slots'[j] = IF Ahead(j) < k THEN 0 ELSE slots[j]  OBVIOUS
  <2>4. slots[j] = IF Ahead(j) < Used THEN Gone + 1 + Ahead(j) ELSE 0
    BY DEF RingIntegrity
  <2> QED  BY <1>1, <1>2, <1>3, <1>4, <2>1, <2>2, <2>3, <2>4, WordFact
<1>6. slots' = [j \in 0..Size-1 |->
                  IF Ahead(j)' < Used' THEN Gone' + 1 + Ahead(j)' ELSE 0]
  BY <1>5
<1> QED  BY <1>1, <1>2, <1>3, <1>6, WordFact DEF RingIntegrity

\* A push keeps the ring in order: a full ring gives up its oldest message.
LEMMA RingPush ==
    ASSUME TypeOK, RingIntegrity, Push
    PROVE  /\ head' \in Cursor /\ tail' \in Cursor
           /\ RingIntegrity'
           /\ Used < Size => Used' = Used + 1 /\ Gone' = Gone
           /\ Used = Size => /\ Used' = Size /\ Gone' = Gone + 1
                            /\ slots[tail % Size] = Gone + 1
<1>1. /\ head \in Cursor /\ tail \in Cursor /\ Used \in 0..Size
      /\ Gone \in Nat /\ Gone = enqueued - Used /\ enqueued \in Nat
  BY DerivedTypes DEF TypeOK
<1> DEFINE s == head % Size
<1>2. s = (tail + Used) % Size  BY <1>1, HeadSlot DEF Used
<1>3. /\ enqueued' = enqueued + 1 /\ head' = (head + 1) % Word
      /\ slots' = [slots EXCEPT ![s] = enqueued + 1]
  BY DEF Push
<1>4. slots = [j \in 0..Size-1 |->
                 IF Ahead(j) < Used THEN Gone + 1 + Ahead(j) ELSE 0]
  BY DEF RingIntegrity
<1>5. CASE Used < Size
  <2>1. tail' = tail  BY <1>1, <1>5, WordFact DEF Push
  <2>2. head' \in Cursor /\ Used' = Used + 1
    BY <1>1, <1>3, <1>5, <2>1, HeadAdvance DEF Used
  <2>3. Gone' = Gone  BY <1>1, <1>3, <2>2 DEF Gone
  <2>4. Used \in 0..(Size-1)  BY <1>1, <1>5, WordFact
  <2>5. s \in 0..(Size-1) /\ Ahead(s) = Used
    BY <1>1, <1>2, <2>4, AheadOfSlot DEF Ahead
  <2>6. ASSUME NEW j \in 0..(Size-1)
        PROVE  slots'[j] = IF Ahead(j)' < Used' THEN Gone' + 1 + Ahead(j)' ELSE 0
    <3>1. Ahead(j)' = Ahead(j) /\ Ahead(j) \in 0..(Size-1)
      BY <2>1, DerivedTypes DEF Ahead
    <3>2. j # s => Ahead(j) # Used
      BY <1>1, <2>5, <1>2, SlotOfAhead DEF Ahead
    <3>3. slots[j] = IF Ahead(j) < Used THEN Gone + 1 + Ahead(j) ELSE 0  BY <1>4
    <3>4. CASE j = s
      <4>1. slots'[j] = enqueued + 1  BY <1>3, <1>4, <3>4
      <4> QED  BY <1>1, <2>2, <2>3, <2>5, <3>1, <3>4, <4>1
    <3>5. CASE j # s
      <4>1. slots'[j] = slots[j]  BY <1>3, <1>4, <3>5
      <4> QED  BY <1>1, <2>2, <2>3, <3>1, <3>2, <3>3, <3>5, <4>1, WordFact
    <3> QED  BY <3>4, <3>5
  <2>7. slots' = [j \in 0..Size-1 |->
                    IF Ahead(j)' < Used' THEN Gone' + 1 + Ahead(j)' ELSE 0]
    BY <1>3, <1>4, <2>6
  <2>8. Used' <= Size /\ Used' <= enqueued'  BY <1>1, <1>3, <1>5, <2>2, WordFact
  <2>9. RingIntegrity'  BY <2>7, <2>8 DEF RingIntegrity
  <2>10. Used # Size  BY <1>5, <1>1, WordFact
  <2> QED  BY <1>1, <2>1, <2>2, <2>3, <2>9, <2>10
<1>6. CASE Used = Size
  <2>1. tail' = (tail + 1) % Word  BY <1>1, <1>6, WordFact DEF Push
  <2>2. tail' \in Cursor /\ (head - tail') % Word = Size - 1
    BY <1>1, <1>6, <2>1, WordFact, TailAdvance DEF Used
  <2>3. head' \in Cursor /\ Used' = Size
    <3>1. (head - tail') % Word < Size  BY <2>2, WordFact
    <3>2. head' \in Cursor /\ (head' - tail') % Word = ((head - tail') % Word) + 1
      BY <1>1, <1>3, <2>2, <3>1, HeadAdvance
    <3> QED  BY <2>2, <3>2, WordFact DEF Used
  <2>4. Gone' = Gone + 1  BY <1>1, <1>3, <1>6, <2>3, WordFact DEF Gone
  <2>5. s = tail % Size
    <3>1. tail \in Int /\ 1 \in Int  BY <1>1, WordFact DEF Cursor
    <3>2. (tail + Size * 1) % Size = tail % Size  BY <3>1, ModLap, WordFact
    <3>3. tail + Used = tail + Size * 1  BY <1>1, <1>6, <3>1, WordFact
    <3> QED  BY <1>2, <3>2, <3>3
  <2>6. s \in 0..(Size-1) /\ Ahead(s) = 0
    <3>1. 0 \in 0..(Size-1) /\ tail + 0 = tail  BY <1>1, WordFact DEF Cursor
    <3> QED  BY <1>1, <2>5, <3>1, AheadOfSlot DEF Ahead
  <2>7. ASSUME NEW j \in 0..(Size-1)
        PROVE  slots'[j] = IF Ahead(j)' < Used' THEN Gone' + 1 + Ahead(j)' ELSE 0
    <3>1. Ahead(j) \in 0..(Size-1)  BY DerivedTypes
    <3>2. Ahead(j)' = IF Ahead(j) >= 1 THEN Ahead(j) - 1 ELSE Ahead(j) - 1 + Size
      <4>1. 1 \in 0..Size  BY WordFact
      <4> QED  BY <1>1, <2>1, <4>1, AheadAdvance DEF Ahead
    <3>3. j # s => Ahead(j) # 0
      <4>1. (tail + Ahead(j)) % Size = j  BY <1>1, SlotOfAhead DEF Ahead
      <4>2. tail + 0 = tail  BY <1>1, WordFact DEF Cursor
      <4> QED  BY <2>5, <4>1, <4>2
    <3>4. slots[j] = IF Ahead(j) < Used THEN Gone + 1 + Ahead(j) ELSE 0  BY <1>4
    <3>5. CASE j = s
      <4>1. slots'[j] = enqueued + 1  BY <1>3, <1>4, <3>5
      <4>2. Ahead(j)' = Size - 1  BY <2>6, <3>2, <3>5, WordFact
      <4> QED  BY <1>1, <1>6, <2>3, <2>4, <4>1, <4>2, WordFact
    <3>6. CASE j # s
      <4>1. slots'[j] = slots[j]  BY <1>3, <1>4, <3>6
      <4>2. Ahead(j)' = Ahead(j) - 1 /\ Ahead(j) > 0  BY <3>1, <3>2, <3>3, <3>6, WordFact
      <4> QED  BY <1>1, <1>6, <2>3, <2>4, <3>1, <3>4, <4>1, <4>2, WordFact
    <3> QED  BY <3>5, <3>6
  <2>8. slots' = [j \in 0..Size-1 |->
                    IF Ahead(j)' < Used' THEN Gone' + 1 + Ahead(j)' ELSE 0]
    BY <1>3, <1>4, <2>7
  <2>9. slots[tail % Size] = Gone + 1  BY <1>1, <1>4, <1>6, <2>5, <2>6, WordFact
  <2>10. Used' <= Size /\ Used' <= enqueued'
    BY <1>1, <1>3, <1>6, <2>3, WordFact
  <2>11. RingIntegrity'  BY <2>8, <2>10 DEF RingIntegrity
  <2>12. ~(Used < Size)  BY <1>6, WordFact
  <2> QED  BY <2>2, <2>3, <2>4, <2>9, <2>11, <2>12
<1> QED  BY <1>1, <1>5, <1>6, WordFact

-----------------------------------------------------------------------------
(* The batch of the worker. *)

\* A batch of got > 0 messages copied from the front of the queue: the next
\* got numbers in order.
LEMMA BatchTaken ==
    ASSUME TypeOK, RingIntegrity, NEW got \in Nat, got <= Used,
           batch' = [i \in 1..got |-> Queued[i]]
    PROVE  /\ batch' \in Seq(Msgs)
           /\ Len(batch') = got
           /\ \A i \in 1..got : batch'[i] = Gone + i
<1>1. /\ Used \in 0..Size /\ Gone \in Nat /\ Gone = enqueued - Used
      /\ enqueued \in 0..MaxPush
  BY DerivedTypes DEF TypeOK
<1>2. ASSUME NEW i \in 1..got  PROVE batch'[i] = Gone + i /\ Gone + i \in Msgs
  <2>1. i \in 1..Used  BY <1>1
  <2>2. Queued[i] = Gone + i  BY <2>1, QueuedAre
  <2> QED  BY <1>1, <2>2, QueueAssumption DEF Msgs
<1>3. batch' \in [1..got -> Msgs]  BY <1>2
<1> QED  BY <1>2, <1>3

\* Removing the first element of a batch in strictly increasing order.
LEMMA BatchTail ==
    ASSUME NEW S, NEW b \in Seq(S), b # <<>>,
           \A i, j \in DOMAIN b : i < j => b[i] < b[j], S \subseteq Int
    PROVE  /\ Head(b) \in S /\ Tail(b) \in Seq(S)
           /\ Head(b) = b[1] /\ 1 \in DOMAIN b
           /\ {Tail(b)[i] : i \in DOMAIN Tail(b)} = {b[i] : i \in DOMAIN b} \ {Head(b)}
           /\ \A i, j \in DOMAIN Tail(b) : i < j => Tail(b)[i] < Tail(b)[j]
           /\ Tail(b) = <<>> <=> Len(b) = 1
<1>1. /\ Head(b) \in S /\ Tail(b) \in Seq(S) /\ Len(b) \in Nat /\ Len(b) > 0
      /\ DOMAIN b = 1..Len(b) /\ Head(b) = b[1]
      /\ Len(Tail(b)) = Len(b) - 1 /\ DOMAIN Tail(b) = 1..(Len(b)-1)
  OBVIOUS
<1>2. \A i \in 1..(Len(b)-1) : Tail(b)[i] = b[i+1]  OBVIOUS
<1>3. {Tail(b)[i] : i \in DOMAIN Tail(b)} = {b[i] : i \in DOMAIN b} \ {Head(b)}
  <2>1. ASSUME NEW x \in {Tail(b)[i] : i \in DOMAIN Tail(b)}
        PROVE  x \in {b[i] : i \in DOMAIN b} \ {Head(b)}
    <3>1. PICK i \in 1..(Len(b)-1) : x = Tail(b)[i]  BY <1>1, <2>1
    <3>2. x = b[i+1] /\ i+1 \in DOMAIN b /\ 1 \in DOMAIN b /\ 1 < i+1
      BY <1>1, <1>2, <3>1
    <3>3. b[1] \in S /\ b[i+1] \in S  BY <1>1, <3>2
    <3>4. b[1] < b[i+1]  BY <3>2
    <3>5. \A u, v \in Int : u < v => v # u  OBVIOUS
    <3>6. b[i+1] # b[1]  BY <3>3, <3>4, <3>5
    <3>7. x # Head(b)  BY <1>1, <3>2, <3>6
    <3> QED  BY <3>2, <3>7
  <2>2. ASSUME NEW i \in DOMAIN b, b[i] # Head(b)
        PROVE  b[i] \in {Tail(b)[k] : k \in DOMAIN Tail(b)}
    <3>1. i # 1 /\ i \in 1..Len(b)  BY <1>1, <2>2
    <3>2. i - 1 \in 1..(Len(b)-1)  BY <1>1, <3>1
    <3>3. Tail(b)[i-1] = b[(i-1)+1]  BY <1>2, <3>2
    <3>4. (i-1)+1 = i  BY <3>1, <1>1
    <3> QED  BY <1>1, <3>2, <3>3, <3>4
  <2> QED  BY <2>1, <2>2
<1>4. ASSUME NEW i \in DOMAIN Tail(b), NEW j \in DOMAIN Tail(b), i < j
      PROVE  Tail(b)[i] < Tail(b)[j]
  <2>1. i+1 \in DOMAIN b /\ j+1 \in DOMAIN b /\ i+1 < j+1  BY <1>1, <1>4
  <2> QED  BY <1>1, <1>2, <1>4, <2>1
<1>5. Tail(b) = <<>> <=> Len(b) = 1  BY <1>1
<1>6. 1 \in DOMAIN b  BY <1>1
<1>7. Head(b) \in S /\ Tail(b) \in Seq(S) /\ Head(b) = b[1]  BY <1>1
<1> QED  BY <1>3, <1>4, <1>5, <1>6, <1>7

-----------------------------------------------------------------------------
(* The invariant is inductive: one step per action. *)

LEMMA InitInv == Init => IndInv
<1> SUFFICES ASSUME Init PROVE IndInv  OBVIOUS
<1>1. TypeOK
  <2>1. 0 \in 0..(Word-1) /\ 0 \in 0..MaxPush  BY WordFact, QueueAssumption
  <2>2. <<>> \in Seq(Msgs)  OBVIOUS
  <2> QED  BY <2>1, <2>2 DEF Init, TypeOK, MainSteps, WorkerSteps
<1>2. Used = 0  BY WordFact DEF Init, Used
<1>3. Gone = 0  BY <1>2 DEF Gone, Init
<1>4. RingIntegrity
  <2>1. ASSUME NEW j \in 0..(Size-1) PROVE ~(Ahead(j) < 0)
    <3>1. j - tail \in Int  BY WordFact DEF Init
    <3>2. Ahead(j) \in 0..(Size-1)  BY <3>1, WordFact, DivMod DEF Ahead
    <3> QED  BY <3>2, WordFact
  <2> QED  BY <1>2, <2>1, WordFact DEF Init, RingIntegrity
<1>5. ExactlyOnePlace  BY <1>3 DEF ExactlyOnePlace, Batched, Init
<1>6. Control  BY <1>2 DEF Control, Init
<1>7. WakeupPending /\ HandledFirst  BY DEF WakeupPending, HandledFirst, Init
<1> QED  BY <1>1, <1>4, <1>5, <1>6, <1>7 DEF IndInv

\* Steps that leave the ring, its counters and the batch alone keep the parts
\* of the invariant that are about them.
LEMMA RingUntouched ==
    ASSUME IndInv, UNCHANGED <<ring, dropped, enqueued, batch, ghosts>>
    PROVE  RingIntegrity' /\ ExactlyOnePlace' /\ HandledFirst' /\ Used' = Used
<1>1. Used' = Used /\ Gone' = Gone  BY DEF Used, Gone, ring
<1>2. \A j : Ahead(j)' = Ahead(j)  BY DEF Ahead, ring
<1>3. RingIntegrity'  BY <1>1, <1>2 DEF IndInv, RingIntegrity, ring
<1>4. ExactlyOnePlace'  BY <1>1 DEF IndInv, ExactlyOnePlace, Batched, ghosts
<1>5. HandledFirst'  BY DEF IndInv, HandledFirst, ghosts
<1> QED  BY <1>1, <1>3, <1>4, <1>5

\* The steps of start-up, wake-up, stop and of the worker's loop that do not
\* touch the ring.
LEMMA QuietStep ==
    ASSUME IndInv,
           \/ QueueInit \/ WorkerStart \/ WireInspect \/ Wake
           \/ StopWorker \/ StopWake \/ JoinWorker
           \/ CheckRunning \/ ReadEventfd \/ ReadInterrupted \/ RecheckRunning
    PROVE  IndInv'
<1> USE DEF IndInv
<1>1. UNCHANGED <<ring, dropped, enqueued, batch, ghosts>>
  BY DEF QueueInit, WorkerStart, WireInspect, Wake, StopWorker, StopWake,
         JoinWorker, CheckRunning, ReadEventfd, ReadInterrupted, RecheckRunning,
         ghosts, ring
<1>2. RingIntegrity' /\ ExactlyOnePlace' /\ HandledFirst' /\ Used' = Used
  BY <1>1, RingUntouched
<1>3. TypeOK'
  <2>1. /\ head' = head /\ tail' = tail /\ slots' = slots /\ dropped' = dropped
        /\ enqueued' = enqueued /\ batch' = batch /\ handled' = handled
        /\ lost' = lost
    BY <1>1 DEF ring, ghosts
  <2> USE DEF QueueInit, WorkerStart, WireInspect, Wake, StopWorker, StopWake,
              JoinWorker, CheckRunning, ReadEventfd, ReadInterrupted, RecheckRunning
  <2>2. efd' \in Nat  BY DEF TypeOK
  <2>3. evfd' \in {"invalid", "open", "stale"}  BY DEF TypeOK
  <2>4. main' \in MainSteps /\ worker' \in WorkerSteps
    BY DEF TypeOK, MainSteps, WorkerSteps
  <2>5. wired' \in BOOLEAN /\ running' \in BOOLEAN  BY Zenon DEF TypeOK
  <2> QED  BY <2>1, <2>2, <2>3, <2>4, <2>5 DEF TypeOK
<1>4. enqueued = 0 => Used = 0
  BY DerivedTypes, WordFact DEF RingIntegrity, TypeOK
<1>5. Control' /\ WakeupPending'
  <2> USE <1>1, <1>2, <1>4 DEF Control, WakeupPending, TypeOK
  <2>1. CASE QueueInit  BY <2>1 DEF QueueInit
  <2>2. CASE WorkerStart  BY <2>2 DEF WorkerStart
  <2>3. CASE WireInspect  BY <2>3 DEF WireInspect
  <2>4. CASE Wake  BY <2>4 DEF Wake
  <2>5. CASE StopWorker  BY <2>5 DEF StopWorker
  <2>6. CASE StopWake  BY <2>6 DEF StopWake
  <2>7. CASE JoinWorker  BY <2>7 DEF JoinWorker
  <2>8. CASE CheckRunning  BY <2>8 DEF CheckRunning
  <2>9. CASE ReadEventfd  BY <2>9 DEF ReadEventfd
  <2>10. CASE ReadInterrupted  BY <2>10 DEF ReadInterrupted
  <2>11. CASE RecheckRunning  BY <2>11 DEF RecheckRunning
  <2> QED  BY <2>1, <2>2, <2>3, <2>4, <2>5, <2>6, <2>7, <2>8, <2>9, <2>10, <2>11
<1> QED  BY <1>2, <1>3, <1>5

\* A push: the wake-up it still owes is main = "wake".
LEMMA PushStep == IndInv /\ Push => IndInv'
<1> SUFFICES ASSUME IndInv, Push PROVE IndInv'  OBVIOUS
<1> USE DEF IndInv
<1>1. /\ Used \in 0..Size /\ Gone \in Nat /\ Gone = enqueued - Used
      /\ enqueued \in 0..MaxPush /\ enqueued + 1 \in 0..MaxPush
  BY SMTT(30), DerivedTypes, QueueAssumption DEF TypeOK, Push
<1>2. /\ head' \in Cursor /\ tail' \in Cursor /\ RingIntegrity'
      /\ Used < Size => Used' = Used + 1 /\ Gone' = Gone
      /\ Used = Size => /\ Used' = Size /\ Gone' = Gone + 1
                       /\ slots[tail % Size] = Gone + 1
  BY RingPush
<1>3. /\ enqueued' = enqueued + 1 /\ main = "loop" /\ main' = "wake"
      /\ UNCHANGED <<evfd, efd, wired, running, worker, batch, handled>>
      /\ dropped' \in Nat
  BY DEF Push, TypeOK
<1>4. lost' = IF Used = Size THEN lost \cup {Gone + 1} ELSE lost
  BY <1>1, <1>2, WordFact DEF Push
<1>5. Gone + 1 \in Msgs \/ Used # Size
  BY <1>1, WordFact, QueueAssumption DEF Msgs
<1>6. TypeOK'
  <2>1. slots' \in [0..Size-1 -> 0..MaxPush]
    BY <1>1 DEF TypeOK, Push
  <2>2. lost' \subseteq Msgs  BY <1>4, <1>5 DEF TypeOK
  <2>3. main' \in MainSteps  BY <1>3 DEF MainSteps
  <2> QED  BY <1>1, <1>2, <1>3, <2>1, <2>2, <2>3 DEF TypeOK, Cursor
<1>7. ExactlyOnePlace'
  <2>1. Batched' = Batched  BY <1>3 DEF Batched
  <2>2. handled \cup lost \cup Batched = 1..Gone  BY DEF ExactlyOnePlace
  <2>3. CASE Used = Size
    <3>1. Gone' = Gone + 1 /\ lost' = lost \cup {Gone + 1}  BY <1>2, <1>4, <2>3
    <3>2. 1..(Gone + 1) = (1..Gone) \cup {Gone + 1}  BY <1>1
    <3>3. Gone + 1 \notin 1..Gone  BY <1>1
    <3>4. handled \cup lost' \cup Batched = 1..Gone'  BY <2>2, <3>1, <3>2
    <3>5. Gone + 1 \notin handled /\ Gone + 1 \notin Batched  BY <2>2, <3>3
    <3> QED  BY <1>3, <2>1, <3>1, <3>4, <3>5 DEF ExactlyOnePlace
  <2>4. CASE Used # Size
    <3>1. Gone' = Gone /\ lost' = lost  BY <1>1, <1>2, <1>4, <2>4, WordFact
    <3> QED  BY <1>3, <2>1, <3>1 DEF ExactlyOnePlace
  <2> QED  BY <2>3, <2>4
<1>8. Control'  BY <1>3 DEF Control
<1>9. WakeupPending' /\ HandledFirst'  BY <1>3 DEF WakeupPending, HandledFirst
<1> QED  BY <1>2, <1>6, <1>7, <1>8, <1>9

\* A drain moves the front of the queue into the empty batch.
LEMMA DrainStep == IndInv /\ Drain => IndInv'
<1> SUFFICES ASSUME IndInv, Drain PROVE IndInv'  OBVIOUS
<1> USE DEF IndInv
<1> DEFINE got == IF Used < DrainBatch THEN Used ELSE DrainBatch
<1>1. /\ Used \in 0..Size /\ Gone \in Nat /\ got \in Nat /\ got <= Used
      /\ got = 0 => Used = 0
  BY DerivedTypes, QueueAssumption, WordFact
<1>2. /\ batch' = [i \in 1..got |-> Queued[i]]
      /\ slots' = [j \in 0..Size-1 |-> IF Ahead(j) < got THEN 0 ELSE slots[j]]
      /\ tail' = (tail + got) % Word
      /\ worker = "drain" /\ worker' = IF got = 0 THEN "check" ELSE "process"
      /\ UNCHANGED <<head, dropped, enqueued, evfd, efd, main, wired, running, ghosts>>
  BY DEF Drain
<1> HIDE DEF got
<1>3. tail' \in Cursor /\ Used' = Used - got /\ Gone' = Gone + got /\ RingIntegrity'
  BY <1>1, <1>2, RingDrain
<1>4. /\ batch' \in Seq(Msgs) /\ Len(batch') = got
      /\ \A i \in 1..got : batch'[i] = Gone + i
  BY <1>1, <1>2, BatchTaken
<1>5. DOMAIN batch' = 1..got  BY <1>2
<1>6. TypeOK'
  <2>1. slots' \in [0..Size-1 -> 0..MaxPush]  BY <1>2, QueueAssumption DEF TypeOK
  <2>2. worker' \in WorkerSteps  BY <1>2 DEF WorkerSteps
  <2> QED  BY <1>2, <1>3, <1>4, <2>1, <2>2 DEF TypeOK, Cursor, ghosts
<1>7. ExactlyOnePlace'
  <2>1. batch = <<>>  BY <1>2 DEF Control
  <2>2. Batched = {}  BY <2>1 DEF Batched
  <2>3. handled \cup lost = 1..Gone /\ handled \cap lost = {}
    BY <2>2 DEF ExactlyOnePlace
  <2>4. Batched' = (Gone + 1)..(Gone + got)
    <3>1. Batched' = {Gone + i : i \in 1..got}  BY <1>4, <1>5 DEF Batched
    <3>2. ASSUME NEW x \in (Gone + 1)..(Gone + got)
          PROVE  x \in {Gone + i : i \in 1..got}
      <4>1. x - Gone \in 1..got /\ x = Gone + (x - Gone)  BY <1>1
      <4> QED  BY <4>1
    <3>3. \A i \in 1..got : Gone + i \in (Gone + 1)..(Gone + got)  BY <1>1
    <3> QED  BY <3>1, <3>2, <3>3
  <2>5. 1..(Gone + got) = (1..Gone) \cup ((Gone + 1)..(Gone + got))  BY <1>1
  <2>6. (1..Gone) \cap ((Gone + 1)..(Gone + got)) = {}  BY <1>1
  <2>7. handled' = handled /\ lost' = lost  BY <1>2 DEF ghosts
  <2>8. \A i, j \in DOMAIN batch' : i < j => batch'[i] < batch'[j]
    BY <1>1, <1>4, <1>5
  <2>9. handled' \cup lost' \cup Batched' = 1..Gone'  BY <1>3, <2>3, <2>4, <2>5, <2>7
  <2>10. handled' \cap Batched' = {} /\ lost' \cap Batched' = {} /\ handled' \cap lost' = {}
    BY <2>3, <2>4, <2>6, <2>7
  <2> QED  BY <2>8, <2>9, <2>10 DEF ExactlyOnePlace
<1>8. batch' = <<>> <=> got = 0  BY <1>1, <1>4
<1>9. Control'
  <2>1. main # "done" /\ main # "close"  BY <1>2 DEF Control
  <2> QED  BY <1>2, <1>8, <2>1 DEF Control
<1>10. WakeupPending'  BY <1>1, <1>2, <1>3 DEF WakeupPending
<1>11. HandledFirst'
  <2>1. handled \subseteq 1..Gone  BY DEF ExactlyOnePlace
  <2> QED  BY <1>1, <1>2, <1>4, <1>5, <2>1 DEF HandledFirst, ghosts
<1> QED  BY <1>3, <1>6, <1>7, <1>9, <1>10, <1>11

\* The callback consumes the first message of the batch.
LEMMA ProcessStep ==
    ASSUME IndInv, Process
    PROVE  /\ IndInv'
           /\ \A new \in handled' \ handled : \A old \in handled : old < new
<1> USE DEF IndInv
<1>1. /\ worker = "process" /\ handled' = handled \cup {Head(batch)}
      /\ batch' = Tail(batch)
      /\ worker' = IF Len(batch) = 1 THEN "drain" ELSE "process"
      /\ UNCHANGED <<ring, dropped, enqueued, evfd, efd, main, wired, running, lost>>
  BY DEF Process
<1>2. batch # <<>> /\ batch \in Seq(Msgs)  BY <1>1 DEF Control, TypeOK
<1>3. Msgs \subseteq Int  BY QueueAssumption DEF Msgs
<1>4. \A i, j \in DOMAIN batch : i < j => batch[i] < batch[j]  BY DEF ExactlyOnePlace
<1>5. /\ Head(batch) \in Msgs /\ Tail(batch) \in Seq(Msgs)
      /\ Head(batch) = batch[1] /\ 1 \in DOMAIN batch
      /\ Batched' = Batched \ {Head(batch)}
      /\ \A i, j \in DOMAIN batch' : i < j => batch'[i] < batch'[j]
      /\ batch' = <<>> <=> Len(batch) = 1
  <2> DEFINE b == batch
  <2>1. /\ Head(b) \in Msgs /\ Tail(b) \in Seq(Msgs)
        /\ Head(b) = b[1] /\ 1 \in DOMAIN b
        /\ {Tail(b)[i] : i \in DOMAIN Tail(b)} = {b[i] : i \in DOMAIN b} \ {Head(b)}
        /\ \A i, j \in DOMAIN Tail(b) : i < j => Tail(b)[i] < Tail(b)[j]
        /\ Tail(b) = <<>> <=> Len(b) = 1
    BY <1>2, <1>3, <1>4, BatchTail
  <2> QED  BY <1>1, <2>1 DEF Batched
<1>6. Head(batch) \in Batched  BY <1>5 DEF Batched
<1>7. Used' = Used /\ Gone' = Gone /\ RingIntegrity'
  <2>1. Used' = Used /\ Gone' = Gone  BY <1>1 DEF Used, Gone, ring
  <2>2. \A j : Ahead(j)' = Ahead(j)  BY <1>1 DEF Ahead, ring
  <2> QED  BY <1>1, <2>1, <2>2 DEF RingIntegrity, ring
<1>8. TypeOK'
  <2>1. worker' \in WorkerSteps  BY <1>1 DEF WorkerSteps
  <2>2. handled' \subseteq Msgs  BY <1>1, <1>5 DEF TypeOK
  <2>3. batch' \in Seq(Msgs)  BY <1>1, <1>5
  <2> QED  BY <1>1, <2>1, <2>2, <2>3 DEF TypeOK, ring
<1>9. ExactlyOnePlace'
  <2>1. handled' \cup lost' \cup Batched' = 1..Gone'
    BY <1>1, <1>5, <1>6, <1>7 DEF ExactlyOnePlace
  <2>2. handled' \cap lost' = {}  BY <1>1, <1>6 DEF ExactlyOnePlace
  <2>3. handled' \cap Batched' = {} /\ lost' \cap Batched' = {}
    BY <1>1, <1>5 DEF ExactlyOnePlace
  <2> QED  BY <1>5, <2>1, <2>2, <2>3 DEF ExactlyOnePlace
<1>10. \A old \in handled : old < Head(batch)  BY <1>5 DEF HandledFirst
<1>11. HandledFirst'
  <2> SUFFICES ASSUME NEW m \in handled', NEW i \in DOMAIN batch'
               PROVE  m < batch'[i]
    BY DEF HandledFirst
  <2>1. batch'[i] \in Batched \ {Head(batch)}  BY <1>5 DEF Batched
  <2>2. PICK k \in DOMAIN batch : batch'[i] = batch[k] /\ k # 1
    BY <2>1, <1>5 DEF Batched
  <2>3. 1 < k  BY <2>2, <1>2
  <2>4. Head(batch) < batch'[i]  BY <1>4, <1>5, <2>2, <2>3
  <2> QED  BY <1>1, <2>2, <2>4 DEF HandledFirst
<1>12. Control'
  <2>1. main \notin {"close", "done"}  BY <1>1 DEF Control
  <2> QED  BY <1>1, <1>5, <1>7, <2>1 DEF Control
<1>13. WakeupPending'  BY <1>1 DEF WakeupPending
<1> QED  BY <1>1, <1>7, <1>8, <1>9, <1>10, <1>11, <1>12, <1>13

\* Closing the queue frees what is left in it.
LEMMA CloseStep == IndInv /\ CloseQueue => IndInv'
<1> SUFFICES ASSUME IndInv, CloseQueue PROVE IndInv'  OBVIOUS
<1> USE DEF IndInv
<1>1. /\ head \in Cursor /\ tail \in Cursor /\ Used \in 0..Size
      /\ Gone \in Nat /\ Gone = enqueued - Used /\ enqueued \in 0..MaxPush
  BY DerivedTypes DEF TypeOK
<1>2. /\ main = "close" /\ main' = "done" /\ tail' = head /\ head' = head
      /\ lost' = lost \cup {Queued[i] : i \in DOMAIN Queued}
      /\ slots' = [j \in 0..Size-1 |-> IF Ahead(j) < Used THEN 0 ELSE slots[j]]
      /\ evfd' \in {"invalid", "open", "stale"}
      /\ UNCHANGED <<dropped, enqueued, efd, wired, running, worker, batch, handled>>
  BY DEF CloseQueue, TypeOK
<1>3. Used' = 0 /\ Gone' = enqueued
  <2>1. head' - tail' = 0  BY <1>1, <1>2, WordFact DEF Cursor
  <2>2. Used' = 0  BY <2>1, WordFact DEF Used
  <2> QED  BY <1>1, <1>2, <2>2 DEF Gone
<1>4. slots' = [j \in 0..Size-1 |-> 0]  BY <1>2 DEF RingIntegrity
<1>5. RingIntegrity'
  <2>1. ASSUME NEW j \in 0..(Size-1) PROVE ~(Ahead(j)' < 0)
    <3>1. j - tail' \in Int  BY <1>1, <1>2, WordFact DEF Cursor
    <3>2. Ahead(j)' \in 0..(Size-1)  BY <3>1, WordFact, DivMod DEF Ahead
    <3> QED  BY <3>2, WordFact
  <2>2. Used' <= Size /\ Used' <= enqueued'  BY <1>1, <1>2, <1>3, WordFact
  <2>3. slots' = [j \in 0..Size-1 |->
                    IF Ahead(j)' < Used' THEN Gone' + 1 + Ahead(j)' ELSE 0]
    BY <1>3, <1>4, <2>1
  <2> QED  BY <2>2, <2>3 DEF RingIntegrity
<1>6. lost' = lost \cup ((Gone + 1)..enqueued)
  <2>1. DOMAIN Queued = 1..Used  BY DEF Queued
  <2>2. \A i \in 1..Used : Queued[i] = Gone + i  BY QueuedAre
  <2>3. ASSUME NEW x \in (Gone + 1)..enqueued
        PROVE  x \in {Queued[i] : i \in DOMAIN Queued}
    <3>1. x - Gone \in 1..Used /\ Gone + (x - Gone) = x  BY <1>1
    <3> QED  BY <2>1, <2>2, <3>1
  <2>4. \A i \in 1..Used : Gone + i \in (Gone + 1)..enqueued  BY <1>1
  <2>5. {Queued[i] : i \in DOMAIN Queued} = (Gone + 1)..enqueued
    BY <2>1, <2>2, <2>3, <2>4
  <2> QED  BY <1>2, <2>5
<1>7. TypeOK'
  <2>1. slots' \in [0..Size-1 -> 0..MaxPush]  BY <1>4, QueueAssumption
  <2>2. lost' \subseteq Msgs  BY <1>1, <1>6, QueueAssumption DEF TypeOK, Msgs
  <2>3. main' \in MainSteps  BY <1>2 DEF MainSteps
  <2> QED  BY <1>1, <1>2, <2>1, <2>2, <2>3 DEF TypeOK, Cursor
<1>8. ExactlyOnePlace'
  <2>1. Batched' = Batched /\ batch' = batch /\ handled' = handled  BY <1>2 DEF Batched
  <2>2. handled \cup lost \cup Batched = 1..Gone  BY DEF ExactlyOnePlace
  <2>3. 1..enqueued = (1..Gone) \cup ((Gone + 1)..enqueued)  BY <1>1
  <2>4. (1..Gone) \cap ((Gone + 1)..enqueued) = {}  BY <1>1
  <2>5. handled' \cup lost' \cup Batched' = 1..Gone'
    BY <1>3, <1>6, <2>1, <2>2, <2>3
  <2>6. handled' \cap lost' = {} /\ handled' \cap Batched' = {} /\ lost' \cap Batched' = {}
    BY <1>6, <2>1, <2>2, <2>4 DEF ExactlyOnePlace
  <2> QED  BY <2>1, <2>5, <2>6 DEF ExactlyOnePlace
<1>9. Control' /\ WakeupPending' /\ HandledFirst'
  BY <1>2, <1>3 DEF Control, WakeupPending, HandledFirst
<1> QED  BY <1>5, <1>7, <1>8, <1>9

LEMMA NextInv == IndInv /\ [Next]_vars => IndInv'
<1> SUFFICES ASSUME IndInv, [Next]_vars PROVE IndInv'  OBVIOUS
<1>1. CASE UNCHANGED vars
  <2>1. UNCHANGED <<ring, dropped, enqueued, batch, ghosts>>
    BY <1>1 DEF vars, ring, ghosts
  <2>2. RingIntegrity' /\ ExactlyOnePlace' /\ HandledFirst' /\ Used' = Used
    BY <2>1, RingUntouched
  <2>3. TypeOK'  BY <1>1 DEF IndInv, TypeOK, vars
  <2>4. Control' /\ WakeupPending'
    BY <1>1, <2>2 DEF IndInv, Control, WakeupPending, vars
  <2> QED  BY <2>2, <2>3, <2>4 DEF IndInv
<1>2. CASE MainNext  BY <1>2, QuietStep, PushStep, CloseStep DEF MainNext
<1>3. CASE WorkerNext  BY <1>3, QuietStep, DrainStep, ProcessStep DEF WorkerNext
<1>4. CASE Exited  BY <1>1, <1>4 DEF Exited
<1> QED  BY <1>1, <1>2, <1>3, <1>4 DEF Next

-----------------------------------------------------------------------------
(* The theorems. *)

\* The inductive invariant holds in every behaviour.
THEOREM Invariance == Spec => []IndInv
BY InitInv, NextInv, PTL DEF Spec

\* Every variable keeps its type: in particular the wrapping cursors stay
\* words and no NULL ever reaches the worker's batch.
THEOREM TypeCorrect == Spec => []TypeOK
<1>1. IndInv => TypeOK  BY DEF IndInv
<1> QED  BY <1>1, Invariance, PTL

\* For every ring size and word width, the wrapping cursors of
\* capture_queue.c describe at most Size consecutive messages, each in its
\* slot, and all other slots are NULL.
THEOREM RingIsSound == Spec => []RingIntegrity
<1>1. IndInv => RingIntegrity  BY DEF IndInv
<1> QED  BY <1>1, Invariance, PTL

\* No message is leaked, handled twice, or freed and handled.
THEOREM MessagesAreConserved == Spec => []ExactlyOnePlace
<1>1. IndInv => ExactlyOnePlace  BY DEF IndInv
<1> QED  BY <1>1, Invariance, PTL

\* The worker never goes to sleep on a non-empty ring without a wake-up on its
\* way, although push writes the eventfd after releasing the mutex.
THEOREM NoWakeupIsLost == Spec => []WakeupPending
<1>1. IndInv => WakeupPending  BY DEF IndInv
<1> QED  BY <1>1, Invariance, PTL

\* When the queue is closed the worker is gone, and in the end every message
\* pushed was handled or freed.
THEOREM ShutdownIsClean == Spec => []CleanShutdown
<1>1. ASSUME IndInv PROVE CleanShutdown
  <2> USE <1>1 DEF IndInv
  <2>1. main \in {"close", "done"} => worker \in {"none", "exited"} /\ batch = <<>>
    BY DEF Control
  <2>2. ASSUME main = "done" PROVE handled \cup lost = 1..enqueued
    <3>1. batch = <<>> /\ Used = 0  BY <2>1, <2>2 DEF Control
    <3>2. Batched = {}  BY <3>1 DEF Batched
    <3>3. Gone = enqueued  BY <3>1 DEF Gone, TypeOK
    <3> QED  BY <3>2, <3>3 DEF ExactlyOnePlace
  <2> QED  BY <2>1, <2>2 DEF CleanShutdown
<1> QED  BY <1>1, Invariance, PTL

\* Messages reach the callback in the order they were pushed.
THEOREM DeliveryIsOrdered == Spec => OrderedDelivery
<1>1. ASSUME IndInv, [Next]_vars
      PROVE  [\A new \in handled' \ handled : \A old \in handled : old < new]_vars
  <2>1. CASE Process  BY <1>1, <2>1, ProcessStep
  <2>2. CASE ~Process
    <3>1. handled' = handled
      BY <1>1, <2>2
      DEF Next, MainNext, WorkerNext, vars, ghosts, Exited, QueueInit, WorkerStart,
          WireInspect, Push, Wake, StopWorker, StopWake, JoinWorker, CloseQueue,
          CheckRunning, ReadEventfd, ReadInterrupted, RecheckRunning, Drain
    <3> QED  BY <3>1
  <2> QED  BY <2>1, <2>2
<1> QED  BY <1>1, Invariance, PTL DEF Spec, OrderedDelivery

\* While the daemon runs, only a push into a full ring loses a message, and it
\* is the oldest one.
THEOREM LossIsTheOldest == Spec => LossOnlyWhenFull
<1>1. ASSUME IndInv, [Next]_vars
      PROVE  [main = "loop" =>
                \A m \in lost' \ lost :
                   Used = Size /\ m = Gone + 1 /\ enqueued' = m + Size]_vars
  <2>1. CASE Push
    <3>1. TypeOK /\ RingIntegrity  BY <1>1 DEF IndInv
    <3>2. /\ Used \in 0..Size /\ Gone \in Nat /\ Gone = enqueued - Used
          /\ enqueued \in Nat
      BY <3>1, DerivedTypes DEF TypeOK
    <3>3. Used = Size => slots[tail % Size] = Gone + 1  BY <2>1, <3>1, RingPush
    <3>4. \A m \in lost' \ lost : Used = Size /\ m = Gone + 1
      BY <2>1, <3>2, <3>3, WordFact DEF Push
    <3>5. enqueued' = enqueued + 1  BY <2>1 DEF Push
    <3> QED  BY <3>2, <3>4, <3>5, WordFact
  <2>2. CASE ~Push /\ main = "loop"
    <3>1. lost' = lost
      BY <1>1, <2>2
      DEF Next, MainNext, WorkerNext, vars, ghosts, Exited, QueueInit, WorkerStart,
          WireInspect, Wake, StopWorker, StopWake, JoinWorker, CloseQueue,
          CheckRunning, ReadEventfd, ReadInterrupted, RecheckRunning, Drain, Process
    <3> QED  BY <3>1
  <2> QED  BY <2>1, <2>2
<1> QED  BY <1>1, Invariance, PTL DEF Spec, LossOnlyWhenFull

-----------------------------------------------------------------------------
(* The counter of losses.  lost holds the messages a full ring gave up, all *)
(* of them older than what is queued, so that each push adds a new one.     *)

LossInv == IndInv /\ IsFiniteSet(lost) /\ CountersAccountForLoss

LEMMA LossStep == LossInv /\ [Next]_vars => LossInv'
<1> SUFFICES ASSUME LossInv, [Next]_vars PROVE LossInv'  OBVIOUS
<1>1. IndInv /\ IndInv'  BY NextInv DEF LossInv
<1>2. CASE Push
  <2>1. TypeOK /\ RingIntegrity /\ ExactlyOnePlace  BY <1>1 DEF IndInv
  <2>2. Used \in 0..Size /\ Gone \in Nat  BY <2>1, DerivedTypes
  <2>3. Used = Size => slots[tail % Size] = Gone + 1  BY <1>2, <2>1, RingPush
  <2>4. Gone + 1 \notin lost  BY <2>1, <2>2 DEF ExactlyOnePlace
  <2>5. main = "loop" /\ main' = "wake" /\ Cardinality(lost) = dropped
    BY <1>2 DEF Push, LossInv, CountersAccountForLoss
  <2>6. CASE Used = Size
    <3>1. lost' = lost \cup {Gone + 1} /\ dropped' = dropped + 1
      BY <1>2, <2>3, <2>6, WordFact DEF Push
    <3>2. IsFiniteSet(lost') /\ Cardinality(lost') = dropped + 1
      BY <2>4, <2>5, <3>1, FS_AddElement DEF LossInv
    <3> QED  BY <1>1, <3>1, <3>2 DEF LossInv, CountersAccountForLoss
  <2>7. CASE Used # Size
    <3>1. lost' = lost /\ dropped' = dropped  BY <1>2, <2>2, <2>7, WordFact DEF Push
    <3> QED  BY <1>1, <2>5, <3>1 DEF LossInv, CountersAccountForLoss
  <2> QED  BY <2>6, <2>7
<1>3. CASE CloseQueue
  <2>1. main' = "done"  BY <1>3 DEF CloseQueue
  <2>2. lost' \subseteq Msgs /\ IsFiniteSet(Msgs)
    BY SMTT(30), <1>1, FS_Interval, QueueAssumption DEF IndInv, TypeOK, Msgs
  <2>3. IsFiniteSet(lost')  BY <2>2, FS_Subset
  <2> QED  BY <1>1, <2>1, <2>3 DEF LossInv, CountersAccountForLoss
<1>4. CASE ~Push /\ ~CloseQueue
  <2>1. lost' = lost /\ dropped' = dropped /\ (main = "done" => main' = "done")
    BY <1>4
    DEF Next, MainNext, WorkerNext, vars, ghosts, Exited, QueueInit, WorkerStart,
        WireInspect, Wake, StopWorker, StopWake, JoinWorker,
        CheckRunning, ReadEventfd, ReadInterrupted, RecheckRunning, Drain, Process
  <2> QED  BY <1>1, <2>1 DEF LossInv, CountersAccountForLoss
<1> QED  BY <1>2, <1>3, <1>4

\* Until the queue is closed the counter `dropped` is the number of messages
\* the queue itself has freed: none is lost uncounted and none counted twice.
THEOREM LossIsCounted == Spec => []CountersAccountForLoss
<1>1. Init => LossInv
  BY InitInv, FS_EmptySet DEF LossInv, Init, CountersAccountForLoss
<1>2. LossInv => CountersAccountForLoss  BY DEF LossInv
<1> QED  BY <1>1, <1>2, LossStep, PTL DEF Spec

-----------------------------------------------------------------------------
(* The refinement: the queue and its worker implement LossyChannel.         *)

\* The queue, as the sequence the abstract channel speaks of.
LEMMA QueuedSeq ==
    TypeOK /\ RingIntegrity =>
        /\ Used \in 0..Size /\ Gone \in Nat
        /\ Queued = [i \in 1..Used |-> Gone + i]
        /\ Queued \in Seq(Nat) /\ Len(Queued) = Used
<1> SUFFICES ASSUME TypeOK, RingIntegrity
             PROVE  /\ Used \in 0..Size /\ Gone \in Nat
                    /\ Queued = [i \in 1..Used |-> Gone + i]
                    /\ Queued \in Seq(Nat) /\ Len(Queued) = Used
  OBVIOUS
<1>1. Used \in 0..Size /\ Gone \in Nat /\ Used \in Nat  BY DerivedTypes
<1>2. \A i \in 1..Used : Queued[i] = Gone + i  BY QueuedAre
<1>3. Queued = [i \in 1..Used |-> Gone + i]  BY <1>2 DEF Queued
<1>4. Queued \in [1..Used -> Nat]  BY <1>1, <1>3
<1> HIDE DEF Used, Gone, Queued
<1> QED  BY <1>1, <1>3, <1>4

LEMMA QueuedSeqNext ==
    IndInv' => /\ Used' \in 0..Size /\ Gone' \in Nat
               /\ Queued' = [i \in 1..Used' |-> Gone' + i]
               /\ Queued' \in Seq(Nat) /\ Len(Queued') = Used'
<1>1. (TypeOK /\ RingIntegrity =>
          /\ Used \in 0..Size /\ Gone \in Nat
          /\ Queued = [i \in 1..Used |-> Gone + i]
          /\ Queued \in Seq(Nat) /\ Len(Queued) = Used)'
  BY QueuedSeq, PTL
<1> QED  BY <1>1 DEF IndInv

\* A sequence of consecutive numbers grows at its end.
LEMMA AppendNext ==
    ASSUME NEW g \in Nat, NEW n \in Nat, NEW q \in Seq(Nat),
           q = [i \in 1..n |-> g + i]
    PROVE  Append(q, g + n + 1) = [i \in 1..(n + 1) |-> g + i]
<1>1. Len(q) = n  OBVIOUS
<1>2. DOMAIN Append(q, g + n + 1) = 1..(n + 1)  BY <1>1
<1>3. \A i \in 1..(n + 1) : Append(q, g + n + 1)[i] = g + i  BY <1>1
<1>4. Append(q, g + n + 1) \in Seq(Nat)  OBVIOUS
<1> QED  BY <1>1, <1>2, <1>3, <1>4

\* Taking k numbers off its front leaves the later ones.
LEMMA SplitFront ==
    ASSUME NEW g \in Nat, NEW n \in Nat, NEW k \in 0..n, NEW q \in Seq(Nat),
           q = [i \in 1..n |-> g + i]
    PROVE  /\ SubSeq(q, 1, k) = [i \in 1..k |-> q[i]]
           /\ SubSeq(q, k + 1, n) = [i \in 1..(n - k) |-> (g + k) + i]
<1>1. Len(q) = n  OBVIOUS
<1>2. SubSeq(q, 1, k) = [i \in 1..k |-> q[i]]  BY <1>1
<1>3. SubSeq(q, k + 1, n) = [i \in 1..(n - k) |-> q[i + k]]  BY <1>1
<1>4. \A i \in 1..(n - k) : q[i + k] = (g + k) + i  OBVIOUS
<1> QED  BY <1>2, <1>3, <1>4

\* Its first number is dropped.
LEMMA DropFirst ==
    ASSUME NEW g \in Nat, NEW n \in Nat, n >= 1, NEW q \in Seq(Nat),
           q = [i \in 1..n |-> g + i]
    PROVE  /\ Head(q) = g + 1 /\ Tail(q) \in Seq(Nat)
           /\ Tail(q) = [i \in 1..(n - 1) |-> (g + 1) + i]
<1>1. Len(q) = n /\ q # <<>>  OBVIOUS
<1>2. Head(q) = g + 1 /\ Tail(q) \in Seq(Nat) /\ Len(Tail(q)) = n - 1  BY <1>1
<1>3. DOMAIN Tail(q) = 1..(n - 1)  BY <1>2
<1>4. \A i \in 1..(n - 1) : Tail(q)[i] = (g + 1) + i  BY <1>1, <1>2
<1>5. Tail(q) = [i \in DOMAIN Tail(q) |-> Tail(q)[i]]  BY <1>2
<1> QED  BY <1>2, <1>3, <1>4, <1>5

\* Push is Offer.
LEMMA PushOffers == IndInv /\ Push => Channel!Offer
<1> SUFFICES ASSUME IndInv, Push PROVE Channel!Offer  OBVIOUS
<1>1. IndInv'  BY PushStep
<1>2. TypeOK /\ RingIntegrity  BY DEF IndInv
<1>3. /\ Used \in 0..Size /\ Gone \in Nat /\ enqueued \in Nat /\ Size \in Nat
      /\ Gone = enqueued - Used
      /\ Queued = [i \in 1..Used |-> Gone + i]
      /\ Queued \in Seq(Nat) /\ Len(Queued) = Used
  <2>1. enqueued \in Nat /\ Size \in Nat  BY <1>2, WordFact DEF TypeOK
  <2> QED  BY <1>2, <2>1, QueuedSeq DEF Gone
<1>4. Queued' = [i \in 1..Used' |-> Gone' + i]  BY <1>1, QueuedSeqNext
<1>5. enqueued' = enqueued + 1 /\ UNCHANGED <<batch, handled>>  BY DEF Push
<1>6. CASE Used < Size
  <2>1. Used' = Used + 1 /\ Gone' = Gone  BY <1>2, <1>6, RingPush
  <2>2. lost' = lost  BY <1>3, <1>6 DEF Push
  <2>3. Append(Queued, Gone + Used + 1) = [i \in 1..(Used + 1) |-> Gone + i]
    BY <1>3, AppendNext
  <2>4. Gone + Used + 1 = enqueued + 1  BY <1>3
  <2>5. Queued' = Append(Queued, enqueued + 1)  BY <1>4, <2>1, <2>3, <2>4
  <2>6. Len(Queued) < Size  BY <1>3, <1>6
  <2> QED  BY <1>5, <2>2, <2>5, <2>6 DEF Channel!Offer
<1>7. CASE Used = Size
  <2>1. Used' = Size /\ Gone' = Gone + 1 /\ slots[tail % Size] = Gone + 1
    BY <1>2, <1>7, RingPush
  <2>2. lost' = lost \cup {Gone + 1}  BY <1>3, <1>7, <2>1 DEF Push
  <2>3. Used >= 1  BY <1>3, <1>7, WordFact
  <2>4. /\ Head(Queued) = Gone + 1 /\ Tail(Queued) \in Seq(Nat)
        /\ Tail(Queued) = [i \in 1..(Used - 1) |-> (Gone + 1) + i]
    <3> DEFINE g == Gone
               n == Used
               q == Queued
    <3>1. g \in Nat /\ n \in Nat /\ n >= 1 /\ q \in Seq(Nat) /\ q = [i \in 1..n |-> g + i]
      BY <1>3, <2>3
    <3> HIDE DEF g, n, q
    <3>2. /\ Head(q) = g + 1 /\ Tail(q) \in Seq(Nat)
          /\ Tail(q) = [i \in 1..(n - 1) |-> (g + 1) + i]
      BY <3>1, DropFirst
    <3> QED  BY <3>2 DEF g, n, q
  <2>6. Append(Tail(Queued), (Gone + 1) + (Used - 1) + 1)
          = [i \in 1..((Used - 1) + 1) |-> (Gone + 1) + i]
    <3> DEFINE g == Gone + 1
               n == Used - 1
               q == Tail(Queued)
    <3>1. g \in Nat /\ n \in Nat /\ q \in Seq(Nat) /\ q = [i \in 1..n |-> g + i]
      BY <1>3, <2>3, <2>4
    <3> HIDE DEF g, n, q
    <3>2. Append(q, g + n + 1) = [i \in 1..(n + 1) |-> g + i]  BY <3>1, AppendNext
    <3> QED  BY <3>2 DEF g, n, q
  <2>7. (Gone + 1) + (Used - 1) + 1 = enqueued + 1 /\ (Used - 1) + 1 = Used'
    BY <1>3, <1>7, <2>1
  <2>8. Queued' = Append(Tail(Queued), enqueued + 1)  BY <1>4, <2>1, <2>6, <2>7
  <2>9. Len(Queued) = Size  BY <1>3, <1>7
  <2> QED  BY <1>5, <2>2, <2>4, <2>8, <2>9 DEF Channel!Offer
<1> QED  BY <1>3, <1>6, <1>7

\* A drain that finds messages is Take; one that finds none changes nothing
\* the channel knows of.
LEMMA DrainTakes == IndInv /\ Drain => [Channel!Take]_Channel!chanVars
<1> SUFFICES ASSUME IndInv, Drain PROVE [Channel!Take]_Channel!chanVars  OBVIOUS
<1> DEFINE got == IF Used < DrainBatch THEN Used ELSE DrainBatch
<1>1. IndInv'  BY DrainStep
<1>2. TypeOK /\ RingIntegrity  BY DEF IndInv
<1>3. /\ Used \in 0..Size /\ Gone \in Nat /\ Used \in Nat
      /\ Queued = [i \in 1..Used |-> Gone + i]
      /\ Queued \in Seq(Nat) /\ Len(Queued) = Used
  BY <1>2, QueuedSeq
<1>4. Queued' = [i \in 1..Used' |-> Gone' + i]  BY <1>1, QueuedSeqNext
<1>5. got \in 0..Used /\ got \in Nat /\ got <= DrainBatch  BY <1>3, QueueAssumption
<1>6. /\ batch' = [i \in 1..got |-> Queued[i]]
      /\ slots' = [j \in 0..Size-1 |-> IF Ahead(j) < got THEN 0 ELSE slots[j]]
      /\ tail' = (tail + got) % Word /\ worker = "drain"
      /\ UNCHANGED <<head, enqueued, handled, lost>>
  BY DEF Drain, ghosts
<1> HIDE DEF got
<1>7. Used' = Used - got /\ Gone' = Gone + got  BY <1>2, <1>5, <1>6, RingDrain
<1>8. batch = <<>>  BY <1>6 DEF IndInv, Control
<1>9. /\ SubSeq(Queued, 1, got) = [i \in 1..got |-> Queued[i]]
      /\ SubSeq(Queued, got + 1, Used) = [i \in 1..(Used - got) |-> (Gone + got) + i]
  BY <1>3, <1>5, SplitFront
<1>10. CASE got = 0
  <2>1. Queued' = Queued  BY <1>3, <1>4, <1>7, <1>10
  <2>2. batch' = <<>>  BY <1>6, <1>10
  <2> QED  BY <1>6, <1>8, <2>1, <2>2 DEF Channel!chanVars
<1>11. CASE got # 0
  <2>1. got \in 1..DrainBatch /\ got <= Len(Queued)  BY <1>3, <1>5, <1>11, QueueAssumption
  <2>2. batch' = SubSeq(Queued, 1, got)  BY <1>6, <1>9
  <2>3. Queued' = SubSeq(Queued, got + 1, Len(Queued))  BY <1>3, <1>4, <1>7, <1>9
  <2> QED  BY <1>6, <1>8, <2>1, <2>2, <2>3 DEF Channel!Take
<1> QED  BY <1>10, <1>11

\* Closing the queue discards what it still holds.
LEMMA CloseDiscards == IndInv /\ CloseQueue => [Channel!Discard]_Channel!chanVars
<1> SUFFICES ASSUME IndInv, CloseQueue PROVE [Channel!Discard]_Channel!chanVars  OBVIOUS
<1>1. IndInv'  BY CloseStep
<1>2. /\ Used \in Nat /\ Queued \in Seq(Nat) /\ Len(Queued) = Used
  BY QueuedSeq DEF IndInv
<1>3. Queued' = [i \in 1..Used' |-> Gone' + i]  BY <1>1, QueuedSeqNext
<1>4. Used' = 0  BY <1>1 DEF IndInv, Control, CloseQueue
<1>5. Queued' = <<>>  BY <1>3, <1>4
<1>6. batch = <<>>  BY DEF IndInv, Control, CloseQueue
<1>7. /\ lost' = lost \cup {Queued[i] : i \in DOMAIN Queued}
      /\ UNCHANGED <<enqueued, batch, handled>>
  BY DEF CloseQueue
<1>8. CASE Queued = <<>>
  <2>1. lost' = lost  BY <1>7, <1>8
  <2> QED  BY <1>5, <1>7, <1>8, <2>1 DEF Channel!chanVars
<1>9. CASE Queued # <<>>  BY <1>5, <1>6, <1>7, <1>9 DEF Channel!Discard
<1> QED  BY <1>8, <1>9

LEMMA StepSimulates == IndInv /\ [Next]_vars => [Channel!Next]_Channel!chanVars
<1> SUFFICES ASSUME IndInv, [Next]_vars PROVE [Channel!Next]_Channel!chanVars  OBVIOUS
<1>1. CASE Push  BY <1>1, PushOffers DEF Channel!Next
<1>2. CASE Drain  BY <1>2, DrainTakes DEF Channel!Next
<1>3. CASE Process
  <2>1. batch # <<>>  BY <1>3 DEF Process, IndInv, Control
  <2>2. Queued' = Queued  BY <1>3 DEF Process, Queued, Used, ring
  <2>3. Channel!Handle  BY <1>3, <2>1, <2>2 DEF Process, Channel!Handle, ring
  <2> QED  BY <2>3 DEF Channel!Next
<1>4. CASE CloseQueue  BY <1>4, CloseDiscards DEF Channel!Next
<1>5. CASE ~Push /\ ~Drain /\ ~Process /\ ~CloseQueue
  <2>1. UNCHANGED <<ring, enqueued, batch, handled, lost>>
    BY <1>5
    DEF Next, MainNext, WorkerNext, vars, ghosts, ring, Exited, QueueInit, WorkerStart,
        WireInspect, Wake, StopWorker, StopWake, JoinWorker,
        CheckRunning, ReadEventfd, ReadInterrupted, RecheckRunning
  <2>2. Queued' = Queued  BY <2>1 DEF Queued, Used, ring
  <2> QED  BY <2>1, <2>2 DEF Channel!chanVars
<1> QED  BY <1>1, <1>2, <1>3, <1>4, <1>5

\* The capture queue and its worker implement the bounded lossy channel, for
\* every size: a push never waits and gives up the oldest message of a full
\* ring, a drain takes a prefix, the callback consumes it in order, and the
\* close discards the rest.
THEOREM QueueIsAChannel == Spec => ImplementsChannel
<1>1. Init => Channel!Init
  <2> SUFFICES ASSUME Init PROVE Channel!Init  OBVIOUS
  <2>1. Used = 0  BY WordFact DEF Init, Used
  <2>2. Queued = <<>>  BY <2>1 DEF Queued
  <2> QED  BY <2>2 DEF Init, Channel!Init
<1> QED  BY <1>1, StepSimulates, Invariance, PTL DEF Spec, ImplementsChannel, Channel!Spec

=============================================================================
