--------------------------- MODULE NemuAudio_proofs ---------------------------
(* Proofs about NemuAudio, for any ring of whole words and any sounds and   *)
(* requests of the speaker: driver and device are a stream until COUNT      *)
(* first goes wrong, and COUNT is off by exactly the drift from then on.    *)
EXTENDS NemuAudio, Integers, TLAPS

(* x bytes are a whole number of words. *)
WholeWords(x) == \E w \in Nat : x = w * Word

(* A place in the ring or a byte's number that has gone round at most once. *)
Once(x, n) == IF x < n THEN x ELSE x - n

(* What % does to it. *)
LEMMA ModOnce ==
    ASSUME NEW n \in Nat \ {0}, NEW x \in Nat, x < 2 * n
    PROVE  x % n = Once(x, n)
  <1>1. x = n * (x \div n) + (x % n) /\ x % n \in 0 .. n - 1 /\ x \div n \in Int
    BY SMT
  <1>2. CASE x \div n < 0
    <2>1. n * (x \div n) <= -n
      BY <1>1, <1>2, SMT
    <2> QED
      BY <2>1, <1>1, SMT
  <1>3. CASE x \div n = 0
    BY <1>1, <1>3 DEF Once
  <1>4. CASE x \div n = 1
    BY <1>1, <1>4 DEF Once
  <1>5. CASE x \div n > 1
    <2>1. n * (x \div n) >= n * 2
      BY <1>1, <1>5, SMT
    <2> QED
      BY <2>1, <1>1, SMT
  <1> QED
    BY <1>1, <1>2, <1>3, <1>4, <1>5

(* A number that falls short of 0 at most once, or has gone round once.     *)
LEMMA ModShort ==
    ASSUME NEW n \in Nat \ {0}, NEW x \in Int, -n <= x, x < n
    PROVE  x % n = (IF x < 0 THEN x + n ELSE x)
  <1>1. x = n * (x \div n) + (x % n) /\ x % n \in 0 .. n - 1 /\ x \div n \in Int
    BY SMT
  <1>2. CASE x \div n < -1
    <2>1. n * (x \div n) <= n * (-2)
      BY <1>1, <1>2, SMT
    <2> QED
      BY <2>1, <1>1, SMT
  <1>3. CASE x \div n = -1
    BY <1>1, <1>3
  <1>4. CASE x \div n = 0
    BY <1>1, <1>4
  <1>5. CASE x \div n > 0
    <2>1. n * (x \div n) >= n
      BY <1>1, <1>5, SMT
    <2> QED
      BY <2>1, <1>1, SMT
  <1> QED
    BY <1>1, <1>2, <1>3, <1>4, <1>5

(* Of two whole numbers of words, the smaller one has room for a word more. *)
LEMMA NextWord ==
    ASSUME NEW a \in Nat, NEW b \in Nat, WholeWords(a), WholeWords(b), a < b
    PROVE  a + Word <= b /\ WholeWords(a + Word)
  <1>0. Word \in Nat \ {0}
    BY SizeAssumption
  <1>1. PICK v \in Nat : a = v * Word
    BY DEF WholeWords
  <1>2. PICK w \in Nat : b = w * Word
    BY DEF WholeWords
  <1>3. v < w
    <2>1. ASSUME w <= v PROVE w * Word <= v * Word
      BY <2>1, <1>0, SMT
    <2> QED
      BY <2>1, <1>1, <1>2
  <1>4. (v + 1) * Word = a + Word
    BY <1>0, <1>1, SMT
  <1>5. (v + 1) * Word <= w * Word
    BY <1>3, <1>0, SMT
  <1> QED
    BY <1>2, <1>4, <1>5 DEF WholeWords

(* Nothing is a whole number of words too: where the ring starts. *)
LEMMA Zero == WholeWords(0)
  BY SizeAssumption, 0 * Word = 0 DEF WholeWords

(* What the assumptions on the constants say of the sizes. *)
LEMMA Sizes ==
    /\ SbufSize \in Nat /\ SbufSize > 0 /\ Word \in Nat /\ Word > 0
    /\ K \in Nat /\ K > 2 * SbufSize /\ MaxPlay \in Nat
    /\ Lens \subseteq Nat \ {0}
  BY SizeAssumption, LensAssumption, KAssumption

(* The ring is a whole number of words, at least one. *)
LEMMA RingOfWords == WholeWords(SbufSize) /\ Word <= SbufSize
  <1> DEFINE w == SbufSize \div Word
  <1>1. SbufSize = Word * w + (SbufSize % Word) /\ w \in Int
    BY SizeAssumption, SMT
  <1>2. SbufSize = Word * w
    BY <1>1, SizeAssumption, SMT
  <1> HIDE DEF w
  <1>3. w > 0
    <2>1. ASSUME w <= 0 PROVE Word * w <= 0
      BY <2>1, <1>1, SizeAssumption, SMT
    <2> QED
      BY <2>1, <1>1, <1>2, SizeAssumption, SMT
  <1>4. Word * w >= Word /\ w * Word = Word * w
    BY <1>1, <1>3, SizeAssumption, SMT
  <1> QED
    BY <1>1, <1>2, <1>3, <1>4 DEF WholeWords

-----------------------------------------------------------------------------
(* A buffer fits when the wait is over, in a ring the driver knows; it is   *)
(* copied by words, the last of which may reach beyond its end; between the *)
(* driver's read of COUNT and its write the device may lower it.            *)
Asked ==
    /\ pc # "idle" => len \in Lens
    /\ pc = "wait" => pos = 0
    /\ pc \in {"copy", "count"} => size = SbufSize /\ pos < len + Word
    /\ pc = "copy" => count + len <= SbufSize
    /\ pc = "count" => tmp + len <= SbufSize /\ count <= tmp /\ pos >= len

(* The driver's place begins a word, and what CountLaw bounds modulo the    *)
(* ring is one of four multiples of its size.                               *)
Distance == Counted + rd + Uncounted - last_write - drift
Law == /\ WholeWords(last_write)
       /\ Distance \in {-SbufSize, 0, SbufSize, 2 * SbufSize}

(* What holds until COUNT goes wrong: the driver's place follows the        *)
(* device's at the distance of what is in the ring, and what is in the ring *)
(* are the bytes from the next to be played on.                             *)
Copied == IF pc \in {"copy", "count"} THEN pos ELSE 0
Placed == last_write = (rd + (count + Copied)) % SbufSize
Filled == /\ wr = (head + count) % K
          /\ \A k \in Nat : k < count + Copied =>
                sbuf[(rd + k) % SbufSize] = (head + k) % K
Whole == /\ pc \in {"copy", "count"} => pos <= len
         /\ pc = "count" => tmp = count
Clean == drift = 0 /\ Whole /\ Placed /\ Filled

IInv == TypeOK /\ Asked /\ Law /\ (~slipped => Clean)

(* A place in sbuf[] goes round at most once in a step. *)
LEMMA Ring ==
    ASSUME NEW a \in 0 .. SbufSize - 1, NEW k \in Nat, k <= SbufSize
    PROVE  (a + k) % SbufSize = Once(a + k, SbufSize)
  <1>1. SbufSize \in Nat \ {0} /\ a + k \in Nat /\ a + k < 2 * SbufSize
    BY Sizes
  <1> QED
    BY <1>1, ModOnce

(* So does the number of a byte. *)
LEMMA Number ==
    ASSUME NEW a \in 0 .. K - 1, NEW k \in Nat, k <= SbufSize
    PROVE  (a + k) % K = Once(a + k, K)
  <1>1. K \in Nat \ {0} /\ a + k \in Nat /\ a + k < 2 * K
    BY Sizes
  <1> QED
    BY <1>1, ModOnce, Zenon

(* The law in its bounded form is CountLaw. *)
LEMMA LawIsCountLaw == ASSUME IInv PROVE CountLaw
  <1> DEFINE d == Distance
  <1>1. d \in {-SbufSize, 0, SbufSize, 2 * SbufSize} /\ SbufSize \in Nat \ {0}
    BY Sizes DEF IInv, Law
  <1> HIDE DEF d
  <1>2. d % SbufSize = 0
    <2>1. CASE d = -SbufSize
      BY <2>1, <1>1, ModShort
    <2>2. CASE d = 0
      BY <2>2, <1>1, ModShort
    <2>3. CASE d = SbufSize
      BY <2>3, <1>1, ModOnce DEF Once
    <2>4. CASE d = 2 * SbufSize
      <3>1. /\ d = SbufSize * (d \div SbufSize) + (d % SbufSize)
            /\ d % SbufSize \in 0 .. SbufSize - 1 /\ d \div SbufSize \in Int
        BY <1>1, SMT
      <3>2. CASE d \div SbufSize <= 1
        <4>1. SbufSize * (d \div SbufSize) <= SbufSize
          BY <3>1, <3>2, <1>1, SMT
        <4> QED
          BY <4>1, <3>1, <2>4, <1>1, SMT
      <3>3. CASE d \div SbufSize = 2
        BY <3>1, <3>3, <2>4, <1>1, SMT
      <3>4. CASE d \div SbufSize > 2
        <4>1. SbufSize * (d \div SbufSize) >= SbufSize * 3
          BY <3>1, <3>4, <1>1, SMT
        <4> QED
          BY <4>1, <3>1, <2>4, <1>1, SMT
      <3> QED
        BY <3>1, <3>2, <3>3, <3>4
    <2> QED
      BY <2>1, <2>2, <2>3, <2>4, <1>1
  <1> QED
    BY <1>2 DEF d, CountLaw, Distance

(* What a step that leaves the places in the ring alone must keep of the   *)
(* rest.                                                                    *)
LEMMA Elsewhere ==
    ASSUME IInv, UNCHANGED <<count, sbuf, device, slip, wr, last_write>>,
           Counted' = Counted, Uncounted' = Uncounted, ~slipped => Whole'
    PROVE  Law' /\ (~slipped' => Clean')
  <1>1. Copied' = Copied
    BY DEF Copied, Uncounted
  <1> QED
    BY <1>1, Zenon DEF IInv, Law, Distance, Clean, Placed, Filled, device, slip

(* The initial state. *)
LEMMA InitInv == ASSUME Init PROVE IInv
  <1>1. 0 % SbufSize = 0 /\ 0 % K = 0
    BY Sizes, Ring, Number DEF Once
  <1>2. TypeOK
    <2>1. 0 \in 0 .. SbufSize /\ 0 \in 0 .. SbufSize - 1 /\ 0 \in 0 .. K - 1
          /\ 0 \in 0 .. K /\ 0 \in 0 .. SbufSize + Word
      BY Sizes
    <2>2. sbuf \in [0 .. SbufSize - 1 -> 0 .. K]
      BY <2>1, Zenon DEF Init
    <2>3. {wr, head} \subseteq 0 .. K - 1
      BY <2>1 DEF Init
    <2>4. slipped \in BOOLEAN
      BY Zenon DEF Init
    <2> QED
      BY <2>1, <2>2, <2>3, <2>4 DEF Init, TypeOK
  <1>3. Asked
    BY DEF Init, Asked
  <1>4. Law
    BY Zero DEF Init, Law, Distance, Counted, Uncounted
  <1>5. Clean
    BY <1>1 DEF Init, Clean, Whole, Placed, Filled, Copied
  <1> QED
    BY <1>2, <1>3, <1>4, <1>5 DEF IInv

(* __am_audio_init copies the size of the ring and moves nothing. *)
LEMMA AudioInitInv == ASSUME IInv, AudioInit PROVE IInv'
  <1>1. TypeOK' /\ Asked'
    BY Sizes DEF IInv, TypeOK, Asked, AudioInit, device, slip
  <1>2. Counted' = Counted /\ Uncounted' = Uncounted /\ Whole'
    BY DEF AudioInit, Counted, Uncounted, Whole
  <1>3. Law' /\ (~slipped' => Clean')
    BY <1>2, Elsewhere DEF AudioInit
  <1> QED
    BY <1>1, <1>3 DEF IInv

(* A buffer is handed over; nothing of it is copied yet. *)
LEMMA AudioPlayInv == ASSUME IInv, AudioPlay PROVE IInv'
  <1>1. TypeOK' /\ Asked'
    BY Sizes DEF IInv, TypeOK, Asked, AudioPlay, device, slip
  <1>2. Counted' = Counted /\ Uncounted' = Uncounted /\ Whole'
    BY DEF AudioPlay, Counted, Uncounted, Whole
  <1>3. Law' /\ (~slipped' => Clean')
    BY <1>2, Elsewhere DEF AudioPlay
  <1> QED
    BY <1>1, <1>3 DEF IInv

(* The wait for room ends, which tells that the driver knows the ring, and  *)
(* moves nothing.                                                           *)
LEMMA WaitInv == ASSUME IInv, Wait PROVE IInv'
  <1>0. /\ pc = "wait" /\ pc' = "copy" /\ pos = 0 /\ pos' = 0 /\ len' = len
        /\ size' = size /\ count' = count /\ len \in Lens /\ count + len <= size
        /\ size \in {0, SbufSize} /\ count \in 0 .. SbufSize
    BY DEF IInv, TypeOK, Asked, Wait
  <1>1. size = SbufSize /\ len \in Nat /\ len > 0
    BY <1>0, Sizes
  <1>2. TypeOK'
    BY DEF IInv, TypeOK, Wait, device, slip
  <1>3. Asked'
    BY <1>0, <1>1, Sizes DEF Asked
  <1>4. Counted' = Counted /\ Uncounted' = Uncounted /\ Whole'
    BY <1>0, <1>1 DEF Counted, Uncounted, Whole
  <1>5. Law' /\ (~slipped' => Clean')
    BY <1>4, Elsewhere DEF Wait
  <1> QED
    BY <1>2, <1>3, <1>5 DEF IInv

(* A word goes where the bytes in the ring end, and on none of them as long *)
(* as COUNT is right.                                                       *)
LEMMA CopyInv == ASSUME IInv, Copy PROVE IInv'
  <1> DEFINE n == count + pos
  <1>0. /\ pc = "copy" /\ pc' = "copy" /\ pos \in Nat /\ pos < len /\ len \in Lens
        /\ size = SbufSize /\ pos' = pos + Word /\ count + len <= SbufSize
        /\ count' = count /\ count \in Nat /\ rd' = rd /\ head' = head /\ wr' = wr
        /\ rd \in 0 .. SbufSize - 1 /\ head \in 0 .. K - 1 /\ wr \in 0 .. K - 1
        /\ last_write \in 0 .. SbufSize - 1 /\ drift \in 0 .. SbufSize - 1
        /\ WholeWords(last_write) /\ len' = len /\ tmp' = tmp /\ size' = size
        /\ drift' = drift /\ out' = out
    BY Sizes DEF IInv, TypeOK, Asked, Law, Copy, device
  <1>1. /\ Copied = pos /\ Copied' = pos + Word
        /\ Counted = count /\ Counted' = count
        /\ Uncounted = pos /\ Uncounted' = pos + Word
    BY <1>0 DEF Copied, Counted, Uncounted
  <1>2. /\ n \in Nat /\ n < SbufSize /\ Word <= SbufSize
        /\ pos + Word \in Nat /\ pos + Word < len + Word
    BY <1>0, RingOfWords, Sizes
  <1>3. last_write + Word <= SbufSize /\ WholeWords(last_write + Word)
    BY <1>0, NextWord, RingOfWords, Sizes
  <1>4. last_write' = Once(last_write + Word, SbufSize)
    <2>1. last_write' = (last_write + Word) % SbufSize
      BY <1>0 DEF Copy
    <2> QED
      BY <2>1, <1>0, <1>2, Ring, Sizes, Zenon
  <1>5. TypeOK'
    <2>1. sbuf' \in [0 .. SbufSize - 1 -> 0 .. K]
      <3>1. \A a \in 0 .. SbufSize - 1 : a \in last_write .. last_write + Word - 1 =>
               (wr + pos + (a - last_write)) % K \in 0 .. K
        BY <1>0, Sizes
      <3>2. Junk \in 0 .. K
        BY Sizes DEF Junk
      <3> QED
        BY <3>1, <3>2, Zenon DEF Copy, IInv, TypeOK
    <2>2. last_write' \in 0 .. SbufSize - 1
      BY <1>0, <1>3, <1>4, Sizes DEF Once
    <2>3. pos' \in 0 .. SbufSize + Word
      BY <1>0, <1>2, Sizes
    <2>4. slipped' \in BOOLEAN
      BY Zenon DEF Copy, IInv, TypeOK
    <2> QED
      BY <2>1, <2>2, <2>3, <2>4, <1>0, Zenon DEF IInv, TypeOK
  <1>6. Asked'
    BY <1>0, <1>2, Sizes DEF Asked
  <1>7. Law'
    <2>1. WholeWords(last_write')
      BY <1>0, <1>3, <1>4, Zero, Sizes DEF Once
    <2>2. Distance' = count + rd + (pos + Word) - last_write' - drift
      BY <1>0, <1>1 DEF Distance
    <2>3. count + rd + pos - last_write - drift \in {-SbufSize, 0, SbufSize, 2 * SbufSize}
      BY <1>1 DEF IInv, Law, Distance
    <2>4. Distance' \in {-SbufSize, 0, SbufSize, 2 * SbufSize}
      BY <2>2, <2>3, <1>0, <1>2, <1>3, <1>4, Sizes DEF Once
    <2> QED
      BY <2>1, <2>4 DEF Law
  <1>8. ASSUME ~slipped' PROVE Clean'
    <2>0. /\ ~slipped /\ drift = 0 /\ Placed /\ Filled /\ ~(pos + Word > len)
      BY <1>8 DEF Copy, IInv, Clean
    <2>1. pos + Word <= len /\ n + Word <= SbufSize
      BY <2>0, <1>0, Sizes
    <2>2. last_write = Once(rd + n, SbufSize)
      <3>1. last_write = (rd + n) % SbufSize
        BY <2>0, <1>1 DEF Placed
      <3>2. n <= SbufSize
        BY <1>0, <1>2, Sizes
      <3> QED
        BY <3>1, <3>2, <1>0, <1>2, Ring
    <2>3. Placed'
      <3>1. (rd + (count + (pos + Word))) % SbufSize = Once(rd + (n + Word), SbufSize)
        <4>1. /\ n + Word \in Nat /\ n + Word <= SbufSize
              /\ count + (pos + Word) = n + Word
          BY <1>0, <1>2, <2>1, Sizes
        <4>2. (rd + (n + Word)) % SbufSize = Once(rd + (n + Word), SbufSize)
          BY <4>1, <1>0, Ring
        <4> QED
          BY <4>1, <4>2
      <3>2. last_write' = (rd + (count + (pos + Word))) % SbufSize
        BY <3>1, <2>1, <2>2, <1>0, <1>2, <1>3, <1>4, Sizes DEF Once
      <3> QED
        BY <3>2, <1>0, <1>1 DEF Placed
    <2>4. ASSUME NEW k \in Nat, k < n + Word
          PROVE  sbuf'[(rd + k) % SbufSize] = (head + k) % K
      <3> DEFINE a == (rd + k) % SbufSize
      <3>1. a = Once(rd + k, SbufSize) /\ a \in 0 .. SbufSize - 1
        BY <2>1, <2>4, <1>0, <1>2, Ring, Sizes DEF Once
      <3>2. CASE k < n
        <4>1. a \notin last_write .. last_write + Word - 1
          BY <3>1, <3>2, <1>0, <1>2, <1>3, <2>1, <2>2, Sizes DEF Once
        <4>2. sbuf[a] = (head + k) % K
          BY <3>2, <2>0, <1>1 DEF Filled
        <4> QED
          BY <4>1, <4>2, <3>1 DEF Copy
      <3>3. CASE k >= n
        <4>1. a \in last_write .. last_write + Word - 1 /\ a - last_write = k - n
          BY <3>1, <3>3, <2>1, <2>2, <2>4, <1>0, <1>2, <1>3, Sizes DEF Once
        <4>2. sbuf'[a] = (wr + (k - count)) % K
          <5>1. /\ wr + pos + (a - last_write) = wr + (k - count)
                /\ pos + (a - last_write) < len
            BY <4>1, <2>1, <2>4, <1>0, Sizes
          <5>2. sbuf'[a] = (wr + pos + (a - last_write)) % K
            BY <4>1, <5>1, <3>1 DEF Copy
          <5> QED
            BY <5>1, <5>2
        <4>3. wr = Once(head + count, K)
          <5>1. wr = (head + count) % K /\ count <= SbufSize
            BY <1>0, <1>2, <2>0, Sizes DEF Filled
          <5> QED
            BY <5>1, <1>0, Number
        <4>4. (wr + (k - count)) % K = Once(wr + (k - count), K)
          <5>1. k - count \in Nat /\ k - count <= SbufSize
            BY <1>0, <1>2, <2>1, <2>4, <3>3, Sizes
          <5> QED
            BY <5>1, <1>0, Number
        <4>5. (head + k) % K = Once(head + k, K)
          <5>1. k <= SbufSize
            BY <1>0, <1>2, <2>1, <2>4, Sizes
          <5> QED
            BY <5>1, <1>0, Number
        <4> QED
          BY <4>2, <4>3, <4>4, <4>5, <1>0, <1>2, <2>1, <2>4, <3>3, Sizes DEF Once
      <3> QED
        BY <3>2, <3>3, <1>2, <2>4, <1>0
    <2>5. Filled'
      <3>1. count' + Copied' = n + Word
        BY <1>0, <1>1, Sizes
      <3>2. wr' = (head' + count') % K
        BY <1>0, <2>0 DEF Filled
      <3> QED
        BY <2>4, <3>1, <3>2, <1>0 DEF Filled
    <2>6. Whole'
      BY <1>0, <2>1, Sizes DEF Whole
    <2> QED
      BY <2>0, <2>3, <2>5, <2>6, <1>0 DEF Clean
  <1> QED
    BY <1>5, <1>6, <1>7, <1>8 DEF IInv

(* COUNT is read when all is copied. *)
LEMMA ReadCountInv == ASSUME IInv, ReadCount PROVE IInv'
  <1>1. TypeOK' /\ Asked'
    BY Sizes DEF IInv, TypeOK, Asked, ReadCount, device, slip
  <1>2. Counted' = Counted /\ Uncounted' = Uncounted
    BY DEF ReadCount, Counted, Uncounted
  <1>3. ~slipped => Whole'
    BY DEF IInv, Clean, Whole, ReadCount
  <1>4. Law' /\ (~slipped' => Clean')
    BY <1>2, <1>3, Elsewhere DEF ReadCount
  <1> QED
    BY <1>1, <1>4 DEF IInv

(* What was copied is now counted; what was copied beyond the sound is not, *)
(* nor what the device took meanwhile.                                      *)
LEMMA WriteCountInv ==
    ASSUME IInv, WriteCount
    PROVE  IInv' /\ (~slipped' => count' = count + len /\ len \in 1 .. SbufSize)
  <1>0. /\ pc = "count" /\ pc' = "idle" /\ len \in Nat /\ len > 0 /\ len \in Lens
        /\ tmp + len <= SbufSize /\ tmp \in Nat /\ count' = tmp + len
        /\ pos \in Nat /\ pos >= len /\ pos < len + Word /\ count \in Nat
        /\ wr' = (wr + len) % K /\ rd' = rd /\ head' = head /\ wr \in 0 .. K - 1
        /\ rd \in 0 .. SbufSize - 1 /\ head \in 0 .. K - 1
        /\ last_write \in 0 .. SbufSize - 1 /\ drift \in 0 .. SbufSize - 1
        /\ drift' = (drift + len - pos) % SbufSize /\ last_write' = last_write
        /\ sbuf' = sbuf /\ slipped' = slipped /\ size = SbufSize
    BY Sizes DEF IInv, TypeOK, Asked, WriteCount, device
  <1>1. drift' = IF drift + len - pos < 0 THEN drift + len - pos + SbufSize
                                          ELSE drift + len - pos
    <2>1. /\ drift + len - pos \in Int /\ -SbufSize <= drift + len - pos
          /\ drift + len - pos < SbufSize /\ SbufSize \in Nat \ {0}
      BY <1>0, RingOfWords, Sizes
    <2> QED
      BY <2>1, <1>0, ModShort
  <1>2. TypeOK'
    <2>1. count' \in 0 .. SbufSize /\ wr' \in 0 .. K - 1
      BY <1>0, Sizes
    <2>2. drift' \in 0 .. SbufSize - 1
      BY <1>0, <1>1, RingOfWords, Sizes
    <2> QED
      BY <2>1, <2>2, <1>0 DEF IInv, TypeOK, WriteCount, device
  <1>3. Asked'
    BY <1>0 DEF Asked
  <1>4. Law'
    <2>1. tmp + rd + pos - last_write - drift \in {-SbufSize, 0, SbufSize, 2 * SbufSize}
      BY <1>0 DEF IInv, Law, Distance, Counted, Uncounted
    <2>2. Distance' = tmp + len + rd + 0 - last_write - drift'
      BY <1>0 DEF Distance, Counted, Uncounted
    <2>3. Distance' \in {-SbufSize, 0, SbufSize, 2 * SbufSize}
      BY <2>1, <2>2, <1>0, <1>1, RingOfWords, Sizes
    <2> QED
      BY <2>3, <1>0 DEF IInv, Law
  <1>5. ASSUME ~slipped'
        PROVE  Clean' /\ count' = count + len /\ len \in 1 .. SbufSize
    <2>0. drift = 0 /\ pos = len /\ tmp = count /\ Placed /\ Filled
      BY <1>0, <1>5, Sizes DEF IInv, Clean, Whole
    <2>1. /\ Copied = len /\ Copied' = 0 /\ count' = count + len
          /\ count' + Copied' = count + Copied /\ drift' = 0
      BY <1>0, <1>1, <2>0, Sizes DEF Copied
    <2>2. Placed'
      BY <2>0, <2>1, <1>0 DEF Placed
    <2>3. wr' = (head + (count + len)) % K
      <3>1. wr = Once(head + count, K)
        <4>1. count <= SbufSize
          BY <1>0, <2>0, Sizes
        <4> QED
          BY <4>1, <1>0, <2>0, Number DEF Filled
      <3>2. wr' = Once(wr + len, K)
        <4>1. len <= SbufSize
          BY <1>0, Sizes
        <4> QED
          BY <4>1, <1>0, Number
      <3>3. (head + (count + len)) % K = Once(head + (count + len), K)
        BY <1>0, <2>0, Number
      <3> QED
        BY <3>1, <3>2, <3>3, <1>0, <2>0, Sizes DEF Once
    <2>4. Filled'
      <3>1. ASSUME NEW k \in Nat, k < count' + Copied'
            PROVE  sbuf'[(rd' + k) % SbufSize] = (head' + k) % K
        BY <3>1, <2>0, <2>1, <1>0 DEF Filled
      <3> QED
        BY <3>1, <2>1, <2>3, <1>0 DEF Filled
    <2>5. Whole'
      BY <1>0 DEF Whole
    <2>6. len \in 1 .. SbufSize
      BY <1>0, Sizes
    <2> QED
      BY <2>1, <2>2, <2>4, <2>5, <2>6 DEF Clean
  <1> QED
    BY <1>2, <1>3, <1>4, <1>5 DEF IInv

(* The device takes bytes from the front; between the driver's read and its *)
(* write of COUNT they enter the drift.                                     *)
LEMMA DevicePlayInv ==
    ASSUME IInv, DevicePlay
    PROVE  /\ IInv'
           /\ ~slipped' => \E n \in 0 .. SbufSize :
                  /\ n <= count
                  /\ out' = [k \in 1 .. n |-> (head + k - 1) % K]
                  /\ head' = (head + n) % K
                  /\ count' = count - n
  <1>0. /\ count \in 0 .. SbufSize /\ rd \in 0 .. SbufSize - 1 /\ head \in 0 .. K - 1
        /\ pc' = pc /\ sbuf' = sbuf /\ last_write' = last_write /\ pos' = pos
        /\ wr' = wr /\ Copied' = Copied /\ len' = len /\ tmp' = tmp /\ size' = size
        /\ last_write \in 0 .. SbufSize - 1 /\ drift \in 0 .. SbufSize - 1
        /\ tmp \in 0 .. SbufSize /\ pos \in Nat /\ Uncounted' = Uncounted
    BY Sizes DEF IInv, TypeOK, DevicePlay, driver, Copied, Uncounted
  <1>1. PICK want \in 1 .. MaxPlay :
          LET n == IF want < count THEN want ELSE count
          IN  /\ out' = [k \in 1 .. n |-> sbuf[(rd + k - 1) % SbufSize]]
              /\ rd' = (rd + n) % SbufSize
              /\ head' = (head + n) % K
              /\ count' = count - n
              /\ drift' = IF pc = "count" THEN (drift + n) % SbufSize ELSE drift
              /\ slipped' = (slipped \/ (pc = "count" /\ n > 0))
    BY DEF DevicePlay
  <1> DEFINE n == IF want < count THEN want ELSE count
  <1>2. /\ n \in Nat /\ n <= count /\ n <= SbufSize
        /\ out' = [k \in 1 .. n |-> sbuf[(rd + k - 1) % SbufSize]]
        /\ rd' = (rd + n) % SbufSize
        /\ head' = (head + n) % K
        /\ count' = count - n
        /\ drift' = IF pc = "count" THEN (drift + n) % SbufSize ELSE drift
        /\ slipped' = (slipped \/ (pc = "count" /\ n > 0))
    <2>1. n \in Nat /\ n <= count /\ n <= SbufSize
      BY <1>0, Sizes
    <2> QED
      BY <2>1, <1>1
  <1> HIDE DEF n
  <1>3. rd' = Once(rd + n, SbufSize) /\ head' = Once(head + n, K)
    BY <1>0, <1>2, Ring, Number
  <1>4. rd' \in 0 .. SbufSize - 1 /\ head' \in 0 .. K - 1
    BY <1>3, <1>0, <1>2, Sizes DEF Once
  <1>5. /\ drift' = IF pc = "count" THEN Once(drift + n, SbufSize) ELSE drift
        /\ drift' \in 0 .. SbufSize - 1
    <2>1. (drift + n) % SbufSize = Once(drift + n, SbufSize)
      BY <1>0, <1>2, Ring
    <2>2. Once(drift + n, SbufSize) \in 0 .. SbufSize - 1
      BY <1>0, <1>2, Sizes DEF Once
    <2> QED
      BY <2>1, <2>2, <1>0, <1>2
  <1>6. TypeOK' /\ Asked'
    <2>1. count' \in 0 .. SbufSize
      BY <1>0, <1>2, Sizes
    <2>2. slipped' \in BOOLEAN
      BY <1>2, Zenon DEF IInv, TypeOK
    <2>3. TypeOK'
      BY <2>1, <2>2, <1>0, <1>4, <1>5 DEF IInv, TypeOK, DevicePlay, driver
    <2>4. Asked'
      <3>1. /\ pc # "idle" => len \in Nat
            /\ pc = "copy" => count + len <= SbufSize
            /\ pc = "count" => count <= tmp
        BY Sizes DEF IInv, Asked
      <3>2. /\ pc = "copy" => count' + len <= SbufSize
            /\ pc = "count" => count' <= tmp
        BY <3>1, <1>0, <1>2, Sizes
      <3> QED
        BY <3>2, <1>0 DEF IInv, Asked
    <2> QED
      BY <2>3, <2>4
  <1>7. Law'
    <2>0. /\ Uncounted \in Nat /\ Counted \in 0 .. SbufSize
          /\ Counted + rd + Uncounted - last_write - drift
                \in {-SbufSize, 0, SbufSize, 2 * SbufSize}
          /\ Counted + Uncounted < 2 * SbufSize
      <3>1. pc \in {"copy", "count"} => Counted + pos < 2 * SbufSize
        <4>1. pc \in {"copy", "count"} =>
                 len \in Nat /\ pos < len + Word /\ Counted + len <= SbufSize
          BY Sizes DEF IInv, Asked, Counted
        <4>2. Counted \in 0 .. SbufSize
          BY <1>0 DEF Counted
        <4> QED
          BY <4>1, <4>2, <1>0, RingOfWords, Sizes
      <3>2. pc \notin {"copy", "count"} => Counted + 0 < 2 * SbufSize
        BY <1>0, Sizes DEF Counted
      <3>3. Counted \in 0 .. SbufSize /\ Uncounted \in Nat
        BY <1>0 DEF Counted, Uncounted
      <3>4. Counted + Uncounted < 2 * SbufSize
        BY <3>1, <3>2 DEF Uncounted
      <3> QED
        BY <3>3, <3>4 DEF IInv, Law, Distance
    <2>1. Distance' = Counted' + rd' + Uncounted - last_write - drift'
      BY <1>0 DEF Distance
    <2>2. CASE pc = "count"
      <3>1. Counted' = Counted
        BY <2>2, <1>0 DEF Counted
      <3>2. Distance' \in {-SbufSize, 0, SbufSize, 2 * SbufSize}
        BY <3>1, <2>0, <2>1, <2>2, <1>0, <1>2, <1>3, <1>5, Sizes DEF Once
      <3> QED
        BY <3>2, <1>0 DEF IInv, Law
    <2>3. CASE pc # "count"
      <3>1. Counted = count /\ Counted' = count - n /\ drift' = drift
        BY <2>3, <1>0, <1>2 DEF Counted
      <3>2. Distance' \in {-SbufSize, 0, SbufSize, 2 * SbufSize}
        BY <3>1, <2>0, <2>1, <1>0, <1>2, <1>3, Sizes DEF Once
      <3> QED
        BY <3>2, <1>0 DEF IInv, Law
    <2> QED
      BY <2>2, <2>3
  <1>8. ASSUME ~slipped'
        PROVE  Clean' /\ out' = [k \in 1 .. n |-> (head + k - 1) % K]
    <2>0. /\ drift = 0 /\ Placed /\ Filled /\ Whole
          /\ pc = "count" => n = 0 /\ tmp = count
      <3>1. ~slipped /\ ~(pc = "count" /\ n > 0)
        BY <1>2, <1>8
      <3>2. drift = 0 /\ Placed /\ Filled /\ Whole
        BY <3>1 DEF IInv, Clean
      <3>3. ~(n > 0) => n = 0
        BY <1>2
      <3> QED
        BY <3>1, <3>2, <3>3 DEF Whole
    <2>00. Copied \in Nat /\ count + Copied <= SbufSize
      <3>1. pc \in {"copy", "count"} =>
               /\ len \in Nat /\ pos <= len
               /\ count + len <= SbufSize
        BY <2>0, Sizes DEF IInv, Asked, Whole
      <3>2. pc \in {"copy", "count"} => count + pos <= SbufSize
        BY <3>1, <1>0, Sizes
      <3> QED
        BY <3>2, <1>0, Sizes DEF Copied
    <2>1. \A k \in Nat : k <= SbufSize - n =>
             /\ (rd' + k) % SbufSize = (rd + (n + k)) % SbufSize
             /\ (head' + k) % K = (head + (n + k)) % K
      <3> SUFFICES ASSUME NEW k \in Nat, k <= SbufSize - n
                   PROVE  /\ (rd' + k) % SbufSize = (rd + (n + k)) % SbufSize
                          /\ (head' + k) % K = (head + (n + k)) % K
        OBVIOUS
      <3>1. k <= SbufSize /\ n + k <= SbufSize /\ n + k \in Nat
        BY <1>2, Sizes
      <3>2. /\ (rd' + k) % SbufSize = Once(rd' + k, SbufSize)
            /\ (rd + (n + k)) % SbufSize = Once(rd + (n + k), SbufSize)
        BY <3>1, <1>0, <1>4, Ring
      <3>3. /\ (head' + k) % K = Once(head' + k, K)
            /\ (head + (n + k)) % K = Once(head + (n + k), K)
        BY <3>1, <1>0, <1>4, Number
      <3>4. Once(rd' + k, SbufSize) = Once(rd + (n + k), SbufSize)
        BY <3>1, <1>0, <1>2, <1>3, Sizes DEF Once
      <3>5. Once(head' + k, K) = Once(head + (n + k), K)
        <4>1. head \in Nat /\ head < K /\ n + k < K /\ k < K /\ K \in Nat
          BY <3>1, <1>0, <1>2, Sizes
        <4>2. CASE head + n < K
          BY <4>1, <4>2, <3>1, <1>2, <1>3 DEF Once
        <4>3. CASE head + n >= K
          <5>1. head' = head + n - K
            BY <4>3, <1>3, <4>1, <1>2 DEF Once
          <5>2. Once(head' + k, K) = head' + k
            BY <5>1, <4>1, <4>3, <3>1, <1>2 DEF Once
          <5>3. Once(head + (n + k), K) = head + (n + k) - K
            BY <4>1, <4>3, <3>1, <1>2 DEF Once
          <5> QED
            BY <5>1, <5>2, <5>3, <4>1, <3>1, <1>2
        <4> QED
          BY <4>1, <4>2, <4>3, <1>2
      <3> QED
        BY <3>2, <3>3, <3>4, <3>5
    <2>2. drift' = 0
      <3>1. pc = "count" => Once(0 + 0, SbufSize) = 0
        BY Sizes DEF Once
      <3> QED
        BY <3>1, <2>0, <1>5
    <2>3. Whole'
      <3>1. pc = "count" => count' = count
        BY <2>0, <1>0, <1>2
      <3> QED
        BY <3>1, <2>0, <1>0 DEF Whole
    <2>4. Placed'
      <3>1. count - n + Copied \in Nat /\ count - n + Copied <= SbufSize - n
            /\ n + (count - n + Copied) = count + Copied
        BY <1>0, <1>2, <2>00, Sizes
      <3>2. (rd' + (count' + Copied')) % SbufSize = (rd + (count + Copied)) % SbufSize
        BY <3>1, <1>0, <1>2, <2>1
      <3> QED
        BY <3>2, <1>0, <2>0 DEF Placed
    <2>5. Filled'
      <3>1. wr' = (head' + count') % K
        <4>1. count - n \in Nat /\ count - n <= SbufSize - n /\ n + (count - n) = count
          BY <1>0, <1>2, Sizes
        <4>2. (head' + count') % K = (head + count) % K
          BY <4>1, <1>2, <2>1
        <4> QED
          BY <4>2, <1>0, <2>0 DEF Filled
      <3>2. ASSUME NEW k \in Nat, k < count' + Copied'
            PROVE  sbuf'[(rd' + k) % SbufSize] = (head' + k) % K
        <4>1. n + k \in Nat /\ n + k < count + Copied /\ k <= SbufSize - n
          BY <3>2, <1>0, <1>2, <2>00, Sizes
        <4>2. sbuf[(rd + (n + k)) % SbufSize] = (head + (n + k)) % K
          BY <4>1, <2>0 DEF Filled
        <4> QED
          BY <4>1, <4>2, <1>0, <2>1
      <3> QED
        BY <3>1, <3>2 DEF Filled
    <2>6. out' = [k \in 1 .. n |-> (head + k - 1) % K]
      <3>1. ASSUME NEW k \in 1 .. n
            PROVE  sbuf[(rd + k - 1) % SbufSize] = (head + k - 1) % K
        <4>1. /\ k - 1 \in Nat /\ k - 1 < count + Copied
              /\ rd + k - 1 = rd + (k - 1) /\ head + k - 1 = head + (k - 1)
          BY <1>0, <1>2, <2>00, Sizes
        <4>2. sbuf[(rd + (k - 1)) % SbufSize] = (head + (k - 1)) % K
          BY <4>1, <2>0 DEF Filled
        <4> QED
          BY <4>1, <4>2
      <3> QED
        BY <3>1, <1>2
    <2> QED
      BY <2>2, <2>3, <2>4, <2>5, <2>6 DEF Clean
  <1>9. IInv'
    BY <1>6, <1>7, <1>8 DEF IInv
  <1>10. n \in 0 .. SbufSize
    BY <1>2, Sizes
  <1> QED
    BY <1>2, <1>8, <1>9, <1>10, Zenon

(* A step of none of them. *)
LEMMA StutterInv == ASSUME IInv, UNCHANGED vars PROVE IInv'
  <1>1. Counted' = Counted /\ Uncounted' = Uncounted /\ Whole' = Whole
    BY DEF vars, driver, Counted, Uncounted, Whole
  <1>2. Law' /\ (~slipped' => Clean')
    BY <1>1, Elsewhere DEF vars, driver, IInv, Clean
  <1>3. TypeOK' /\ Asked'
    BY DEF vars, driver, device, slip, IInv, TypeOK, Asked
  <1> QED
    BY <1>2, <1>3 DEF IInv

(* Every step keeps the invariant, and unless COUNT has gone wrong it is a  *)
(* step of the stream or none.                                              *)
LEMMA Step ==
    ASSUME IInv, [Next]_vars
    PROVE  IInv' /\ [~slipped' => Stream!Next]_(<<head, count, out>>)
  <1>1. CASE AudioInit
    BY <1>1, AudioInitInv DEF AudioInit, device
  <1>2. CASE AudioPlay
    BY <1>2, AudioPlayInv DEF AudioPlay, device
  <1>3. CASE Wait
    BY <1>3, WaitInv DEF Wait, device
  <1>4. CASE Copy
    BY <1>4, CopyInv DEF Copy, device
  <1>5. CASE ReadCount
    BY <1>5, ReadCountInv DEF ReadCount, device
  <1>6. CASE WriteCount
    <2>1. IInv' /\ (~slipped' => count' = count + len /\ len \in 1 .. SbufSize)
      BY <1>6, WriteCountInv
    <2>2. UNCHANGED <<head, out>>
      BY <1>6 DEF WriteCount, device
    <2>3. ~slipped' => Stream!Submit
      BY <2>1, <2>2 DEF Stream!Submit
    <2> QED
      BY <2>1, <2>3 DEF Stream!Next
  <1>7. CASE DevicePlay
    <2>1. IInv' /\ (~slipped' => Stream!Play)
      BY <1>7, DevicePlayInv DEF Stream!Play
    <2> QED
      BY <2>1 DEF Stream!Next
  <1>8. CASE UNCHANGED vars
    BY <1>8, StutterInv DEF vars, device
  <1> QED
    BY <1>1, <1>2, <1>3, <1>4, <1>5, <1>6, <1>7, <1>8 DEF Next, PlayStep

-----------------------------------------------------------------------------
(* The invariant of ring, COUNT and places is inductive, with and without   *)
(* an initialised driver, for sounds of any length, and with the device     *)
(* playing between the driver's read of COUNT and its write.                *)
THEOREM NemuAudioInvariant == Spec => []IInv
  <1>1. Init => IInv
    BY InitInv
  <1>2. IInv /\ [Next]_vars => IInv'
    BY Step
  <1> QED
    BY <1>1, <1>2, PTL DEF Spec

(* __am_audio_play and the device are a stream until the device plays in    *)
(* the driver's update of COUNT or a sound is not a whole number of words;  *)
(* from then on COUNT is off by exactly the bytes of both kinds, and stays  *)
(* within the ring.                                                         *)
THEOREM NemuAudioImplementsStream == Spec => StreamSpec
  <1>1. Init => Stream!Init
    BY DEF Init, Stream!Init
  <1>2. IInv /\ [Next]_vars => [~slipped' => Stream!Next]_(<<head, count, out>>)
    BY Step
  <1>3. IInv => TypeOK /\ CountLaw /\ (~slipped => drift = 0)
    BY LawIsCountLaw DEF IInv, Clean
  <1> QED
    BY <1>1, <1>2, <1>3, NemuAudioInvariant, PTL DEF Spec, StreamSpec
=============================================================================
