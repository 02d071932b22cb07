---------------------------- MODULE Devices_proofs ----------------------------
(* Proofs about five parts of Devices, each on its own, since a behaviour of *)
(* Devices looks at one of them: the keys native queues (KeyQueue), the      *)
(* clocks that are read in pieces (Clocks), the disk of x86-qemu (Disk), the *)
(* registers through which programs reach devices (Ioe), and the consoles    *)
(* that putch and getchar wait for (Consoles).                               *)
EXTENDS KeyQueue, Clocks, Disk, Ioe, Consoles, SequenceTheorems, WellFoundedInduction, TLAPS

-----------------------------------------------------------------------------
(* Division: quotient and remainder, and that they are the only ones.       *)

LEMMA DivMod ==
  ASSUME NEW a \in Int, NEW n \in Nat \ {0}
  PROVE  /\ a % n \in 0 .. n-1 /\ a \div n \in Int /\ a = n * (a \div n) + (a % n)
  BY Z3

LEMMA SmallProduct ==
  ASSUME NEW n \in Nat \ {0}, NEW k \in Int, -n < n * k, n * k < n
  PROVE  k = 0
<1>1. CASE k >= 1
  <2>1. n * k >= n * 1 BY <1>1, Z3
  <2> QED BY <2>1, Z3
<1>2. CASE k <= -1
  <2>1. n * k <= n * (-1) BY <1>2, Z3
  <2> QED BY <2>1, Z3
<1> QED BY <1>1, <1>2, Z3

LEMMA ModUnique ==
  ASSUME NEW n \in Nat \ {0}, NEW q \in Int, NEW r \in 0 .. n-1
  PROVE  (n * q + r) % n = r /\ (n * q + r) \div n = q
<1> DEFINE a == n * q + r
<1>1. a \in Int BY Z3
<1>2. /\ a % n \in 0 .. n-1 /\ a \div n \in Int /\ a = n * (a \div n) + (a % n)
  BY <1>1, DivMod, Zenon
<1>3. PICK d \in Int, m \in 0 .. n-1 : d = a \div n /\ m = a % n BY <1>2
<1>4. n * d + m = n * q + r BY <1>2, <1>3
<1>5. n * (q - d) = m - r BY <1>4, Z3
<1>6. q - d = 0 BY <1>5, SmallProduct, Z3
<1>7. q = d /\ m = r BY <1>5, <1>6, Z3
<1> QED BY <1>3, <1>7

LEMMA DivOrder ==
  ASSUME NEW a \in Int, NEW b \in Int, NEW n \in Nat \ {0}, a <= b
  PROVE  /\ a \div n <= b \div n
         /\ b < a + n => b \div n \in {a \div n, a \div n + 1}
<1>1. PICK p \in Int, r \in 0 .. n-1 : p = a \div n /\ r = a % n /\ a = n * p + r BY DivMod
<1>2. PICK q \in Int, s \in 0 .. n-1 : q = b \div n /\ s = b % n /\ b = n * q + s BY DivMod
<1>3. n * (q - p) = b - a + r - s BY <1>1, <1>2, Z3
<1>4. q >= p
  <2> SUFFICES ASSUME q - p <= -1 PROVE FALSE BY Z3
  <2>1. n * (q - p) <= n * (-1) BY Z3
  <2> QED BY <1>3, <2>1, Z3
<1>5. b < a + n => q <= p + 1
  <2> SUFFICES ASSUME b < a + n, q - p >= 2 PROVE FALSE BY Z3
  <2>1. n * (q - p) >= n * 2 BY Z3
  <2> QED BY <1>3, <2>1, Z3
<1> QED BY <1>1, <1>2, <1>4, <1>5, Z3

LEMMA NatProduct == \A a, b \in Nat \ {0} : a * b \in Nat \ {0}
<1> SUFFICES ASSUME NEW a \in Nat \ {0}, NEW b \in Nat \ {0} PROVE a * b \in Nat \ {0} OBVIOUS
<1>1. a * b >= a * 1 BY Z3
<1> QED BY <1>1, Z3

-----------------------------------------------------------------------------
(* KeyQueue.                                                                *)

\* what native's key queue does, in a behaviour of Devices that looks at it
KeySpec == KeyQueueInit /\ [][KeyQueueNext]_kvars

Frame == [by : {"poll", "handler"}, at : {"lock", "test", "take", "advance", "unlock"}, k : Nat]
KeyTypeOK ==
  /\ key_queue \in [0..KEY_QUEUE_LEN-1 -> Nat]
  /\ key_f \in 0..KEY_QUEUE_LEN-1 /\ key_r \in 0..KEY_QUEUE_LEN-1
  /\ owner \in [by : {"none", "event", "app"}, n : Nat]
  /\ event \in [at : {"wait", "lock", "store", "advance", "unlock", "interrupt"}, code : Nat]
  /\ pressed \in 0..MaxKeys /\ intr \in BOOLEAN
  /\ app \in Seq(Frame) /\ Len(app) <= 1
  /\ given \in Seq([keydown : BOOLEAN, keycode : Nat])

\* the program has taken a key that it has not been given yet
Held == app # <<>> /\ Top.at = "unlock" /\ Top.k # 0

(* The mutex is held by the thread or the call that is between its lock and *)
(* its unlock, once.                                                       *)
Mutex ==
  /\ owner.n = IF owner.by = "none" THEN 0 ELSE 1
  /\ owner.by = "event" <=> event.at \in {"store", "advance", "unlock"}
  /\ owner.by = "app" <=> app # <<>> /\ Top.at # "lock"

\* of the ring's length
Multiple(a) == a % KEY_QUEUE_LEN = 0

(* The keys are counted: those that are in the ring or were, those of them  *)
(* that wait, those the program is past, also the ones the ring lost by      *)
(* going round, and those it was given.                                    *)
Code(n) == n + (IF Down(n) THEN KEYDOWN_MASK ELSE 0)
Arrived == pressed - (IF event.at \in {"lock", "store", "advance"} THEN 1 ELSE 0)
Taken == Len(given) + (IF Held THEN 1 ELSE 0)
Waiting == IF key_f <= key_r THEN key_r - key_f ELSE key_r - key_f + KEY_QUEUE_LEN
Passed == Arrived - Waiting

(* A slot holds the youngest key that has its place in the ring, except the *)
(* one that is being stored.                                               *)
Slots ==
  \A i \in 0..KEY_QUEUE_LEN-1 : \A n \in Arrived-KEY_QUEUE_LEN+1..Arrived :
    Multiple(n - 1 - i) =>
      key_queue[i] = IF event.at = "advance" /\ i = key_r THEN Code(pressed)
                     ELSE IF n >= 1 THEN Code(n) ELSE 0

(* Whole rounds were lost; key_f counts the keys taken.                     *)
Counts ==
  /\ Arrived >= 0
  /\ Taken <= Passed /\ Multiple(Passed - Taken) /\ Multiple(key_f - Taken)

(* The event thread stores the latest key.                                  *)
Coming == event.at \in {"lock", "store", "advance"} => event.code = Code(pressed)

(* A call takes something only when something waits, and takes the oldest   *)
(* key that the ring still has.                                            *)
Calls ==
  app # <<>> =>
    /\ Top.at \in {"take", "advance"} => key_f # key_r
    /\ Top.at \notin {"advance", "unlock"} => Top.k = 0
    /\ Top.at = "advance" => Top.k = Code(Passed + 1)
    /\ Held => Top.k = Code(Passed)

(* What the program has: at most one key of each round and place, in order. *)
Given ==
  \A i \in 1..Len(given) :
    LET n == given[i].keycode
    IN /\ given[i].keydown = Down(n) /\ n >= i /\ Multiple(n - i)
       /\ i > 1 => n > given[i-1].keycode
       /\ n <= Passed - (IF Held THEN 1 ELSE 0)

KeyInv == KeyTypeOK /\ Mutex /\ Slots /\ Counts /\ Coming /\ Calls /\ Given

-----------------------------------------------------------------------------
LEMMA MultipleSum ==
  ASSUME NEW a \in Int, NEW b \in Int, Multiple(a), Multiple(b)
  PROVE  Multiple(a + b) /\ Multiple(a - b)
<1> DEFINE n == KEY_QUEUE_LEN
<1>1. n \in Nat \ {0} BY KeyQueueAssumption
<1>2. PICK p \in Int, q \in Int : a = n * p /\ b = n * q
  <2>1. a = n * (a \div n) + (a % n) /\ a \div n \in Int BY <1>1, DivMod
  <2>2. b = n * (b \div n) + (b % n) /\ b \div n \in Int BY <1>1, DivMod
  <2>3. a % n = 0 /\ b % n = 0 BY DEF Multiple
  <2>4. a = n * (a \div n) /\ b = n * (b \div n) BY <2>1, <2>2, <2>3, <1>1
  <2> QED BY <2>1, <2>2, <2>4
<1>3. a + b = n * (p + q) + 0 /\ a - b = n * (p - q) + 0 BY <1>1, <1>2, Z3
<1>4. 0 \in 0 .. n-1 /\ p + q \in Int /\ p - q \in Int BY <1>1
<1>5. (n * (p + q) + 0) % n = 0 /\ (n * (p - q) + 0) % n = 0
  <2> HIDE DEF n
  <2> QED BY <1>1, <1>4, ModUnique
<1> QED BY <1>3, <1>5 DEF Multiple

LEMMA MultipleSmall ==
  ASSUME NEW a \in Int, -KEY_QUEUE_LEN < a, a < KEY_QUEUE_LEN, Multiple(a)
  PROVE  a = 0
<1> DEFINE n == KEY_QUEUE_LEN
<1>1. n \in Nat \ {0} BY KeyQueueAssumption
<1>2. a = n * (a \div n) + (a % n) /\ a \div n \in Int BY <1>1, DivMod
<1>3. PICK d \in Int : d = a \div n BY <1>2
<1>4. a = n * d BY <1>1, <1>2, <1>3 DEF Multiple
<1>5. d = 0 BY <1>1, <1>4, SmallProduct
<1> QED BY <1>1, <1>4, <1>5

LEMMA MultipleLen == Multiple(0) /\ Multiple(KEY_QUEUE_LEN)
<1> DEFINE n == KEY_QUEUE_LEN
<1>1. n \in Nat \ {0} BY KeyQueueAssumption
<1>2. (n * 0 + 0) % n = 0 /\ (n * 1 + 0) % n = 0
  <2> HIDE DEF n
  <2> QED BY <1>1, ModUnique
<1>3. n * 0 + 0 = 0 /\ n * 1 + 0 = n BY <1>1
<1> QED BY <1>2, <1>3 DEF Multiple

LEMMA NextOfFact ==
  ASSUME NEW i \in 0..KEY_QUEUE_LEN-1
  PROVE  /\ NextOf(i) \in 0..KEY_QUEUE_LEN-1
         /\ NextOf(i) = IF i + 1 = KEY_QUEUE_LEN THEN 0 ELSE i + 1
<1> DEFINE n == KEY_QUEUE_LEN
<1>1. n \in Nat \ {0} BY KeyQueueAssumption
<1>2. CASE i + 1 = n
  <2>1. (i + 1) % n = 0 BY <1>2, <1>1, MultipleLen DEF Multiple
  <2> QED BY <2>1, <1>1, <1>2 DEF NextOf
<1>3. CASE i + 1 < n
  <2>1. (n * 0 + (i + 1)) % n = i + 1
    <3>1. i + 1 \in 0 .. n-1 BY <1>1, <1>3
    <3> HIDE DEF n
    <3> QED BY <1>1, <3>1, ModUnique, SMTT(60)
  <2>2. n * 0 + (i + 1) = i + 1 BY <1>1
  <2>3. NextOf(i) = i + 1 BY <2>1, <2>2 DEF NextOf
  <2> QED BY <2>3, <1>1, <1>3
<1> QED BY <1>1, <1>2, <1>3

LEMMA CodeFact ==
  ASSUME NEW n \in 0..MaxKeys
  PROVE  /\ Code(n) \in Nat /\ (n > 0 => Code(n) # 0)
         /\ Code(n) % KEYDOWN_MASK = n /\ (Code(n) \div KEYDOWN_MASK = 1 <=> Down(n))
<1> DEFINE m == KEYDOWN_MASK
<1>1. m \in Nat \ {0} /\ n \in 0 .. m-1 BY KeyQueueAssumption
<1>3. /\ (m * 1 + n) % m = n /\ (m * 1 + n) \div m = 1
      /\ (m * 0 + n) % m = n /\ (m * 0 + n) \div m = 0
  <2> HIDE DEF m
  <2> QED BY <1>1, ModUnique
<1>4. m * 1 + n = n + m /\ m * 0 + n = n BY <1>1
<1> HIDE DEF m
<1>5. CASE Down(n)
  <2>1. Code(n) = m * 1 + n BY <1>4, <1>5 DEF Code, m
  <2> QED BY <1>1, <1>3, <1>4, <1>5, <2>1 DEF m
<1>6. CASE ~Down(n)
  <2>1. Code(n) = m * 0 + n BY <1>4, <1>6, <1>1 DEF Code, m
  <2> QED BY <1>1, <1>3, <1>4, <1>6, <2>1 DEF m
<1> QED BY <1>5, <1>6

LEMMA WaitingFact ==
  ASSUME KeyTypeOK
  PROVE  /\ Waiting \in 0..KEY_QUEUE_LEN-1 /\ (Waiting = 0 <=> key_f = key_r)
         /\ Multiple(key_r - key_f - Waiting)
<1>1. KEY_QUEUE_LEN \in Nat \ {0} BY KeyQueueAssumption
<1>2. key_r - key_f - Waiting = 0 \/ key_r - key_f - Waiting = 0 - KEY_QUEUE_LEN
  BY <1>1 DEF Waiting, KeyTypeOK
<1>3. Multiple(0 - KEY_QUEUE_LEN) /\ Multiple(0) BY <1>1, MultipleLen, MultipleSum
<1>4. Multiple(key_r - key_f - Waiting) BY <1>2, <1>3
<1> QED BY <1>1, <1>4 DEF Waiting, KeyTypeOK

\* nothing that the counts and the ring rest on has changed
Quiet ==
  /\ UNCHANGED <<key_queue, key_f, key_r, given>>
  /\ Arrived' = Arrived /\ (Held' <=> Held)

LEMMA QuietKeeps ==
  ASSUME KeyInv, Quiet PROVE  Counts' /\ Given'
<1>1. Passed' = Passed /\ Taken' = Taken BY DEF Quiet, Passed, Waiting, Taken
<1>2. Counts' BY <1>1 DEF KeyInv, Counts, Quiet
<1>3. Given' BY <1>1 DEF KeyInv, Given, Quiet
<1> QED BY <1>2, <1>3

LEMMA GivenType ==
  ASSUME KeyTypeOK PROVE \A i \in 1..Len(given) : given[i].keycode \in Nat
<1> SUFFICES ASSUME NEW i \in 1..Len(given) PROVE given[i].keycode \in Nat OBVIOUS
<1> DEFINE S == [keydown : BOOLEAN, keycode : Nat]
<1>1. given \in Seq(S) BY DEF KeyTypeOK
<1>2. given[i] \in S
  <2> HIDE DEF S
  <2> QED BY <1>1
<1> QED BY <1>2

LEMMA EventStep ==
  ASSUME KeyInv, event_thread PROVE  KeyInv'
<1> USE KeyQueueAssumption
<1>0. KeyTypeOK /\ Mutex /\ Slots /\ Counts /\ Coming /\ Calls /\ Given BY DEF KeyInv
<1>1. CASE KeyEvent
  <2>1. KeyTypeOK'
    <3>1. pressed' \in 0..MaxKeys BY <1>0, <1>1 DEF KeyEvent, KeyTypeOK
    <3>2. Code(pressed') \in Nat BY <3>1, CodeFact
    <3> QED BY <1>0, <1>1, <3>1, <3>2 DEF KeyEvent, KeyTypeOK, Code
  <2>2. Quiet BY <1>0, <1>1 DEF KeyEvent, Quiet, Arrived, Held, Top, KeyTypeOK
  <2>3. Mutex' BY <1>0, <1>1 DEF KeyEvent, Mutex, Top
  <2>4. Slots' BY <1>0, <1>1, <2>2 DEF KeyEvent, Slots, Quiet, Arrived
  <2>5. Coming' BY <1>1 DEF KeyEvent, Coming, Code
  <2>6. Passed' = Passed BY <2>2 DEF Quiet, Passed, Waiting
  <2>7. Calls' BY <1>0, <1>1, <2>2, <2>6 DEF KeyEvent, Calls, Quiet, Top, Held
  <2> QED BY <2>1, <2>2, <2>3, <2>4, <2>5, <2>7, QuietKeeps DEF KeyInv
<1>2. CASE /\ event.at = "lock" /\ Lock("event") /\ event' = [event EXCEPT !.at = "store"]
           /\ UNCHANGED <<key_queue, key_f, key_r, intr, pressed, app, given>>
  <2>1. KeyTypeOK'
    <3>1. owner' \in [by : {"none", "event", "app"}, n : Nat] BY <1>0, <1>2, SMTT(60) DEF Lock, KeyTypeOK
    <3>2. event' \in [at : {"wait", "lock", "store", "advance", "unlock", "interrupt"}, code : Nat]
      BY <1>0, <1>2, Zenon DEF KeyTypeOK
    <3> QED BY <1>0, <1>2, <3>1, <3>2 DEF KeyTypeOK
  <2>2. Quiet BY <1>0, <1>2 DEF Quiet, Arrived, Held, Top, KeyTypeOK
  <2>3. Mutex' BY <1>0, <1>2 DEF Mutex, Lock, Top, KeyTypeOK
  <2>4. Slots' BY <1>0, <1>2, <2>2, Zenon DEF Slots, Quiet, KeyTypeOK
  <2>5. Coming' BY <1>0, <1>2 DEF Coming, KeyTypeOK
  <2>6. Passed' = Passed BY <2>2 DEF Quiet, Passed, Waiting
  <2>7. Calls' BY <1>0, <1>2, <2>2, <2>6 DEF Calls, Quiet, Top, Held
  <2> QED BY <2>1, <2>2, <2>3, <2>4, <2>5, <2>7, QuietKeeps DEF KeyInv
<1>3. CASE /\ event.at = "store" /\ key_queue' = [key_queue EXCEPT ![key_r] = event.code]
           /\ event' = [event EXCEPT !.at = "advance"]
           /\ UNCHANGED <<key_f, key_r, owner, intr, pressed, app, given>>
  <2>1. KeyTypeOK' BY <1>0, <1>3, Zenon DEF KeyTypeOK
  <2>2. Arrived' = Arrived /\ Passed' = Passed /\ Held' = Held /\ Taken' = Taken
    BY <1>0, <1>3 DEF Arrived, Passed, Waiting, Held, Taken, Top, KeyTypeOK
  <2>3. Mutex' BY <1>0, <1>3 DEF Mutex, Top, KeyTypeOK
  <2>4. Slots' BY <1>0, <1>3, <2>2, Zenon DEF Slots, KeyTypeOK, Coming
  <2>5. Coming' BY <1>0, <1>3 DEF Coming, KeyTypeOK
  <2>6. Calls' BY <1>0, <1>3, <2>2 DEF Calls, Top
  <2>7. Counts' /\ Given' BY <1>0, <1>3, <2>2 DEF Counts, Given
  <2> QED BY <2>1, <2>3, <2>4, <2>5, <2>6, <2>7 DEF KeyInv
<1>4. CASE /\ event.at = "advance" /\ key_r' = NextOf(key_r)
           /\ event' = [event EXCEPT !.at = "unlock"]
           /\ UNCHANGED <<key_queue, key_f, owner, intr, pressed, app, given>>
  <2> DEFINE L == KEY_QUEUE_LEN
  <2>0. /\ key_r' \in 0..L-1 /\ key_r' = IF key_r + 1 = L THEN 0 ELSE key_r + 1
    BY <1>0, <1>4, NextOfFact, Zenon DEF KeyTypeOK
  <2>1. KeyTypeOK' BY <1>0, <1>4, <2>0, Zenon DEF KeyTypeOK
  <2>2. Arrived' = Arrived + 1 /\ Arrived' = pressed /\ Arrived \in Int
    BY <1>0, <1>4, SMTT(60) DEF Arrived, KeyTypeOK
  <2>3. Held' = Held /\ Taken' = Taken /\ Taken \in Int /\ Passed \in Int
    BY <1>0, <1>4, SMTT(60) DEF Held, Taken, Top, KeyTypeOK, Passed, Arrived, Waiting
  <2>4. Mutex' BY <1>0, <1>4 DEF Mutex, Top, KeyTypeOK
  <2>5. app = <<>> \/ Top.at = "lock"
    BY <1>0, <1>4 DEF Mutex
  <2>6. Passed' = Passed \/ Passed' = Passed + L
    <3>1. L \in Nat \ {0} /\ key_f \in 0..L-1 /\ key_r \in 0..L-1 /\ key_f' = key_f
      BY <1>0, <1>4 DEF KeyTypeOK
    <3>2. Waiting' = Waiting + 1 \/ Waiting' = Waiting + 1 - L
      BY <3>1, <2>0 DEF Waiting
    <3>3. Waiting \in Int BY <3>1 DEF Waiting
    <3> QED BY <3>1, <3>2, <3>3, <2>2 DEF Passed
  <2>7. Multiple(Passed + L - Taken)
    <3>1. Multiple((Passed - Taken) + L) BY <1>0, <2>3, MultipleSum, MultipleLen DEF Counts
    <3> QED BY <3>1, <2>3
  <2>8. Counts' BY <1>0, <1>4, <2>2, <2>3, <2>6, <2>7 DEF Counts
  <2>9. Given'
    <3>1. Passed <= Passed' /\ Passed' \in Int BY <2>3, <2>6
    <3>2. \A i \in 1..Len(given) : given[i].keycode \in Nat BY <1>0, GivenType
    <3> QED BY <1>0, <1>4, <2>3, <3>1, <3>2, SMTT(60) DEF Given
  <2>10. Coming' BY <1>4, <1>0 DEF Coming, KeyTypeOK
  <2>11. Calls' BY <1>0, <1>4, <2>5 DEF Calls, Top, Held
  <2>12. Multiple(Arrived - key_r)
    <3>1. Multiple(key_r - key_f - Waiting) BY <1>0, WaitingFact
    <3>2. /\ key_r - key_f - Waiting \in Int /\ Passed - Taken \in Int /\ key_f - Taken \in Int
          /\ Waiting \in Int
      BY <1>0, <2>3 DEF KeyTypeOK, Waiting
    <3>3. Multiple((Passed - Taken) - (key_f - Taken)) BY <1>0, <3>2, MultipleSum DEF Counts
    <3>4. Multiple(((Passed - Taken) - (key_f - Taken)) - (key_r - key_f - Waiting))
      BY <3>1, <3>2, <3>3, MultipleSum
    <3>5. ((Passed - Taken) - (key_f - Taken)) - (key_r - key_f - Waiting) = Arrived - key_r
      BY <3>2, <2>2, <2>3, <1>0 DEF Passed, KeyTypeOK
    <3> QED BY <3>4, <3>5
  <2>13. Slots'
    <3> SUFFICES ASSUME NEW i \in 0..L-1, NEW n \in Arrived'-L+1..Arrived', Multiple(n - 1 - i)
                 PROVE  key_queue[i] = IF n >= 1 THEN Code(n) ELSE 0
      BY <1>0, <1>4, Zenon DEF Slots, KeyTypeOK
    <3>1. CASE n = Arrived + 1
      <4>1. Multiple((Arrived - key_r) - (n - 1 - i))
        BY <2>12, <2>2, <1>0, MultipleSum DEF KeyTypeOK
      <4>2. (Arrived - key_r) - (n - 1 - i) = i - key_r BY <3>1, <2>2, <1>0 DEF KeyTypeOK
      <4>3. i - key_r = 0 BY <4>1, <4>2, <1>0, MultipleSmall, SMTT(60) DEF KeyTypeOK
      <4>4. i = key_r BY <4>3, <1>0 DEF KeyTypeOK
      <4>5. Multiple((n - 1 - i) - L) /\ (n - 1 - i) - L = (n - L) - 1 - i
        BY MultipleSum, MultipleLen, <2>2
      <4>6. n - L \in Arrived-L+1..Arrived BY <2>2, <3>1
      <4>7. key_queue[i] = Code(pressed) BY <1>0, <1>4, <4>4, <4>5, <4>6 DEF Slots
      <4> QED BY <4>7, <3>1, <2>2, <1>0 DEF Counts
    <3>2. CASE n # Arrived + 1
      <4>1. n \in Arrived-L+1..Arrived BY <2>2, <3>2
      <4>2. i # key_r
        <5> SUFFICES ASSUME i = key_r PROVE FALSE OBVIOUS
        <5>1. Multiple((Arrived - key_r) - (n - 1 - i))
          BY <2>12, <2>2, <1>0, MultipleSum DEF KeyTypeOK
        <5>2. (Arrived - key_r) - (n - 1 - i) = Arrived + 1 - n BY <2>2, <1>0 DEF KeyTypeOK
        <5>3. Arrived + 1 - n = 0 BY <5>1, <5>2, <2>2, <3>2, MultipleSmall
        <5> QED BY <5>3, <2>2, <3>2
      <4> QED BY <1>0, <1>4, <4>1, <4>2 DEF Slots
    <3> QED BY <3>1, <3>2
  <2> QED BY <2>1, <2>4, <2>8, <2>9, <2>10, <2>11, <2>13 DEF KeyInv
<1>5. CASE /\ event.at = "unlock" /\ Unlock /\ event' = [event EXCEPT !.at = "interrupt"]
           /\ UNCHANGED <<key_queue, key_f, key_r, intr, pressed, app, given>>
  <2>1. KeyTypeOK' BY <1>0, <1>5, Zenon DEF Unlock, Free, Mutex, KeyTypeOK
  <2>2. Quiet BY <1>0, <1>5 DEF Quiet, Arrived, Held, Top, KeyTypeOK
  <2>3. Mutex' BY <1>0, <1>5, Zenon DEF Mutex, Unlock, Free, Top, KeyTypeOK
  <2>4. Slots' BY <1>0, <1>5, <2>2, Zenon DEF Slots, Quiet, KeyTypeOK
  <2>5. Coming' BY <1>0, <1>5 DEF Coming, KeyTypeOK
  <2>6. Passed' = Passed BY <2>2 DEF Quiet, Passed, Waiting
  <2>7. Calls' BY <1>0, <1>5, <2>2, <2>6 DEF Calls, Quiet, Top, Held
  <2> QED BY <2>1, <2>2, <2>3, <2>4, <2>5, <2>7, QuietKeeps DEF KeyInv
<1>6. CASE /\ event.at = "interrupt" /\ intr' = TRUE /\ event' = [event EXCEPT !.at = "wait"]
           /\ UNCHANGED <<key_queue, key_f, key_r, owner, pressed, app, given>>
  <2>1. KeyTypeOK' BY <1>0, <1>6, Zenon DEF KeyTypeOK
  <2>2. Quiet BY <1>0, <1>6 DEF Quiet, Arrived, Held, Top, KeyTypeOK
  <2>3. Mutex' BY <1>0, <1>6 DEF Mutex, Top, KeyTypeOK
  <2>4. Slots' BY <1>0, <1>6, <2>2, Zenon DEF Slots, Quiet, KeyTypeOK
  <2>5. Coming' BY <1>0, <1>6 DEF Coming, KeyTypeOK
  <2>6. Passed' = Passed BY <2>2 DEF Quiet, Passed, Waiting
  <2>7. Calls' BY <1>0, <1>6, <2>2, <2>6 DEF Calls, Quiet, Top, Held
  <2> QED BY <2>1, <2>2, <2>3, <2>4, <2>5, <2>7, QuietKeeps DEF KeyInv
<1> QED BY <1>1, <1>2, <1>3, <1>4, <1>5, <1>6, Zenon DEF event_thread

LEMMA AppStep ==
  ASSUME NEW a \in Seq(Frame), Len(a) = 1, NEW f \in Frame
  PROVE  LET b == [a EXCEPT ![Len(a)] = f]
         IN b \in Seq(Frame) /\ Len(b) = 1 /\ b # <<>> /\ b[Len(b)] = f
<1> DEFINE b == [a EXCEPT ![Len(a)] = f]
<1>1. b \in Seq(Frame) /\ Len(b) = Len(a) /\ b[1] = f OBVIOUS
<1> QED BY <1>1

\* the only call there can be
LEMMA TopFact ==
  ASSUME KeyTypeOK, app # <<>>
  PROVE  Len(app) = 1 /\ Top \in Frame
<1>1. app \in Seq(Frame) /\ Len(app) <= 1 BY DEF KeyTypeOK
<1>2. Len(app) \in Nat /\ Len(app) # 0 BY <1>1
<1>3. \A n \in Nat : n # 0 /\ n <= 1 => n = 1 OBVIOUS
<1>4. Len(app) = 1 BY <1>1, <1>2, <1>3, Zenon
<1> QED BY <1>1, <1>4 DEF Top

LEMMA BeginStep ==
  ASSUME KeyInv, app = <<>>,
         app' = <<Entry("poll")>> \/ app' = <<Entry("handler")>>,
         intr' \in BOOLEAN,
         UNCHANGED <<key_queue, key_f, key_r, owner, event, pressed, given>>
  PROVE  KeyInv'
<1>0. KeyTypeOK /\ Mutex /\ Slots /\ Counts /\ Coming /\ Calls /\ Given BY DEF KeyInv
<1>1. /\ app' \in Seq(Frame) /\ Len(app') = 1 /\ app' # <<>>
      /\ (Top.at)' = "lock" /\ (Top.k)' = 0
  <2>1. ASSUME NEW by \in {"poll", "handler"}, app' = <<Entry(by)>>
        PROVE  /\ app' \in Seq(Frame) /\ Len(app') = 1 /\ app' # <<>>
               /\ (Top.at)' = "lock" /\ (Top.k)' = 0
    <3>1. Entry(by) \in Frame /\ Entry(by).at = "lock" /\ Entry(by).k = 0 BY DEF Entry, Frame
    <3>2. Top' = Entry(by) BY <2>1 DEF Top
    <3> QED BY <2>1, <3>1, <3>2
  <2> QED BY <2>1
<1>2. KeyTypeOK' BY <1>0, <1>1 DEF KeyTypeOK
<1>3. Quiet BY <1>1 DEF Quiet, Arrived, Held
<1>4. Mutex' BY <1>0, <1>1 DEF Mutex
<1>5. Slots' BY <1>0, <1>3 DEF Slots, Quiet
<1>6. Coming' BY <1>0 DEF Coming
<1>7. Calls' BY <1>1 DEF Calls, Held
<1> QED BY <1>2, <1>3, <1>4, <1>5, <1>6, <1>7, QuietKeeps DEF KeyInv

LEMMA KeybrdStep ==
  ASSUME KeyInv, __am_input_keybrd PROVE  KeyInv'
<1> USE KeyQueueAssumption
<1>0. KeyTypeOK /\ Mutex /\ Slots /\ Counts /\ Coming /\ Calls /\ Given BY DEF KeyInv
<1>1. /\ app # <<>> /\ Len(app) = 1 /\ Top \in Frame /\ app \in Seq(Frame)
      /\ UNCHANGED <<key_queue, key_r, event, pressed, intr>>
  BY <1>0, TopFact DEF __am_input_keybrd, KeyTypeOK
<1>2. ASSUME NEW at \in {"lock", "test", "take", "advance", "unlock"}, At(at)
      PROVE  /\ app' \in Seq(Frame) /\ Len(app') = 1 /\ app' # <<>>
             /\ (Top.at)' = at /\ (Top.k)' = Top.k
  <2>1. [Top EXCEPT !.at = at] \in Frame BY <1>1, Zenon DEF Frame
  <2>2. app' = [app EXCEPT ![Len(app)] = [Top EXCEPT !.at = at]] BY <1>2 DEF At, Top
  <2>3. app' \in Seq(Frame) /\ Len(app') = 1 /\ app' # <<>> /\ app'[Len(app')] = [Top EXCEPT !.at = at]
    BY <1>1, <2>1, <2>2, AppStep
  <2> QED BY <1>1, <2>3 DEF Top, Frame
<1>3. Coming' BY <1>0, <1>1 DEF Coming
<1>4. ASSUME UNCHANGED <<key_f, given>>, ~Held, ~Held'
      PROVE  Slots' /\ Counts' /\ Given' /\ Passed' = Passed
  <2>1. Quiet BY <1>1, <1>4 DEF Quiet, Arrived
  <2>2. Slots' BY <1>0, <1>1, <2>1 DEF Slots, Quiet
  <2> QED BY <2>1, <2>2, QuietKeeps DEF Quiet, Passed, Waiting
<1>5. CASE Top.at = "lock" /\ Lock("app") /\ At("test") /\ UNCHANGED <<key_f, given>>
  <2>1. /\ app' \in Seq(Frame) /\ Len(app') = 1 /\ app' # <<>>
        /\ (Top.at)' = "test" /\ (Top.k)' = Top.k
    BY <1>2, <1>5
  <2>2. owner' \in [by : {"none", "event", "app"}, n : Nat] BY <1>0, <1>5 DEF Lock, KeyTypeOK
  <2>3. KeyTypeOK' BY <1>0, <1>1, <1>5, <2>1, <2>2 DEF KeyTypeOK
  <2>4. Mutex' BY <1>0, <1>1, <1>5, <2>1 DEF Mutex, Lock, KeyTypeOK
  <2>5. ~Held /\ ~Held' BY <1>5, <2>1 DEF Held
  <2>6. Calls' BY <1>0, <1>1, <1>5, <2>1, <2>5 DEF Calls
  <2> QED BY <1>3, <1>4, <1>5, <2>3, <2>4, <2>5, <2>6 DEF KeyInv
<1>6. CASE /\ Top.at = "test" /\ At(IF key_f # key_r THEN "take" ELSE "unlock")
           /\ UNCHANGED <<owner, key_f, given>>
  <2>1. /\ app' \in Seq(Frame) /\ Len(app') = 1 /\ app' # <<>>
        /\ (Top.at)' = (IF key_f # key_r THEN "take" ELSE "unlock") /\ (Top.k)' = Top.k
    BY <1>2, <1>6
  <2>2. Top.k = 0 BY <1>0, <1>1, <1>6 DEF Calls
  <2>3. KeyTypeOK' BY <1>0, <1>1, <1>6, <2>1 DEF KeyTypeOK
  <2>4. Mutex' BY <1>0, <1>1, <1>6, <2>1 DEF Mutex
  <2>5. ~Held /\ ~Held' BY <1>6, <2>1, <2>2 DEF Held
  <2>6. Calls' BY <1>0, <1>1, <1>6, <2>1, <2>2, <2>5 DEF Calls
  <2> QED BY <1>3, <1>4, <1>6, <2>3, <2>4, <2>5, <2>6 DEF KeyInv
<1>7. CASE /\ Top.at = "take" /\ UNCHANGED <<owner, key_f, given>>
           /\ app' = [app EXCEPT ![Len(app)] = [@ EXCEPT !.k = key_queue[key_f], !.at = "advance"]]
  <2> DEFINE L == KEY_QUEUE_LEN
  <2>0. key_queue[key_f] \in Nat /\ key_f \in 0..L-1 /\ key_r \in 0..L-1 BY <1>0 DEF KeyTypeOK
  <2>1. /\ app' \in Seq(Frame) /\ Len(app') = 1 /\ app' # <<>>
        /\ (Top.at)' = "advance" /\ (Top.k)' = key_queue[key_f]
    <3> DEFINE f == [[Top EXCEPT !.k = key_queue[key_f]] EXCEPT !.at = "advance"]
    <3>1. f \in Frame /\ f.at = "advance" /\ f.k = key_queue[key_f] BY <1>1, <2>0, Zenon DEF Frame
    <3>2. app' = [app EXCEPT ![Len(app)] = f] BY <1>7 DEF Top
    <3> HIDE DEF f
    <3>3. app' \in Seq(Frame) /\ Len(app') = 1 /\ app' # <<>> /\ app'[Len(app')] = f
      BY <1>1, <3>1, <3>2, AppStep
    <3> QED BY <3>1, <3>3 DEF Top
  <2>2. KeyTypeOK' BY <1>0, <1>1, <1>7, <2>1, Zenon DEF KeyTypeOK
  <2>3. Mutex' BY <1>0, <1>1, <1>7, <2>1 DEF Mutex
  <2>4. ~Held /\ ~Held' BY <1>7, <2>1 DEF Held
  <2>5. Slots' /\ Counts' /\ Given' /\ Passed' = Passed BY <1>4, <1>7, <2>4
  <2>6. key_f # key_r BY <1>0, <1>1, <1>7 DEF Calls
  <2>7. Passed \in Int /\ Arrived \in Int /\ Waiting \in 1..L-1 /\ Passed = Arrived - Waiting
    <3>1. Arrived \in Int BY <1>0 DEF Arrived, KeyTypeOK
    <3>2. L \in Nat /\ Waiting \in 0..L-1 /\ Waiting # 0 BY <1>0, <2>6, WaitingFact
    <3> QED BY <3>1, <3>2 DEF Passed
  <2>8. Passed + 1 \in Arrived-L+1..Arrived /\ Passed + 1 >= 1
    <3>1. Taken \in Nat BY <1>0 DEF Taken, KeyTypeOK
    <3> QED BY <1>0, <2>7, <3>1 DEF Counts
  <2>9. Multiple((Passed + 1) - 1 - key_f)
    <3>1. Taken \in Int BY <1>0 DEF Taken, KeyTypeOK
    <3>2. Multiple((Passed - Taken) - (key_f - Taken))
      BY <1>0, <2>0, <2>7, <3>1, MultipleSum DEF Counts
    <3>3. (Passed - Taken) - (key_f - Taken) = (Passed + 1) - 1 - key_f BY <2>0, <2>7, <3>1
    <3> QED BY <3>2, <3>3
  <2>10. event.at # "advance" BY <1>0, <1>1, <1>7 DEF Mutex
  <2>11. key_queue[key_f] = Code(Passed + 1) BY <1>0, <2>0, <2>8, <2>9, <2>10 DEF Slots
  <2>12. Calls' BY <1>1, <1>7, <2>1, <2>4, <2>5, <2>6, <2>11 DEF Calls, Code
  <2> QED BY <1>3, <2>2, <2>3, <2>5, <2>12 DEF KeyInv
<1>8. CASE Top.at = "advance" /\ key_f' = NextOf(key_f) /\ At("unlock") /\ UNCHANGED <<owner, given>>
  <2> DEFINE L == KEY_QUEUE_LEN
  <2>0. /\ key_f \in 0..L-1 /\ key_r \in 0..L-1 /\ L \in Nat \ {0}
        /\ key_f' \in 0..L-1 /\ key_f' = IF key_f + 1 = L THEN 0 ELSE key_f + 1
    BY <1>0, <1>8, NextOfFact, Zenon DEF KeyTypeOK
  <2>1. /\ app' \in Seq(Frame) /\ Len(app') = 1 /\ app' # <<>>
        /\ (Top.at)' = "unlock" /\ (Top.k)' = Top.k
    BY <1>2, <1>8
  <2>2. KeyTypeOK' BY <1>0, <1>1, <1>8, <2>0, <2>1 DEF KeyTypeOK
  <2>3. Mutex' BY <1>0, <1>1, <1>8, <2>1 DEF Mutex
  <2>4. key_f # key_r /\ Top.k = Code(Passed + 1) BY <1>0, <1>1, <1>8 DEF Calls
  <2>5. Arrived' = Arrived /\ Arrived \in Int /\ Arrived <= MaxKeys
    BY <1>0, <1>1 DEF Arrived, KeyTypeOK
  <2>6. Waiting' = Waiting - 1 /\ Waiting \in 1..L-1
    BY <1>1, <2>0, <2>4 DEF Waiting
  <2>7. Passed' = Passed + 1 /\ Passed \in Int /\ Passed + 1 <= MaxKeys
    BY <2>5, <2>6 DEF Passed
  <2>8. ~Held /\ Taken = Len(given) /\ Taken \in Nat BY <1>0, <1>8 DEF Held, Taken, KeyTypeOK
  <2>9. Passed + 1 \in 1..MaxKeys BY <1>0, <2>7, <2>8 DEF Counts
  <2>10. Held'
    <3>1. Code(Passed + 1) # 0 BY <2>9, CodeFact
    <3> QED BY <2>1, <2>4, <3>1 DEF Held
  <2>11. Taken' = Taken + 1 BY <1>8, <2>8, <2>10 DEF Taken
  <2>12. Counts'
    <3>1. Multiple(Passed' - Taken') /\ Passed' >= Taken'
      <4>1. Passed' - Taken' = Passed - Taken BY <2>7, <2>8, <2>11
      <4> QED BY <1>0, <4>1, <2>7, <2>8, <2>11 DEF Counts
    <3>2. Multiple(key_f' - Taken')
      <4>1. key_f' - Taken' = key_f - Taken \/ key_f' - Taken' = (key_f - Taken) - L
        BY <2>0, <2>8, <2>11
      <4>2. Multiple((key_f - Taken) - L)
        BY <1>0, <2>0, <2>8, MultipleSum, MultipleLen DEF Counts
      <4> QED BY <1>0, <4>1, <4>2 DEF Counts
    <3> QED BY <1>0, <2>5, <3>1, <3>2 DEF Counts
  <2>13. Slots' BY <1>0, <1>1, <2>5 DEF Slots
  <2>14. Calls' BY <2>1, <2>4, <2>7 DEF Calls, Code
  <2>15. Given' BY <1>0, <1>8, <2>7, <2>8, <2>10, GivenType DEF Given
  <2> QED BY <1>3, <2>2, <2>3, <2>12, <2>13, <2>14, <2>15 DEF KeyInv
<1>9. CASE /\ Top.at = "unlock" /\ Unlock /\ app' = SubSeq(app, 1, Len(app) - 1)
           /\ given' = IF Top.k = 0 THEN given
                       ELSE Append(given, [keydown |-> Top.k \div KEYDOWN_MASK = 1,
                                           keycode |-> Top.k % KEYDOWN_MASK])
           /\ UNCHANGED key_f
  <2>1. app' = <<>> BY <1>1, <1>9
  <2>2. owner' = Free BY <1>0, <1>1, <1>9 DEF Mutex, Unlock
  <2>3. Mutex' BY <1>0, <1>1, <1>9, <2>1, <2>2 DEF Mutex, Free
  <2>4. ~Held' BY <2>1 DEF Held
  <2>5. Calls' BY <2>1 DEF Calls
  <2>6. CASE Top.k = 0
    <3>1. given' = given /\ ~Held BY <1>9, <2>6 DEF Held
    <3>2. KeyTypeOK' BY <1>0, <1>1, <1>9, <2>1, <2>2, <3>1 DEF KeyTypeOK, Free
    <3> QED BY <1>3, <1>4, <1>9, <2>3, <2>4, <2>5, <3>1, <3>2 DEF KeyInv
  <2>7. CASE Top.k # 0
    <3>1. Held BY <1>1, <1>9, <2>7 DEF Held
    <3>2. Top.k = Code(Passed) BY <1>0, <1>1, <3>1 DEF Calls
    <3>3. Passed' = Passed /\ Arrived' = Arrived /\ Passed \in Int /\ Arrived \in Int
      BY <1>0, <1>1, <1>9 DEF Passed, Arrived, Waiting, KeyTypeOK
    <3>4. Taken = Len(given) + 1 /\ Len(given) \in Nat BY <1>0, <3>1 DEF Taken, KeyTypeOK
    <3>5. Passed \in 1..MaxKeys /\ Passed >= Len(given) + 1 /\ Multiple(Passed - (Len(given) + 1))
      <4>1. Passed <= MaxKeys
        <5>1. Waiting \in Int /\ Waiting >= 0 BY <1>0, WaitingFact, KeyQueueAssumption
        <5>2. Arrived \in Int /\ Arrived <= MaxKeys
          <6>1. pressed \in 0..MaxKeys /\ MaxKeys \in Nat BY <1>0, KeyQueueAssumption DEF KeyTypeOK
          <6> QED BY ONLY <6>1 DEF Arrived
        <5>3. MaxKeys \in Nat BY KeyQueueAssumption
        <5> QED BY ONLY <5>1, <5>2, <5>3 DEF Passed
      <4> QED BY <1>0, <3>3, <3>4, <4>1 DEF Counts
    <3> DEFINE g == [keydown |-> Top.k \div KEYDOWN_MASK = 1, keycode |-> Top.k % KEYDOWN_MASK]
    <3>6. given' = Append(given, g) BY <1>9, <2>7
    <3>7. /\ g \in [keydown : BOOLEAN, keycode : Nat]
          /\ g.keycode = Passed /\ (g.keydown <=> Down(Passed)) /\ g.keydown \in BOOLEAN
      <4>1. Passed \in 0..MaxKeys BY <3>5
      <4>2. /\ Code(Passed) % KEYDOWN_MASK = Passed
            /\ Code(Passed) \div KEYDOWN_MASK = 1 <=> Down(Passed)
        BY <4>1, CodeFact
      <4>3. Top.k % KEYDOWN_MASK = Passed /\ (Top.k \div KEYDOWN_MASK = 1 <=> Down(Passed))
        BY <3>2, <4>2
      <4>4. g.keycode = Passed /\ g.keycode \in Nat BY <4>1, <4>3
      <4>5. g.keydown = (Top.k \div KEYDOWN_MASK = 1) OBVIOUS
      <4>6. g.keydown \in BOOLEAN /\ (g.keydown <=> Down(Passed)) BY <4>3, <4>5, Zenon
      <4>7. g \in [keydown : BOOLEAN, keycode : Nat] BY <4>4, <4>6
      <4> QED BY <4>4, <4>6, <4>7
    <3> HIDE DEF g
    <3>8. /\ given' \in Seq([keydown : BOOLEAN, keycode : Nat]) /\ Len(given') = Len(given) + 1
          /\ given'[Len(given) + 1] = g /\ \A i \in 1..Len(given) : given'[i] = given[i]
      <4> DEFINE S == [keydown : BOOLEAN, keycode : Nat]
      <4>1. given \in Seq(S) /\ g \in S BY <1>0, <3>7 DEF KeyTypeOK
      <4> HIDE DEF S
      <4>2. /\ given' \in Seq(S) /\ Len(given') = Len(given) + 1
            /\ given'[Len(given) + 1] = g /\ \A i \in 1..Len(given) : given'[i] = given[i]
        BY <3>6, <4>1
      <4> QED BY <4>2 DEF S
    <3>9. KeyTypeOK' BY <1>0, <1>1, <1>9, <2>1, <2>2, <3>8, SMTT(60) DEF KeyTypeOK, Free
    <3>10. Taken' = Taken BY <2>4, <3>4, <3>8 DEF Taken
    <3>11. Counts' BY <1>0, <1>9, <3>3, <3>10 DEF Counts
    <3>12. Slots' BY <1>0, <1>1, <3>3 DEF Slots
    <3>13. Given'
      <4> SUFFICES ASSUME NEW i \in 1..Len(given')
                   PROVE  LET n == given'[i].keycode
                          IN /\ given'[i].keydown = Down(n) /\ n >= i /\ Multiple(n - i)
                             /\ i > 1 => n > given'[i-1].keycode
                             /\ n <= Passed'
        BY <2>4, <3>3 DEF Given
      <4>1. CASE i \in 1..Len(given)
        <5>1. given'[i] = given[i] /\ (i > 1 => given'[i-1] = given[i-1]) BY <3>4, <3>8, <4>1, SMTT(60)
        <5> QED BY <1>0, <3>1, <3>3, <4>1, <5>1, GivenType, SMTT(60) DEF Given
      <4>2. CASE i = Len(given) + 1
        <5>1. given'[i].keycode = Passed /\ given'[i].keydown = Down(Passed)
          BY <3>7, <3>8, <4>2 DEF Down
        <5>2. i > 1 => Passed > given'[i-1].keycode
          BY <1>0, <3>1, <3>3, <3>4, <3>8, <4>2, GivenType DEF Given
        <5> QED BY <3>3, <3>5, <4>2, <5>1, <5>2
      <4> QED BY <3>4, <3>8, <4>1, <4>2
    <3> QED BY <1>3, <2>3, <2>5, <3>9, <3>11, <3>12, <3>13 DEF KeyInv
  <2> QED BY <2>6, <2>7
<1> QED BY <1>5, <1>6, <1>7, <1>8, <1>9 DEF __am_input_keybrd

LEMMA KeyInvInit == ASSUME KeyQueueInit PROVE KeyInv
<1> DEFINE L == KEY_QUEUE_LEN
<1>1. L \in Nat \ {0} /\ MaxKeys \in Nat BY KeyQueueAssumption
<1>2. KeyTypeOK BY <1>1 DEF KeyQueueInit, KeyTypeOK, Free
<1>3. Arrived = 0 /\ Waiting = 0 /\ Passed = 0 /\ Taken = 0
  <2>0. pressed = 0 /\ event.at = "wait" BY DEF KeyQueueInit
  <2>1. event.at \notin {"lock", "store", "advance"} BY <2>0
  <2>2. Arrived = 0 - 0 BY <2>0, <2>1, Zenon DEF Arrived
  <2>3. Waiting = 0 BY DEF KeyQueueInit, Waiting
  <2>4. Len(given) = 0 /\ ~Held BY DEF KeyQueueInit, Held
  <2> QED BY <2>2, <2>3, <2>4 DEF Passed, Taken
<1>4. Slots BY <1>1, <1>3 DEF KeyQueueInit, Slots
<1>5. Counts BY <1>3, MultipleLen DEF KeyQueueInit, Counts
<1>6. Mutex /\ Coming /\ Calls /\ Given
  BY DEF KeyQueueInit, Mutex, Coming, Calls, Given, Free
<1> QED BY <1>2, <1>4, <1>5, <1>6 DEF KeyInv

LEMMA KeyInvStep ==
  ASSUME MasksWhilePolling, KeyInv, [KeyQueueNext]_kvars PROVE KeyInv'
<1>0. KeyTypeOK BY DEF KeyInv
<1>1. CASE event_thread BY <1>1, EventStep
<1>2. CASE Poll BY <1>0, <1>2, BeginStep DEF Poll, KeyTypeOK
<1>3. CASE Interrupted
  <2>2. app = <<>>
    <3> SUFFICES ASSUME app # <<>> PROVE FALSE OBVIOUS
    <3>1. ~MasksWhilePolling BY <1>3, Zenon DEF Interrupted
    <3> QED BY <3>1
  <2> QED BY <1>3, <2>2, BeginStep, Zenon DEF Interrupted
<1>4. CASE __am_input_keybrd BY <1>4, KeybrdStep
<1>5. CASE UNCHANGED kvars
  <2>1. KeyTypeOK' /\ Mutex' /\ Coming'
    BY <1>5 DEF KeyInv, kvars, KeyTypeOK, Mutex, Coming, Top
  <2>2. Held' = Held /\ Passed' = Passed /\ Arrived' = Arrived /\ Taken' = Taken
    BY <1>5 DEF kvars, Held, Passed, Waiting, Arrived, Taken, Top
  <2>3. Slots' /\ Counts' /\ Calls' /\ Given'
    BY <1>5, <2>2 DEF KeyInv, kvars, Slots, Counts, Calls, Given, Top
  <2> QED BY <2>1, <2>3 DEF KeyInv
<1> QED BY <1>1, <1>2, <1>3, <1>4, <1>5 DEF KeyQueueNext

LEMMA KeyInvKeepsOrder == ASSUME KeyInv PROVE KeysInOrder
<1>0. KeyTypeOK /\ Mutex /\ Slots /\ Counts /\ Coming /\ Calls /\ Given BY DEF KeyInv
<1>1. \A i \in 1..Len(given) :
        LET n == given[i].keycode
        IN /\ given[i].keydown = Down(n) /\ n >= i /\ (n - i) % KEY_QUEUE_LEN = 0
           /\ i > 1 => n > given[i-1].keycode
  BY <1>0 DEF Given, Multiple
<1>2. ASSUME app = <<>>, event.at \in {"wait", "interrupt"}
      PROVE  Multiple(key_r - key_f - (pressed - Len(given)))
  <2>1. Taken = Len(given) /\ Arrived = pressed BY <1>0, <1>2 DEF Taken, Held, Arrived, KeyTypeOK
  <2>2. /\ Multiple(key_r - key_f - Waiting) /\ Multiple(Passed - Taken)
        /\ key_r - key_f - Waiting \in Int /\ Passed - Taken \in Int
    <3>1. key_r \in Int /\ key_f \in Int /\ pressed \in Int BY <1>0, KeyQueueAssumption DEF KeyTypeOK
    <3>2. Waiting \in Int /\ Multiple(key_r - key_f - Waiting) BY <1>0, WaitingFact, KeyQueueAssumption
    <3>3. Multiple(Passed - Taken) BY <1>0 DEF Counts
    <3>4. Len(given) \in Int BY <1>0 DEF KeyTypeOK
    <3> QED BY ONLY <2>1, <3>1, <3>2, <3>3, <3>4 DEF Passed
  <2>3. Multiple((key_r - key_f - Waiting) - (Passed - Taken)) BY <2>2, MultipleSum
  <2>4. (key_r - key_f - Waiting) - (Passed - Taken) = key_r - key_f - (pressed - Len(given))
    <3>1. Len(given) \in Int /\ pressed \in Int /\ key_f \in Int /\ key_r \in Int /\ Waiting \in Int
      BY <1>0, WaitingFact DEF KeyTypeOK
    <3>2. Passed = pressed - Waiting BY <2>1 DEF Passed
    <3> QED BY <2>1, <3>1, <3>2
  <2> QED BY <2>3, <2>4
<1> QED BY <1>1, <1>2 DEF KeysInOrder, Multiple

(* The invariant of ring, mutex and counts is inductive for a ring of any   *)
(* length and any number of keys, when __am_input_keybrd is not interrupted *)
(* by a handler that calls it.                                             *)
THEOREM KeyQueueInvariant == MasksWhilePolling => (KeySpec => []KeyInv)
<1> SUFFICES ASSUME MasksWhilePolling PROVE KeySpec => []KeyInv OBVIOUS
<1>1. KeyQueueInit => KeyInv BY KeyInvInit
<1>2. KeyInv /\ [KeyQueueNext]_kvars => KeyInv' BY KeyInvStep
<1> QED BY <1>1, <1>2, PTL DEF KeySpec

(* event_thread and __am_input_keybrd, which share the ring under a mutex,  *)
(* give the program every key at most once, in order, up as up and down as  *)
(* down; what is lost, the ring loses in whole rounds.                      *)
THEOREM KeysOrdered == MasksWhilePolling => (KeySpec => []KeysInOrder)
<1> SUFFICES ASSUME MasksWhilePolling PROVE KeySpec => []KeysInOrder OBVIOUS
<1>1. KeyInv => KeysInOrder BY KeyInvKeepsOrder
<1> QED BY <1>1, KeyQueueInvariant, PTL

-----------------------------------------------------------------------------
(* Clocks.                                                                  *)

\* what the clocks do, in a behaviour of Devices that looks at them
ClocksSpec == ClocksInit /\ [][ClocksNext]_tvars

\* where timer_rtc can be
Dating == {"second", "minute", "hour", "day", "month", "year", "again"}
ClockTypeOK ==
  /\ clock \in {"rtc", "nemu", "npc", "spike"} /\ now \in Nat /\ up \in Nat /\ latch \in Nat
  /\ call \in [at : Dating \cup {"idle", "high", "low", "time_lo", "time_hi"},
               seen : [1..6 -> Int], first : Nat]
  /\ last \in [of : {"none", "date", "start", "uptime"}, got : [1..6 -> Int],
               first : Nat, last : Nat]

(* Which clock a call reads, and how long it takes (Tick).                  *)
CallOf ==
  /\ call.at \in Dating => clock = "rtc"
  /\ call.at \in {"high", "low"} => clock \in {"nemu", "npc"}
  /\ call.at \in {"time_lo", "time_hi"} => clock = "spike"
InTime ==
  call.at # "idle" =>
    call.first <= now /\ now < call.first + (IF clock = "rtc" THEN Radix[1] ELSE Half)

(* What has been read so far: the second at the start of the round, the rest *)
(* of the date during it; a first word of the latch or of a moment before.   *)
SeenDate ==
  \A i \in 1..7, j \in 1..6 : call.at = Steps[i] /\ j < i =>
    \E t \in call.first..now : call.seen[j] = read_rtc(t, j) /\ (j = 1 => t = call.first)
SeenWord ==
  /\ call.at = "low" => latch \in call.first..now /\ call.seen[1] = latch \div Half
  /\ call.at = "time_hi" => \E t \in call.first..now : call.seen[1] = t % Half

(* The start of time was before now, and before the call; but spike may have *)
(* got it wrong.                                                            *)
UpBefore == clock # "spike" => up <= now /\ (call.at # "idle" => up <= call.first)

ClockInv == ClockTypeOK /\ CallOf /\ InTime /\ SeenDate /\ SeenWord /\ UpBefore /\ ClocksCoherent

-----------------------------------------------------------------------------
LEMMA RadixFact == \A i \in 1..6 : Radix[i] \in 1..100
<1> DEFINE S == 1..100
<1>1. Radix \in Seq(S) /\ Len(Radix) = 6 BY ClocksAssumption
<1>2. ASSUME NEW s, s \in Seq(S) PROVE \A i \in 1..Len(s) : s[i] \in S
  <2> HIDE DEF S
  <2> QED BY <1>2
<1>3. \A i \in 1..Len(Radix) : Radix[i] \in S BY <1>1, <1>2, Zenon
<1> QED BY <1>1, <1>3, Zenon

LEMMA FirstRanges == Radix[1] \in Nat \ {0} /\ Half \in Nat \ {0}
<1>1. Half \in Nat \ {0} BY ClocksAssumption
<1>2. \A i \in 1..6 : Radix[i] \in Nat \ {0} BY RadixFact
<1>3. Radix[1] \in Nat \ {0} BY <1>2
<1> QED BY <1>1, <1>3

LEMMA BelowFact == ASSUME NEW i \in 1..6 PROVE Below(i) \in Nat \ {0}
<1>1. \A j \in 1..6 : Radix[j] \in Nat \ {0} BY RadixFact
<1> DEFINE v == Radix[1]
           a == IF i = 2 THEN 1 ELSE Radix[2]
           b == IF i <= 3 THEN 1 ELSE Radix[3]
           c == IF i <= 4 THEN 1 ELSE Radix[4]
           d == IF i <= 5 THEN 1 ELSE Radix[5]
<1>2. v \in Nat \ {0} /\ a \in Nat \ {0} /\ b \in Nat \ {0} /\ c \in Nat \ {0} /\ d \in Nat \ {0}
  BY <1>1
<1>3. Below(i) = IF i = 1 THEN 1 ELSE v * a * b * c * d BY Zenon DEF Below
<1> HIDE DEF v, a, b, c, d
<1>4. v * a * b * c * d \in Nat \ {0}
  <2>1. v * a \in Nat \ {0} BY <1>2, NatProduct
  <2>2. v * a * b \in Nat \ {0} BY <1>2, <2>1, NatProduct
  <2>3. v * a * b * c \in Nat \ {0} BY <1>2, <2>2, NatProduct
  <2> QED BY <1>2, <2>3, NatProduct
<1> QED BY <1>3, <1>4

\* two BCD digits hold any field
LEMMA ReadFact ==
  ASSUME NEW t \in Nat, NEW i \in 1..6
  PROVE  /\ read_rtc(t, i) = Field(t, i) /\ Field(t, i) \in 0 .. Radix[i] - 1
         /\ t \div Below(i) \in Int
<1>1. Below(i) \in Nat \ {0} /\ Radix[i] \in Nat \ {0} /\ Radix[i] <= 100 BY BelowFact, RadixFact
<1> DEFINE b == Below(i)
           n == Radix[i]
           q == t \div b
<1>2. q \in Int
  <2>1. b \in Nat \ {0} /\ t \in Int BY <1>1
  <2> HIDE DEF b
  <2> QED BY <2>1, DivMod
<1>3. Field(t, i) \in 0 .. Radix[i] - 1
  <2>1. Field(t, i) = q % n BY DEF Field
  <2>2. n \in Nat \ {0} BY <1>1
  <2> HIDE DEF q, n
  <2>3. q % n \in 0 .. n-1 BY <1>2, <2>2, DivMod
  <2> QED BY <2>1, <2>3 DEF n
<1>4. PICK x \in 0..99 : x = Field(t, i) BY <1>1, <1>3
<1>5. ((16 * (x \div 10) + (x % 10)) % 16) + 10 * ((16 * (x \div 10) + (x % 10)) \div 16) = x
  BY Z3
<1> QED BY <1>2, <1>3, <1>4, <1>5 DEF read_rtc, Cmos

\* within a minute, the second tells the time
LEMMA SameSecond ==
  ASSUME NEW a \in Nat, NEW b \in Nat, a <= b, b < a + Radix[1], Field(a, 1) = Field(b, 1)
  PROVE  a = b
<1> DEFINE n == Radix[1]
<1>1. n \in Nat \ {0} BY FirstRanges
<1>2. Below(1) = 1 BY DEF Below
<1>3. a \div 1 = a /\ b \div 1 = b BY Z3
<1>4. a % n = b % n
  <2>1. Field(a, 1) = (a \div 1) % n /\ Field(b, 1) = (b \div 1) % n BY <1>2, Zenon DEF Field
  <2>2. Field(a, 1) = a % n /\ Field(b, 1) = b % n BY <1>3, <2>1, Zenon
  <2> QED BY <2>2
<1> HIDE DEF n
<1>5. a = n * (a \div n) + (a % n) /\ b = n * (b \div n) + (b % n)
  <2>1. a = n * (a \div n) + (a % n) BY <1>1, DivMod
  <2>2. b = n * (b \div n) + (b % n) BY <1>1, DivMod
  <2> QED BY <2>1, <2>2
<1>6. PICK p \in Int, q \in Int : p = a \div n /\ q = b \div n
  <2>1. a \div n \in Int BY <1>1, DivMod
  <2>2. b \div n \in Int BY <1>1, DivMod
  <2> QED BY <2>1, <2>2
<1>7. a % n \in 0 .. n-1 BY <1>1, DivMod
<1>8. PICK r \in 0 .. n-1 : r = a % n BY <1>7
<1>9. a = n * p + r /\ b = n * q + r BY <1>4, <1>5, <1>6, <1>8
<1>10. n * (q - p) = b - a BY <1>1, <1>9, Z3
<1>11. q - p = 0 BY <1>1, <1>10, SmallProduct DEF n
<1> QED BY <1>1, <1>9, <1>11, Z3

LEMMA HalfFact ==
  ASSUME NEW t \in Nat
  PROVE  /\ t \div Half \in Int /\ t % Half \in Int
         /\ (t \div Half) * Half + (t % Half) = t
<1>1. Half \in Nat \ {0} BY ClocksAssumption
<1>2. /\ t % Half \in 0..Half-1 /\ t \div Half \in Int /\ t = Half * (t \div Half) + (t % Half)
  BY <1>1, DivMod
<1>3. PICK q \in Int, r \in Int : q = t \div Half /\ r = t % Half BY <1>1, <1>2
<1>4. t = Half * q + r BY <1>2, <1>3
<1>5. Half * q = q * Half BY <1>1, Z3
<1>6. q * Half + r = t BY <1>4, <1>5
<1> QED BY <1>3, <1>6

LEMMA BeginClock ==
  ASSUME ClockInv, NEW c, NEW at, Begin(c, at),
         \/ c = "rtc" /\ at = "second"
         \/ c \in {"nemu", "npc"} /\ at = "high"
         \/ c = "spike" /\ at = "time_lo"
  PROVE  ClockInv'
<1>h. Radix[1] \in Nat \ {0} /\ Half \in Nat \ {0} BY FirstRanges
<1>0. ClockTypeOK /\ CallOf /\ InTime /\ SeenDate /\ SeenWord /\ UpBefore /\ ClocksCoherent
  BY DEF ClockInv
<1>1. /\ call' = [at |-> at, seen |-> NoReading, first |-> now]
      /\ UNCHANGED <<clock, now, ticks, reads, latch, up, last>> /\ clock = c
  BY Zenon DEF Begin, Reset
<1>2. NoReading \in [1..6 -> Int] BY DEF NoReading
<1>3. ClockTypeOK' BY <1>0, <1>1, <1>2 DEF ClockTypeOK, Dating
<1>4. CallOf' BY <1>0, <1>1 DEF CallOf, Dating
<1>5. InTime' BY <1>0, <1>1, <1>h DEF InTime, ClockTypeOK
<1>6. SeenDate'
  <2>1. call'.at \in {"second", "high", "time_lo"} BY <1>1
  <2>2. \A i \in 1..7, j \in 1..6 : call'.at = Steps[i] => ~(j < i) BY <2>1 DEF Steps
  <2> QED BY <2>2 DEF SeenDate
<1>7. SeenWord' BY <1>1 DEF SeenWord
<1>8. UpBefore' BY <1>0, <1>1 DEF UpBefore
<1>9. ClocksCoherent' BY <1>0, <1>1 DEF ClocksCoherent
<1> QED BY <1>3, <1>4, <1>5, <1>6, <1>7, <1>8, <1>9 DEF ClockInv

LEMMA ResetFact ==
  ASSUME ClockInv, call' = Reset, UNCHANGED <<clock, now, latch>>
  PROVE  /\ call' \in [at : Dating \cup {"idle", "high", "low", "time_lo", "time_hi"},
                        seen : [1..6 -> Int], first : Nat]
         /\ call'.at = "idle" /\ CallOf' /\ InTime' /\ SeenDate' /\ SeenWord'
<1>1. call' = [at |-> "idle", seen |-> NoReading, first |-> 0] BY DEF Reset
<1>2. NoReading \in [1..6 -> Int] BY DEF NoReading
<1>3. \A i \in 1..7 : Steps[i] # "idle" BY DEF Steps
<1>4. SeenDate' BY <1>1, <1>3 DEF SeenDate
<1> QED BY <1>1, <1>2, <1>4 DEF CallOf, InTime, SeenWord, Dating

LEMMA RtcStep ==
  ASSUME ClockInv, timer_rtc PROVE ClockInv'
<1>h. Radix[1] \in Nat \ {0} /\ Half \in Nat \ {0} BY FirstRanges
<1>0. ClockTypeOK /\ CallOf /\ InTime /\ SeenDate /\ SeenWord /\ UpBefore /\ ClocksCoherent
  BY DEF ClockInv
<1>1. CASE Begin("rtc", "second") BY <1>1, BeginClock
<1>2. ASSUME NEW i \in 1..6, call.at = Steps[i],
             call' = [call EXCEPT !.seen[i] = read_rtc(now, i), !.at = Steps[i+1],
                                  !.first = IF i = 1 THEN now ELSE @],
             UNCHANGED <<clock, now, ticks, reads, latch, up, last>>
      PROVE  ClockInv'
  <2>1. Steps[i] \in Dating /\ Steps[i+1] \in Dating BY DEF Steps, Dating
  <2>2. clock = "rtc" BY <1>0, <1>2, <2>1 DEF CallOf
  <2>3. read_rtc(now, i) \in Int
    <3>1. now \in Nat BY <1>0 DEF ClockTypeOK
    <3>2. read_rtc(now, i) = Field(now, i) /\ Field(now, i) \in 0 .. Radix[i] - 1 BY <3>1, ReadFact, Zenon
    <3>3. Radix[i] \in 1..100 BY RadixFact
    <3> QED BY <3>2, <3>3
  <2>4. /\ call'.at = Steps[i+1] /\ call'.first = (IF i = 1 THEN now ELSE call.first)
        /\ call'.seen = [call.seen EXCEPT ![i] = read_rtc(now, i)]
    BY <1>0, <1>2 DEF ClockTypeOK
  <2>5. ClockTypeOK' BY <1>0, <1>2, <2>1, <2>3, Zenon DEF ClockTypeOK
  <2>6. CallOf' BY <1>2, <2>1, <2>2, <2>4 DEF CallOf, Dating
  <2>7. call.at # "idle" /\ call.first <= now /\ now < call.first + Radix[1]
    BY <1>0, <1>2, <2>1, <2>2 DEF InTime, Dating
  <2>8. InTime' BY <1>0, <1>2, <2>2, <2>4, <2>7, <1>h DEF InTime, ClockTypeOK
  <2>9. SeenDate'
    <3> SUFFICES ASSUME NEW m \in 1..7, NEW j \in 1..6, Steps[i+1] = Steps[m], j < m
                 PROVE  \E t \in call'.first..now : /\ call'.seen[j] = read_rtc(t, j)
                                                    /\ (j = 1 => t = call'.first)
      BY <1>2, <2>4 DEF SeenDate
    <3>1. m = i + 1 BY DEF Steps
    <3>2. CASE j = i
      <4>1. call'.seen[j] = read_rtc(now, j) BY <1>0, <2>4, <3>2 DEF ClockTypeOK
      <4>2. now \in call'.first..now /\ (j = 1 => now = call'.first)
        BY <1>0, <2>4, <2>7, <3>2 DEF ClockTypeOK
      <4> QED BY <4>1, <4>2
    <3>3. CASE j < i
      <4>1. call'.seen[j] = call.seen[j] /\ call'.first = call.first
        <5>1. i # 1 /\ i # j /\ call.seen \in [1..6 -> Int] BY <1>0, <3>3 DEF ClockTypeOK
        <5> QED BY <2>4, <5>1
      <4> QED BY <1>0, <1>2, <3>3, <4>1 DEF SeenDate
    <3> QED BY <3>1, <3>2, <3>3
  <2>10. SeenWord' BY <2>1, <2>4 DEF SeenWord, Dating
  <2>11. UpBefore' BY <1>0, <1>2, <2>4, <2>7 DEF UpBefore, ClockTypeOK
  <2>12. ClocksCoherent' BY <1>0, <1>2 DEF ClocksCoherent
  <2> QED BY <2>5, <2>6, <2>8, <2>9, <2>10, <2>11, <2>12 DEF ClockInv
<1>3. CASE /\ call.at = "again"
           /\ IF read_rtc(now, 1) = call.seen[1] THEN End("date", call.seen)
              ELSE call' = [call EXCEPT !.at = "second"] /\ UNCHANGED <<last, reads>>
           /\ UNCHANGED <<clock, now, ticks, latch, up>>
  <2>1. clock = "rtc" /\ call.first <= now /\ now < call.first + Radix[1]
    BY <1>0, <1>3 DEF CallOf, InTime, Dating
  <2>2. CASE read_rtc(now, 1) = call.seen[1]
    <3>1. call' = Reset /\ last' = [of |-> "date", got |-> call.seen, first |-> call.first, last |-> now]
      BY <1>3, <2>2 DEF End
    <3>2. \A j \in 1..6 : \E t \in call.first..now :
             call.seen[j] = read_rtc(t, j) /\ (j = 1 => t = call.first)
      BY <1>0, <1>3 DEF SeenDate, Steps
    <3>3. now \in Nat /\ call.first \in Nat BY <1>0 DEF ClockTypeOK
    <3>4. Field(now, 1) = Field(call.first, 1)
      <4>1. call.seen[1] = read_rtc(call.first, 1) BY <3>2
      <4>2. \A t \in Nat : read_rtc(t, 1) = Field(t, 1)
        <5>1. 1 \in 1..6 OBVIOUS
        <5> QED BY <5>1, ReadFact
      <4>3. read_rtc(now, 1) = Field(now, 1) /\ read_rtc(call.first, 1) = Field(call.first, 1)
        BY <3>3, <4>2
      <4> QED BY <2>2, <4>1, <4>3
    <3>5. now = call.first BY <2>1, <3>3, <3>4, SameSecond
    <3>6. \A j \in 1..6 : call.seen[j] = Field(now, j)
      <4> SUFFICES ASSUME NEW j \in 1..6 PROVE call.seen[j] = Field(now, j) OBVIOUS
      <4>1. call.seen[j] = read_rtc(now, j) BY <3>2, <3>3, <3>5
      <4> QED BY <3>3, <4>1, ReadFact, Zenon
    <3>7. call.seen = [j \in 1..6 |-> Field(now, j)] BY <1>0, <3>6 DEF ClockTypeOK
    <3>8. ClocksCoherent' BY <3>1, <3>7 DEF ClocksCoherent
    <3>9. /\ call' \in [at : Dating \cup {"idle", "high", "low", "time_lo", "time_hi"},
                        seen : [1..6 -> Int], first : Nat]
          /\ call'.at = "idle" /\ CallOf' /\ InTime' /\ SeenDate' /\ SeenWord'
      BY <1>3, <3>1, ResetFact
    <3>10. ClockTypeOK' BY <1>0, <1>3, <3>1, <3>9 DEF ClockTypeOK
    <3>11. UpBefore' BY <1>0, <1>3, <3>1 DEF UpBefore, Reset
    <3> QED BY <3>8, <3>9, <3>10, <3>11 DEF ClockInv
  <2>3. CASE read_rtc(now, 1) # call.seen[1]
    <3>1. /\ call' = [call EXCEPT !.at = "second"]
          /\ UNCHANGED <<clock, now, latch, up, last>>
      BY <1>3, <2>3
    <3>2. call'.at = "second" /\ call'.first = call.first BY <1>0, <3>1 DEF ClockTypeOK
    <3>3. ClockTypeOK' BY <1>0, <3>1 DEF ClockTypeOK, Dating
    <3>4. CallOf' /\ InTime' /\ SeenWord'
      BY <2>1, <3>1, <3>2 DEF CallOf, InTime, SeenWord, Dating
    <3>5. SeenDate' BY <3>2 DEF SeenDate, Steps
    <3>6. ClocksCoherent' BY <1>0, <3>1 DEF ClocksCoherent
    <3>7. UpBefore' BY <1>0, <1>3, <3>1, <3>2 DEF UpBefore
    <3> QED BY <3>3, <3>4, <3>5, <3>6, <3>7 DEF ClockInv
  <2> QED BY <2>2, <2>3
<1> QED BY <1>1, <1>2, <1>3 DEF timer_rtc

LEMMA WordsStep ==
  ASSUME ClockInv, ReadWords, UNCHANGED up PROVE ClockInv'
<1>0. ClockTypeOK /\ CallOf /\ InTime /\ SeenDate /\ SeenWord /\ UpBefore /\ ClocksCoherent
  BY DEF ClockInv
<1>1. CASE clock # "rtc" /\ Begin(clock, IF clock = "spike" THEN "time_lo" ELSE "high")
  <2>1. clock \in {"nemu", "npc", "spike"} BY <1>0, <1>1 DEF ClockTypeOK
  <2>2. CASE clock = "spike"
    <3>1. Begin("spike", "time_lo") BY <1>1, <2>2
    <3> QED BY <3>1, BeginClock
  <2>3. CASE clock # "spike"
    <3>1. Begin(clock, "high") BY <1>1, <2>3
    <3> QED BY <3>1, <2>1, <2>3, BeginClock
  <2> QED BY <2>2, <2>3
<1>2. ASSUME NEW w \in Int, NEW at \in {"low", "time_hi"},
             call.at \in {"high", "time_lo"}, at = "low" <=> call.at = "high",
             call' = [call EXCEPT !.at = at, !.seen[1] = w],
             UNCHANGED <<clock, now, ticks, reads, up, last>>, latch' \in Nat, SeenWord'
      PROVE  ClockInv'
  <2>1. call'.at = at /\ call'.first = call.first BY <1>0, <1>2 DEF ClockTypeOK
  <2>2. ClockTypeOK' BY <1>0, <1>2, Zenon DEF ClockTypeOK
  <2>3. CallOf' BY <1>0, <1>2, <2>1 DEF CallOf, Dating
  <2>4. InTime' BY <1>0, <1>2, <2>1 DEF InTime
  <2>5. \A i \in 1..7 : Steps[i] # at BY DEF Steps
  <2>6. SeenDate' BY <2>1, <2>5 DEF SeenDate
  <2>7. UpBefore' BY <1>0, <1>2, <2>1 DEF UpBefore
  <2>8. ClocksCoherent' BY <1>0, <1>2 DEF ClocksCoherent
  <2> QED BY <1>2, <2>2, <2>3, <2>4, <2>6, <2>7, <2>8 DEF ClockInv
<1>3. now \in Nat /\ call.seen \in [1..6 -> Int] BY <1>0 DEF ClockTypeOK
<1>4. now \div Half \in Int /\ now % Half \in Int BY <1>3, HalfFact
<1>5. CASE ReadHigh
  <2>1. call' = [call EXCEPT !.at = "low", !.seen[1] = now \div Half] /\ call.at = "high"
        /\ UNCHANGED <<clock, now, ticks, reads, up, last>> /\ latch' = now
    BY <1>5 DEF ReadHigh
  <2>2. call'.at = "low" /\ call'.first = call.first /\ call'.seen[1] = now \div Half
    BY <1>0, <1>3, <2>1 DEF ClockTypeOK
  <2>3. call.first <= now BY <1>0, <2>1 DEF InTime
  <2>4. SeenWord' BY <1>0, <2>1, <2>2, <2>3 DEF SeenWord, ClockTypeOK
  <2> QED BY <1>2, <1>3, <1>4, <2>1, <2>4, Zenon
<1>6. CASE read_time
  <2>1. call' = [call EXCEPT !.at = "time_hi", !.seen[1] = now % Half] /\ call.at = "time_lo"
        /\ UNCHANGED <<clock, now, ticks, reads, up, last>> /\ latch' = latch
    BY <1>6 DEF read_time
  <2>2. call'.at = "time_hi" /\ call'.first = call.first /\ call'.seen[1] = now % Half
    BY <1>0, <1>3, <2>1 DEF ClockTypeOK
  <2>3. call.first <= now BY <1>0, <2>1 DEF InTime
  <2>4. now \in call.first..now BY <1>0, <2>3 DEF ClockTypeOK
  <2>5. SeenWord' BY <2>1, <2>2, <2>4 DEF SeenWord
  <2> QED BY <1>0, <1>2, <1>4, <2>1, <2>5, Zenon DEF ClockTypeOK
<1> QED BY <1>1, <1>5, <1>6 DEF ReadWords

\* the time that a call gives
LEMMA TimeFact ==
  ASSUME ClockInv, NEW t \in Pieces, Time(t)
  PROVE  /\ t \in Int /\ call.at \in {"low", "time_hi"} /\ clock # "rtc" /\ call.first <= now
         /\ \/ t \in call.first..now
            \/ clock = "spike" /\ t - Half \in call.first..now
               /\ call.first \div Half # now \div Half
<1>0. ClockTypeOK /\ CallOf /\ InTime /\ SeenWord BY DEF ClockInv
<1>1. Half \in Nat \ {0} BY FirstRanges
<1>2. now \in Nat /\ call.first \in Nat BY <1>0 DEF ClockTypeOK
<1>3. call.at \in {"low", "time_hi"} BY DEF Time
<1>4. clock # "rtc" /\ call.first <= now /\ now < call.first + Half
  BY <1>0, <1>3 DEF CallOf, InTime
<1>5. CASE call.at = "low"
  <2>1. latch \in call.first..now /\ call.seen[1] = latch \div Half BY <1>0, <1>5 DEF SeenWord
  <2>2. t = (latch \div Half) * Half + (latch % Half) BY <1>5, <2>1 DEF Time
  <2>3. latch \in Nat BY <1>2, <2>1
  <2>4. t = latch BY <2>2, <2>3, HalfFact
  <2> QED BY <1>2, <1>3, <1>4, <2>1, <2>4
<1>6. CASE call.at = "time_hi"
  <2>0. clock = "spike" BY <1>0, <1>6 DEF CallOf
  <2>1. PICK l \in call.first..now : call.seen[1] = l % Half BY <1>0, <1>6 DEF SeenWord
  <2>2. l \in Nat /\ l <= now /\ now < l + Half /\ call.first <= l
    <3>1. l \in call.first..now OBVIOUS
    <3> QED BY <1>1, <1>2, <1>4, <3>1
  <2>3. t = (now \div Half) * Half + (l % Half) BY <1>6, <2>1 DEF Time
  <2>4. (l \div Half) * Half + (l % Half) = l BY <2>2, HalfFact
  <2>5. now \div Half \in {l \div Half, l \div Half + 1}
    <3>1. now \in Int /\ l \in Int BY <1>2, <2>2
    <3> QED BY <1>1, <2>2, <3>1, DivOrder
  <2>6. PICK q \in Int, r \in Int : q = l \div Half /\ r = l % Half BY <2>2, HalfFact
  <2>7. CASE now \div Half = l \div Half
    <3>1. t = l BY <2>3, <2>4, <2>7
    <3> QED BY <1>2, <1>3, <1>4, <2>1, <3>1
  <2>8. CASE now \div Half = l \div Half + 1
    <3>1. t = (q + 1) * Half + r BY <2>3, <2>6, <2>8
    <3>2. q * Half + r = l BY <2>4, <2>6
    <3>3. (q + 1) * Half = q * Half + Half BY <1>1, Z3
    <3>4. q * Half \in Int BY <1>1, Z3
    <3>5. t - Half = l /\ t \in Int BY <1>1, <3>1, <3>2, <3>3, <3>4, <2>2
    <3>6. call.first \div Half <= l \div Half BY <1>1, <1>2, <2>2, DivOrder
    <3>7. call.first \div Half \in Int BY <1>2, HalfFact
    <3>8. call.first \div Half # now \div Half BY <2>6, <2>8, <3>6, <3>7
    <3> QED BY <1>3, <1>4, <2>0, <2>1, <3>5, <3>8
  <2> QED BY <2>5, <2>7, <2>8
<1> QED BY <1>3, <1>5, <1>6

LEMMA EndStep ==
  ASSUME ClockInv, NEW t \in Pieces, Time(t), NEW of \in {"start", "uptime"}, NEW d \in Int,
         End(of, <<t, d, 0, 0, 0, 0>>), UNCHANGED <<clock, now, ticks, latch>>,
         \/ of = "start" /\ up' = t
         \/ of = "uptime" /\ up' = up /\ d = t - up
  PROVE  ClockInv'
<1>0. ClockTypeOK /\ CallOf /\ InTime /\ SeenDate /\ SeenWord /\ UpBefore /\ ClocksCoherent
  BY DEF ClockInv
<1>1. Half \in Nat \ {0} /\ now \in Nat /\ call.first \in Nat
  BY <1>0, FirstRanges DEF ClockTypeOK
<1>2. /\ t \in Int /\ call.at \in {"low", "time_hi"} /\ clock # "rtc" /\ call.first <= now
      /\ \/ t \in call.first..now
         \/ clock = "spike" /\ t - Half \in call.first..now
            /\ call.first \div Half # now \div Half
  BY TimeFact
<1>3. /\ call' = Reset
      /\ last' = [of |-> of, got |-> <<t, d, 0, 0, 0, 0>>, first |-> call.first, last |-> now]
  BY DEF End
<1>4. /\ call' \in [at : Dating \cup {"idle", "high", "low", "time_lo", "time_hi"},
                    seen : [1..6 -> Int], first : Nat]
      /\ call'.at = "idle" /\ CallOf' /\ InTime' /\ SeenDate' /\ SeenWord'
  BY <1>3, ResetFact
<1>5. <<t, d, 0, 0, 0, 0>> \in [1..6 -> Int] BY <1>2
<1>6. t \in Nat BY <1>1, <1>2
<1>7. up' \in Nat BY <1>0, <1>6 DEF ClockTypeOK
<1>8. ClockTypeOK' BY <1>0, <1>1, <1>3, <1>4, <1>5, <1>7 DEF ClockTypeOK
<1>9. UpBefore' BY <1>0, <1>1, <1>2, <1>4 DEF UpBefore
<1>10. clock # "spike" => up <= t BY <1>0, <1>1, <1>2 DEF UpBefore, ClockTypeOK
<1>11. /\ last'.of = of /\ last'.got[1] = t /\ last'.got[2] = d
       /\ last'.first = call.first /\ last'.last = now
  BY <1>3
<1>12. ClocksCoherent'
  <2>1. clock' = clock OBVIOUS
  <2>2. of = "uptime" => d = t - up /\ (clock # "spike" => d >= 0)
    BY <1>0, <1>6, <1>10 DEF ClockTypeOK
  <2> QED BY <1>2, <1>11, <2>1, <2>2 DEF ClocksCoherent
<1> QED BY <1>4, <1>8, <1>9, <1>12 DEF ClockInv

LEMMA TickStep ==
  ASSUME ClockInv, Tick PROVE ClockInv'
<1>0. ClockTypeOK /\ CallOf /\ InTime /\ SeenDate /\ SeenWord /\ UpBefore /\ ClocksCoherent
  BY DEF ClockInv
<1>1. now' = now + 1 /\ UNCHANGED <<clock, call, reads, latch, up, last>> /\ now \in Nat
  BY <1>0 DEF Tick, ClockTypeOK
<1>2. \A a \in Nat : a..now \subseteq a..now' BY <1>1
<1>3. ClockTypeOK' BY <1>0, <1>1 DEF ClockTypeOK
<1>4. CallOf' BY <1>0, <1>1 DEF CallOf
<1>5. InTime' BY <1>0, <1>1 DEF InTime, Tick, ClockTypeOK
<1>6. call.first..now \subseteq call.first..now' BY <1>0, <1>2 DEF ClockTypeOK
<1>7. SeenDate' BY <1>0, <1>1, <1>6 DEF SeenDate
<1>8. SeenWord' BY <1>0, <1>1, <1>6 DEF SeenWord
<1>9. UpBefore' BY <1>0, <1>1 DEF UpBefore, ClockTypeOK
<1>10. ClocksCoherent' BY <1>0, <1>1 DEF ClocksCoherent
<1> QED BY <1>3, <1>4, <1>5, <1>7, <1>8, <1>9, <1>10 DEF ClockInv

LEMMA ClockInvInit == ASSUME ClocksInit PROVE ClockInv
<1>1. now \in Nat BY ClocksAssumption DEF ClocksInit
<1>2. NoReading \in [1..6 -> Int] BY DEF NoReading
<1>3. call = [at |-> "idle", seen |-> NoReading, first |-> 0] BY DEF ClocksInit, Reset
<1>4. last = [of |-> "none", got |-> NoReading, first |-> 0, last |-> 0] BY DEF ClocksInit, None
<1>5. ClockTypeOK BY <1>1, <1>2, <1>3, <1>4 DEF ClocksInit, ClockTypeOK
<1>6. SeenDate BY <1>3 DEF SeenDate, Steps
<1>7. CallOf /\ InTime /\ SeenWord BY <1>3 DEF CallOf, InTime, SeenWord, Dating
<1>8. UpBefore BY <1>1, <1>3 DEF ClocksInit, UpBefore
<1>9. ClocksCoherent BY <1>4 DEF ClocksCoherent
<1> QED BY <1>5, <1>6, <1>7, <1>8, <1>9 DEF ClockInv

LEMMA ClockInvStep == ASSUME ClockInv, [ClocksNext]_tvars PROVE ClockInv'
<1>1. CASE timer_rtc BY <1>1, RtcStep
<1>2. CASE __am_timer_init
  <2>1. CASE ReadWords
    <3>1. UNCHANGED up BY <2>1 DEF ReadWords, Begin, ReadHigh, read_time
    <3> QED BY <2>1, <3>1, WordsStep
  <2>2. ASSUME NEW t \in Pieces, Time(t), up' = t, End("start", <<t, t, 0, 0, 0, 0>>),
               UNCHANGED <<clock, now, ticks, latch>>
        PROVE  ClockInv'
    <3>1. t \in Int BY <2>2, TimeFact
    <3> QED BY <2>2, <3>1, EndStep
  <2> QED BY <1>2, <2>1, <2>2, Zenon DEF __am_timer_init
<1>3. CASE __am_timer_uptime
  <2>1. CASE ReadWords
    <3>1. UNCHANGED up BY <2>1 DEF ReadWords, Begin, ReadHigh, read_time
    <3> QED BY <2>1, <3>1, WordsStep
  <2>2. ASSUME NEW t \in Pieces, Time(t), End("uptime", <<t, t - up, 0, 0, 0, 0>>),
               UNCHANGED <<clock, now, ticks, latch, up>>
        PROVE  ClockInv'
    <3>1. t \in Int /\ up \in Int BY <2>2, TimeFact DEF ClockInv, ClockTypeOK
    <3>2. t - up \in Int BY <3>1
    <3> QED BY <2>2, <3>2, EndStep
  <2> QED BY <1>3, <2>1, <2>2, Zenon DEF __am_timer_uptime
<1>4. CASE Tick BY <1>4, TickStep
<1>5. CASE UNCHANGED tvars
  BY <1>5 DEF tvars, ClockInv, ClockTypeOK, CallOf, InTime, SeenDate, SeenWord, UpBefore, ClocksCoherent
<1> QED BY <1>1, <1>2, <1>3, <1>4, <1>5 DEF ClocksNext

(* The invariant of what a call has read so far is inductive, for any date  *)
(* and any width of a counter's words.                                     *)
THEOREM ClocksInvariant == ClocksSpec => []ClockInv
<1>1. ClocksInit => ClockInv BY ClockInvInit
<1>2. ClockInv /\ [ClocksNext]_tvars => ClockInv' BY ClockInvStep
<1> QED BY <1>1, <1>2, PTL DEF ClocksSpec

(* A date and a time that are read in pieces are those of one moment of the *)
(* call (on spike a time may be one high word ahead, if the low word wraps  *)
(* between the pieces), and a time since the start is not negative.         *)
THEOREM ClocksKeptCoherent == ClocksSpec => []ClocksCoherent
<1>1. ClockInv => ClocksCoherent BY DEF ClockInv
<1> QED BY <1>1, ClocksInvariant, PTL

-----------------------------------------------------------------------------
(* The disk of x86-qemu. *)

\* what Devices does while it looks at the disk
DiskSpec == DiskInit /\ [][DiskNext]_dvars

DiskPlaces == {"idle", "wait", "count", "lba0", "lba1", "lba2", "lba3", "command", "wait2", "data"}
Storage == [Block -> [Word0 -> Int]]
DiskTypeOK ==
  /\ disk \in Storage /\ buf \in [Buffer -> Int] /\ pc \in DiskPlaces /\ done \in Nat
  /\ want \in [disk : Storage, buf : [Buffer -> Int]]
  /\ ata \in [count : Int, lba : [0..3 -> Int], busy : BOOLEAN, cmd : {"none", "read", "write"},
              at : Word0]
  /\ bio \in [write : BOOLEAN, remain : Nat, blkno : Nat, ptr : Nat]

\* the words of the current block that were moved; the place in the buffer where that block starts,
\* and the first place the call leaves alone
Offset == IF pc = "data" THEN ata.at ELSE 0
Start == bio.ptr - Offset
Beyond == Start + bio.remain * BlockWords

\* word i of block b is still to be moved; its place in the buffer
Left(b, i) == b \in bio.blkno .. bio.blkno + bio.remain - 1 /\ (b = bio.blkno => i >= Offset)
Place(b, i) == Start + (b - bio.blkno) * BlockWords + i

InRange == pc # "idle" => /\ bio.remain >= 1 /\ bio.blkno + bio.remain <= DiskSize
                          /\ Start >= 0 /\ Beyond <= MaxWords

\* what is expected is what is there, but for the words still to be moved
StillMoves ==
  IF bio.write
  THEN /\ want.buf = buf
       /\ \A b \in Block, i \in Word0 :
            want.disk[b][i] = IF Left(b, i) THEN buf[Place(b, i)] ELSE disk[b][i]
  ELSE /\ want.disk = disk
       /\ \A b \in Block, i \in Word0 : Left(b, i) => want.buf[Place(b, i)] = disk[b][i]
       /\ \A k \in Buffer : k < bio.ptr \/ k >= Beyond => want.buf[k] = buf[k]
Moves == IF pc = "idle" THEN disk = want.disk /\ buf = want.buf ELSE StillMoves

\* the drive listens whenever its registers are written
Listens == pc \in {"count", "lba0", "lba1", "lba2", "lba3", "command", "data"} => ~ata.busy

\* the registers that were written for this block
Past(k) == (CASE k = 0 -> {"lba1", "lba2", "lba3"} [] k = 1 -> {"lba2", "lba3"}
              [] k = 2 -> {"lba3"} [] k = 3 -> {}) \cup {"command", "wait2", "data"}
Told ==
  /\ pc \in {"lba0"} \cup Past(0) => ata.count = 1
  /\ \A k \in 0..3 : pc \in Past(k) => ata.lba[k] = Digit(bio.blkno, k)
  /\ pc \in {"wait2", "data"} => ata.cmd = IF bio.write THEN "write" ELSE "read"
  /\ pc = "wait2" => ata.at = 0

DiskInv == DiskTypeOK /\ InRange /\ Moves /\ Listens /\ Told

-----------------------------------------------------------------------------
(* The block number in four registers, and the sizes of the call.           *)

LEMMA DivDiv ==
  ASSUME NEW n \in Nat, NEW p \in Nat \ {0}, NEW q \in Nat \ {0}
  PROVE  n \div (p * q) = (n \div p) \div q
<1>1. n % p \in 0 .. p-1 /\ n \div p \in Int /\ n = p * (n \div p) + (n % p) BY DivMod
<1>2. PICK a \in Int, r \in 0 .. p-1 : a = n \div p /\ n = p * a + r BY <1>1
<1>3. a % q \in 0 .. q-1 /\ a \div q \in Int /\ a = q * (a \div q) + (a % q) BY DivMod
<1>4. PICK c \in Int, s \in 0 .. q-1 : c = a \div q /\ a = q * c + s BY <1>3
<1> DEFINE m == p * q
           t == p * s + r
<1>5. m \in Nat \ {0} BY NatProduct
<1>6. n = m * c + t
  <2>1. p * (q * c + s) = (p * q) * c + p * s BY Z3
  <2>2. a = q * c + s BY <1>4
  <2>3. p * a = (p * q) * c + p * s BY <2>1, <2>2
  <2>4. n = p * a + r BY <1>2
  <2>5. (p * q) * c \in Int /\ p * s \in Int /\ p * a \in Int /\ r \in Int OBVIOUS
  <2> HIDE DEF m, t
  <2>6. n = (p * q) * c + (p * s + r) BY <2>3, <2>4, <2>5
  <2> QED BY <2>6 DEF m, t
<1>7. t \in 0 .. m-1
  <2>1. p * s >= 0 BY Z3
  <2>2. p * (q - 1 - s) >= 0 BY Z3
  <2>3. p * s <= p * q - p BY <2>2, Z3
  <2> QED BY <2>1, <2>3, Z3
<1> HIDE DEF m, t
<1>8. (m * c + t) \div m = c BY <1>5, <1>7, ModUnique
<1>9. n \div m = c BY <1>6, <1>8
<1> QED BY <1>2, <1>4, <1>9, Zenon DEF m

LEMMA DivBound ==
  ASSUME NEW n \in Nat, NEW p \in Nat \ {0}, NEW m \in Nat, n < p * m
  PROVE  n \div p \in 0 .. m-1
<1>1. n % p \in 0 .. p-1 /\ n \div p \in Int /\ n = p * (n \div p) + (n % p) BY DivMod
<1>2. PICK a \in Int, r \in 0 .. p-1 : a = n \div p /\ n = p * a + r BY <1>1
<1>3. a >= 0
  <2>1. SUFFICES ASSUME a <= -1 PROVE FALSE BY <1>2
  <2>2. p * a <= p * (-1) BY <2>1, Z3
  <2> QED BY <1>2, <2>2, Z3
<1>4. a < m
  <2>1. SUFFICES ASSUME a >= m PROVE FALSE BY <1>2
  <2>2. p * a >= p * m BY <2>1, Z3
  <2> QED BY <1>2, <2>2, Z3
<1> QED BY <1>2, <1>3, <1>4

\* no digit of a block number is lost
LEMMA LbaFact ==
  ASSUME NEW n \in Block
  PROVE  Lba([k \in 0..3 |-> Digit(n, k)]) = n
<1> DEFINE a == n \div Q
           b == a \div Q
           c == b \div Q
<1>0. Q \in Nat \ {0} /\ Q * Q \in Nat \ {0} /\ Q * Q * Q \in Nat \ {0} BY DiskAssumption, NatProduct
<1>1. n \in Nat /\ n < Q * (Q * (Q * Q))
  <2>1. Q * Q * Q * Q = Q * (Q * (Q * Q)) BY <1>0, Z3
  <2>2. Q * Q * Q * Q \in Int BY <1>0, Z3
  <2> QED BY <2>1, <2>2 DEF Block, DiskSize
<1>2. a \in 0 .. Q * (Q * Q) - 1
  <2>1. Q * (Q * Q) \in Nat BY <1>0, NatProduct
  <2> HIDE DEF a
  <2> QED BY <2>1, <1>0, <1>1, DivBound, Zenon DEF a
<1>3. b \in 0 .. Q * Q - 1
  <2>1. a \in Nat /\ a < Q * (Q * Q) BY <1>0, <1>2, Z3
  <2>2. Q * Q \in Nat BY <1>0
  <2> HIDE DEF a, b
  <2> QED BY <1>0, <2>1, <2>2, DivBound, Zenon DEF b
<1>4. c \in 0 .. Q - 1
  <2>1. b \in Nat /\ b < Q * Q BY <1>0, <1>3, Z3
  <2> HIDE DEF a, b, c
  <2> QED BY <1>0, <2>1, DivBound, Zenon DEF c
<1>5. n \div (Q * Q) = b
  <2>1. n \div (Q * Q) = (n \div Q) \div Q BY <1>0, <1>1, DivDiv, Zenon
  <2> QED BY <2>1
<1>6. n \div (Q * Q * Q) = c
  <2>1. n \div ((Q * Q) * Q) = (n \div (Q * Q)) \div Q BY <1>0, <1>1, DivDiv, Zenon
  <2> QED BY <2>1, <1>5
<1> HIDE DEF a, b, c
<1>7. Digit(n, 0) = n % Q /\ Digit(n, 1) = a % Q /\ Digit(n, 2) = b % Q /\ Digit(n, 3) = c % Q
  BY <1>5, <1>6 DEF Digit, a
<1>8. n % Q \in 0 .. Q-1 /\ n = Q * a + (n % Q) BY <1>0, <1>1, DivMod DEF a
<1>9. a % Q \in 0 .. Q-1 /\ a = Q * b + (a % Q)
  <2>1. a \in Int BY <1>2
  <2> QED BY <1>0, <2>1, DivMod DEF b
<1>10. b % Q \in 0 .. Q-1 /\ b = Q * c + (b % Q)
  <2>1. b \in Int BY <1>3
  <2> QED BY <1>0, <2>1, DivMod DEF c
<1>11. c % Q = c
  <2>1. (Q * 0 + c) % Q = c BY <1>0, <1>4, ModUnique
  <2>2. Q * 0 + c = c BY <1>0, <1>4, Z3
  <2> QED BY <2>1, <2>2
<1>12. Lba([k \in 0..3 |-> Digit(n, k)])
         = (n % Q) + Q * ((a % Q) + Q * ((b % Q) + Q * (c % Q)))
  <2>1. 0 \in 0..3 /\ 1 \in 0..3 /\ 2 \in 0..3 /\ 3 \in 0..3 OBVIOUS
  <2> QED BY <2>1, <1>7 DEF Lba
<1>13. b = (b % Q) + Q * (c % Q)
  <2>1. c \in Int /\ b \in Int /\ b % Q \in Int /\ Q \in Int BY <1>0, <1>3, <1>4, <1>10
  <2> QED BY <2>1, <1>10, <1>11
<1>14. a = (a % Q) + Q * b
  <2>1. b \in Int /\ a \in Int /\ a % Q \in Int /\ Q \in Int BY <1>0, <1>2, <1>3, <1>9
  <2> QED BY <2>1, <1>9
<1>15. n = (n % Q) + Q * a
  <2>1. a \in Int /\ n \in Int /\ n % Q \in Int /\ Q \in Int BY <1>0, <1>1, <1>2, <1>8
  <2> QED BY <2>1, <1>8
<1> QED BY <1>12, <1>13, <1>14, <1>15

LEMMA SizesFact ==
  /\ BlockWords \in Nat \ {0} /\ DiskSize \in Nat \ {0} /\ MaxWords \in Nat
  /\ \A n \in Blkcnts : n \in Nat /\ n * BlockWords <= MaxWords
<1>1. Q \in Nat \ {0} /\ BlockWords \in Nat \ {0} BY DiskAssumption
<1>2. DiskSize \in Nat \ {0} BY <1>1, NatProduct DEF DiskSize
<1> DEFINE top == CHOOSE n \in Blkcnts : \A m \in Blkcnts : m <= n
<1>3. top \in Blkcnts /\ \A m \in Blkcnts : m <= top BY DiskAssumption, Zenon
<1> HIDE DEF top
<1>4. top \in Nat /\ MaxWords = BlockWords * top BY <1>3, DiskAssumption, Zenon DEF MaxWords, top
<1>5. MaxWords \in Nat BY <1>1, <1>4, Z3
<1>6. ASSUME NEW n \in Blkcnts PROVE n \in Nat /\ n * BlockWords <= MaxWords
  <2>1. n \in Nat /\ n <= top BY <1>3, DiskAssumption
  <2>2. BlockWords * (top - n) >= 0 BY <1>1, <1>4, <2>1, Z3
  <2> QED BY <1>1, <1>4, <2>1, <2>2, Z3
<1> QED BY <1>1, <1>2, <1>5, <1>6

\* words of the blocks of a call lie in the buffer
LEMMA PlaceFact ==
  ASSUME NEW n \in Nat, NEW d \in 0 .. n-1, NEW i \in Word0
  PROVE  d * BlockWords + i \in 0 .. n * BlockWords - 1
<1>0. BlockWords \in Nat \ {0} /\ i \in 0 .. BlockWords - 1 BY SizesFact DEF Word0
<1>1. BlockWords * d >= 0 BY <1>0, Z3
<1>2. BlockWords * (n - 1 - d) >= 0 BY <1>0, Z3
<1> QED BY <1>0, <1>1, <1>2, Z3

LEMMA NextBlock ==
  ASSUME NEW d \in Int
  PROVE  /\ d * BlockWords \in Int
         /\ (d + 1) * BlockWords = d * BlockWords + BlockWords
         /\ (d - 1) * BlockWords = d * BlockWords - BlockWords
<1>0. BlockWords \in Nat BY SizesFact
<1> QED BY <1>0, Z3

-----------------------------------------------------------------------------
(* Nothing moves while the registers are written.                           *)

LEMMA StillThere ==
  ASSUME InRange, Moves, pc # "idle", pc' # "idle", Offset' = Offset,
         UNCHANGED <<disk, buf, bio, want>>
  PROVE  InRange' /\ Moves'
<1>1. Start' = Start /\ Beyond' = Beyond BY DEF Start, Beyond
<1>2. InRange' BY <1>1 DEF InRange
<1>3. StillMoves BY DEF Moves
<1>4. \A b, i : Left(b, i)' <=> Left(b, i) BY DEF Left
<1>5. \A b, i : Place(b, i)' = Place(b, i) BY <1>1 DEF Place
<1>6. StillMoves' BY <1>1, <1>3, <1>4, <1>5 DEF StillMoves
<1> QED BY <1>2, <1>6 DEF Moves

LEMMA RegisterStep ==
  ASSUME DiskInv, pc # "data", disk_blkio
  PROVE  DiskInv'
<1> USE DEF DiskInv
<1>0. ata.busy \in BOOLEAN /\ DiskTypeOK BY DEF DiskTypeOK
<1>1. CASE wait_disk
  <2>1. /\ pc \in {"wait", "wait2"} /\ ~ata.busy /\ ata' = ata /\ UNCHANGED <<disk, buf, bio, done, want>>
        /\ pc' = IF pc = "wait" THEN "count" ELSE "data"
    BY <1>1 DEF wait_disk, Goes, After
  <2>2. Offset' = Offset BY <2>1 DEF Offset, Told
  <2>3. InRange' /\ Moves' BY <2>1, <2>2, StillThere
  <2>4. DiskTypeOK' BY <2>1 DEF DiskTypeOK, DiskPlaces
  <2>5. Listens' BY <2>1 DEF Listens
  <2>6. Told'
    <3>1. \A k \in 0..3 : pc' \in Past(k)' => pc \in Past(k) BY <2>1 DEF Past
    <3>2. \A k \in 0..3 : Digit(bio.blkno, k)' = Digit(bio.blkno, k) BY <2>1
    <3>3. pc' \in {"lba0"} \cup Past(0)' => pc \in {"lba0"} \cup Past(0) BY <2>1 DEF Past
    <3> QED BY <2>1, <3>1, <3>2, <3>3 DEF Told
  <2> QED BY <2>3, <2>4, <2>5, <2>6
<1>2. ASSUME NEW r, pc \in {"count", "lba0", "lba1", "lba2", "lba3", "command"}, Outb(r),
             r.at \in Word0, r \in [count : Int, lba : [0..3 -> Int], busy : BOOLEAN,
                                    cmd : {"none", "read", "write"}, at : Word0]
      PROVE  /\ ata' = r /\ UNCHANGED <<disk, buf, bio, done, want>> /\ pc' = After(pc)
             /\ pc' \in {"lba0", "lba1", "lba2", "lba3", "command", "wait2"}
             /\ DiskTypeOK' /\ InRange' /\ Moves'
  <2>1. ~ata.busy BY <1>2 DEF Listens
  <2>2. /\ ata' = r /\ UNCHANGED <<disk, buf, bio, done, want>> /\ pc' = After(pc)
    BY <1>2, <2>1 DEF Outb, Goes
  <2>3. pc' \in {"lba0", "lba1", "lba2", "lba3", "command", "wait2"} BY <1>2, <2>2 DEF After
  <2>4. Offset' = Offset BY <1>2, <2>3 DEF Offset
  <2>5. InRange' /\ Moves' BY <1>2, <2>2, <2>3, <2>4, StillThere
  <2>6. DiskTypeOK' BY <1>2, <2>2, <2>3 DEF DiskTypeOK, DiskPlaces
  <2> QED BY <2>2, <2>3, <2>5, <2>6
<1>3. CASE pc = "count" /\ Outb([ata EXCEPT !.count = 1])
  <2> DEFINE r == [ata EXCEPT !.count = 1]
  <2>1. r \in [count : Int, lba : [0..3 -> Int], busy : BOOLEAN,
               cmd : {"none", "read", "write"}, at : Word0] /\ r.at \in Word0 /\ r.count = 1 /\ r.busy = ata.busy
    BY DEF DiskTypeOK
  <2> HIDE DEF r
  <2>2. ata' = r /\ pc' = "lba0" /\ DiskTypeOK' /\ InRange' /\ Moves'
    BY <1>2, <1>3, <2>1 DEF r, After
  <2>3. Listens' BY <1>3, <2>1, <2>2 DEF Listens
  <2>4. Told' BY <2>1, <2>2 DEF Told, Past
  <2> QED BY <2>2, <2>3, <2>4
<1>4. ASSUME NEW j \in 0..3, pc = <<"lba0", "lba1", "lba2", "lba3">>[j+1],
             Outb([ata EXCEPT !.lba[j] = Digit(bio.blkno, j)])
      PROVE  DiskInv'
  <2> DEFINE d == Digit(bio.blkno, j)
             r == [ata EXCEPT !.lba[j] = d]
  <2>1. d \in Int
    <3>0. Q \in Nat \ {0} /\ Q * Q \in Nat \ {0} /\ Q * Q * Q \in Nat \ {0} BY DiskAssumption, NatProduct
    <3>1. bio.blkno \in Int BY DEF DiskTypeOK
    <3>2. bio.blkno \div Q \in Int BY <3>0, <3>1, DivMod, Zenon
    <3>3. bio.blkno \div (Q * Q) \in Int BY <3>0, <3>1, DivMod
    <3>4. bio.blkno \div (Q * Q * Q) \in Int BY <3>0, <3>1, DivMod
    <3>5. \A x \in Int : x % Q \in Int BY <3>0, DivMod
    <3>6. j = 0 \/ j = 1 \/ j = 2 \/ j = 3 OBVIOUS
    <3> QED BY <3>1, <3>2, <3>3, <3>4, <3>5, <3>6 DEF Digit
  <2> HIDE DEF d
  <2>2. /\ r \in [count : Int, lba : [0..3 -> Int], busy : BOOLEAN,
                  cmd : {"none", "read", "write"}, at : Word0] /\ r.at \in Word0
        /\ r.count = ata.count /\ r.busy = ata.busy /\ r.lba[j] = d
        /\ \A k \in 0..3 : k # j => r.lba[k] = ata.lba[k]
    BY <2>1 DEF DiskTypeOK
  <2>3. Outb(r) BY <1>4 DEF d
  <2> HIDE DEF r
  <2>4. pc = (CASE j = 0 -> "lba0" [] j = 1 -> "lba1" [] j = 2 -> "lba2" [] j = 3 -> "lba3") BY <1>4
  <2>5. pc \in {"lba0", "lba1", "lba2", "lba3"} BY <2>4
  <2>6. ata' = r /\ UNCHANGED bio /\ pc' = After(pc) /\ DiskTypeOK' /\ InRange' /\ Moves'
    BY <1>2, <2>2, <2>3, <2>5
  <2>7. pc' = (CASE j = 0 -> "lba1" [] j = 1 -> "lba2" [] j = 2 -> "lba3" [] j = 3 -> "command")
    BY <2>4, <2>6 DEF After
  <2>8. Listens' BY <2>2, <2>5, <2>6 DEF Listens
  <2>9. Told'
    <3>1. \A k \in 0..3 : pc' \in Past(k)' /\ k # j => pc \in Past(k) BY <2>4, <2>7 DEF Past
    <3>2. \A k \in 0..3 : Digit(bio.blkno, k)' = Digit(bio.blkno, k) BY <2>6
    <3>3. \A k \in 0..3 : pc' \in Past(k)' => ata'.lba[k] = Digit(bio.blkno, k)'
      BY <2>2, <2>6, <3>1, <3>2 DEF Told, d
    <3>4. pc \in {"lba0"} \cup Past(0) BY <2>4 DEF Past
    <3>5. ata'.count = 1 BY <2>2, <2>6, <3>4 DEF Told
    <3>6. pc' \notin {"wait2", "data"} BY <2>7
    <3> QED BY <3>3, <3>5, <3>6 DEF Told
  <2> QED BY <2>6, <2>8, <2>9
<1>5. CASE pc = "command" /\ Outb([ata EXCEPT !.cmd = IF bio.write THEN "write" ELSE "read",
                                              !.busy = TRUE, !.at = 0])
  <2> DEFINE r == [ata EXCEPT !.cmd = IF bio.write THEN "write" ELSE "read", !.busy = TRUE, !.at = 0]
  <2>1. 0 \in Word0 BY SizesFact DEF Word0
  <2>2. /\ r \in [count : Int, lba : [0..3 -> Int], busy : BOOLEAN,
                  cmd : {"none", "read", "write"}, at : Word0]
        /\ r.at = 0 /\ r.count = ata.count /\ r.lba = ata.lba
        /\ r.cmd = IF bio.write THEN "write" ELSE "read"
    BY <2>1, Zenon DEF DiskTypeOK
  <2> HIDE DEF r
  <2>3. ata' = r /\ UNCHANGED bio /\ pc' = "wait2" /\ DiskTypeOK' /\ InRange' /\ Moves'
    <3>1. Outb(r) BY <1>5 DEF r
    <3>2. r.at \in Word0 BY <2>1, <2>2
    <3>3. /\ ata' = r /\ UNCHANGED bio /\ pc' = After(pc) /\ DiskTypeOK' /\ InRange' /\ Moves'
      BY <1>2, <1>5, <2>2, <3>1, <3>2
    <3> QED BY <1>5, <3>3 DEF After
  <2>4. Listens' BY <2>3 DEF Listens
  <2>5. Told'
    <3>1. \A k \in 0..3 : pc \in Past(k) BY <1>5 DEF Past
    <3>2. \A k \in 0..3 : Digit(bio.blkno, k)' = Digit(bio.blkno, k) BY <2>3
    <3> QED BY <2>2, <2>3, <3>1, <3>2 DEF Told
  <2> QED BY <2>3, <2>4, <2>5
<1>6. ~Data BY DEF Data
<1> QED BY <1>1, <1>3, <1>4, <1>5, <1>6 DEF disk_blkio

-----------------------------------------------------------------------------
(* One word moves: it is the next one left, and the only one that was not   *)
(* left before.                                                            *)

LEMMA DataBlock ==
  ASSUME DiskInv, pc = "data"
  PROVE  /\ Lba(ata.lba) = bio.blkno /\ bio.blkno \in Block /\ ~ata.busy
         /\ bio.remain >= 1 /\ ata.cmd = (IF bio.write THEN "write" ELSE "read") /\ ata.count = 1
<1>1. bio.blkno \in Block /\ bio.remain >= 1
  BY SizesFact DEF DiskInv, InRange, DiskTypeOK, Block
<1>2. \A k \in 0..3 : pc \in Past(k) BY DEF Past
<1>3. \A k \in 0..3 : ata.lba[k] = Digit(bio.blkno, k) BY <1>2 DEF DiskInv, Told
<1>4. ata.lba \in [0..3 -> Int] BY DEF DiskInv, DiskTypeOK
<1>5. ata.lba = [k \in 0..3 |-> Digit(bio.blkno, k)] BY <1>3, <1>4
<1>6. Lba(ata.lba) = bio.blkno BY <1>1, <1>5, LbaFact
<1> QED BY <1>1, <1>2, <1>6 DEF DiskInv, Listens, Told

LEMMA WordMoves ==
  ASSUME DiskInv, Data
  PROVE  /\ Place(bio.blkno, ata.at) = bio.ptr /\ Left(bio.blkno, ata.at)
         /\ Start' >= 0 /\ Beyond' = Beyond /\ bio.ptr < Beyond
         /\ pc' = "idle" => bio.ptr + 1 >= Beyond /\ \A b \in Block, i \in Word0 : ~Left(b, i)'
         /\ \A b \in Block, i \in Word0 :
              /\ Place(b, i)' = Place(b, i)
              /\ Left(b, i)' <=> Left(b, i) /\ ~(b = bio.blkno /\ i = ata.at)
<1>0. /\ pc = "data" /\ BlockWords \in Nat \ {0} /\ Word0 = 0 .. BlockWords - 1
      /\ ata.at \in 0 .. BlockWords - 1 /\ bio.ptr \in Nat /\ bio.remain \in Nat /\ bio.remain >= 1
      /\ bio.blkno \in Nat /\ ata.busy \in BOOLEAN /\ Start >= 0
      /\ ata.lba \in [0..3 -> Int]
  BY SizesFact DEF Data, DiskInv, DiskTypeOK, InRange, Word0
<1> DEFINE B == bio.blkno
           at == ata.at
           p == bio.ptr
           n == bio.remain
<1>1. Offset = at /\ Start = p - at /\ Start \in Int BY <1>0 DEF Offset, Start
<1>2. \A k \in Int : k * BlockWords \in Int BY NextBlock
<1>3. 0 * BlockWords = 0 /\ 1 * BlockWords = BlockWords BY <1>0
<1>4. Beyond = Start + n * BlockWords BY DEF Beyond
<1>5. Place(B, at) = p
  <2>1. B - B = 0 BY <1>0
  <2> QED BY <1>0, <1>1, <1>3, <2>1, SMTT(60) DEF Place
<1>6. Left(B, at) BY <1>0, <1>1, SMTT(60) DEF Left
<1>7. n * BlockWords >= BlockWords
  <2>1. ASSUME NEW m \in Nat \ {0} PROVE m * BlockWords >= BlockWords
    <3>1. BlockWords * (m - 1) >= 0 BY <1>0, Z3
    <3> QED BY <1>0, <3>1, Z3
  <2>2. n \in Nat \ {0} BY <1>0
  <2> HIDE DEF n
  <2> QED BY <2>1, <2>2
<1>8. p < Beyond
  <2> DEFINE nb == n * BlockWords
  <2>1. nb \in Int /\ nb >= BlockWords BY <1>0, <1>2, <1>7
  <2>2. Beyond = p - at + nb BY <1>1, <1>4
  <2>3. p \in Int /\ at \in Int /\ at < BlockWords /\ BlockWords \in Int BY <1>0, SMTT(60)
  <2> HIDE DEF nb, n, p, at
  <2> QED BY <2>1, <2>2, <2>3
<1>9. CASE at # BlockWords - 1
  <2>1. /\ pc' = "data" /\ bio'.ptr = p + 1 /\ bio'.remain = n /\ bio'.blkno = B
        /\ ata'.at = at + 1
    BY <1>0, <1>9 DEF Data, DiskInv, DiskTypeOK
  <2>2. Offset' = at + 1 BY <2>1 DEF Offset
  <2>3. Start' = Start
    <3>1. Start' = (p + 1) - (at + 1) BY <2>1, <2>2 DEF Start
    <3>2. p \in Int /\ at \in Int BY <1>0
    <3> HIDE DEF p, at
    <3> QED BY <1>1, <3>1, <3>2
  <2>4. Beyond' = Beyond BY <2>1, <2>3 DEF Beyond
  <2>5. \A b, i : Place(b, i)' = Place(b, i) BY <2>1, <2>3 DEF Place
  <2>6. ASSUME NEW b \in Block, NEW i \in Word0
        PROVE  Left(b, i)' <=> Left(b, i) /\ ~(b = B /\ i = at)
    <3>1. i \in Int BY <1>0
    <3>2. Left(b, i)' <=> b \in B .. B + n - 1 /\ (b = B => i >= at + 1) BY <2>1, <2>2 DEF Left
    <3>3. Left(b, i) <=> b \in B .. B + n - 1 /\ (b = B => i >= at) BY <1>1 DEF Left
    <3> HIDE DEF B, at, n
    <3>4. at \in Int BY <1>0 DEF at
    <3> QED BY <3>1, <3>2, <3>3, <3>4
  <2> QED BY <1>0, <1>5, <1>6, <1>8, <2>1, <2>3, <2>4, <2>5, <2>6, Zenon
<1>10. CASE at = BlockWords - 1
  <2>1. /\ pc' = (IF n = 1 THEN "idle" ELSE "wait") /\ bio'.ptr = p + 1 /\ bio'.remain = n - 1
        /\ bio'.blkno = B + 1
    BY <1>0, <1>10 DEF Data, DiskInv, DiskTypeOK
  <2>2. Offset' = 0 BY <2>1 DEF Offset
  <2>3. Start' = Start + BlockWords BY <1>0, <1>1, <1>10, <2>1, <2>2 DEF Start
  <2>4. (n - 1) * BlockWords = n * BlockWords - BlockWords /\ n * BlockWords \in Int
    BY <1>0, NextBlock, SMTT(60)
  <2>5. Beyond' = Beyond BY <1>0, <1>1, <1>4, <2>1, <2>3, <2>4 DEF Beyond
  <2>6. ASSUME NEW b \in Block, NEW i \in Word0 PROVE Place(b, i)' = Place(b, i)
    <3>1. i \in Int /\ b \in Int BY <1>0, SizesFact DEF Block
    <3> DEFINE d == b - B
    <3>2. d \in Int /\ b - (B + 1) = d - 1 BY <1>0, <3>1
    <3> HIDE DEF d
    <3>3. (d - 1) * BlockWords = d * BlockWords - BlockWords /\ d * BlockWords \in Int BY <3>2, NextBlock
    <3>4. Place(b, i)' = Start' + (b - (B + 1)) * BlockWords + i BY <2>1 DEF Place
    <3>5. Place(b, i) = Start + d * BlockWords + i BY DEF Place, d
    <3>6. Place(b, i)' = (Start + BlockWords) + (d * BlockWords - BlockWords) + i
      BY <2>3, <3>2, <3>3, <3>4
    <3>7. Start \in Int /\ BlockWords \in Int /\ d * BlockWords \in Int BY <1>0, <1>1, <3>3
    <3> QED BY <3>1, <3>5, <3>6, <3>7
  <2>7. ASSUME NEW b \in Block, NEW i \in Word0
        PROVE  Left(b, i)' <=> Left(b, i) /\ ~(b = B /\ i = at)
    <3>1. i \in 0 .. at /\ b \in Int BY <1>0, <1>10, SizesFact DEF Block
    <3>2. Left(b, i)' <=> b \in B + 1 .. (B + 1) + (n - 1) - 1 /\ (b = B + 1 => i >= 0)
      BY <2>1, <2>2 DEF Left
    <3>3. Left(b, i) <=> b \in B .. B + n - 1 /\ (b = B => i >= at) BY <1>1 DEF Left
    <3> HIDE DEF B, at, n
    <3>4. at \in Int /\ B \in Int /\ n \in Int BY <1>0, SMTT(60) DEF at, B, n
    <3> QED BY <3>1, <3>2, <3>3, <3>4
  <2>8. ASSUME pc' = "idle"
        PROVE  p + 1 >= Beyond /\ \A b \in Block, i \in Word0 : ~Left(b, i)'
    <3>1. n = 1 BY <2>1, <2>8
    <3>2. p + 1 >= Beyond BY <1>0, <1>1, <1>3, <1>4, <1>10, <3>1
    <3>3. \A b, i : ~Left(b, i)' BY <1>0, <2>1, <3>1 DEF Left
    <3> QED BY <3>2, <3>3
  <2>9. Start' >= 0 BY <1>0, <1>1, <2>3
  <2> QED BY <1>5, <1>6, <1>8, <2>5, <2>6, <2>7, <2>8, <2>9
<1> QED BY <1>9, <1>10

LEMMA SameStorage ==
  ASSUME NEW f \in Storage, NEW g \in Storage, \A b \in Block, i \in Word0 : f[b][i] = g[b][i]
  PROVE  f = g
<1>1. ASSUME NEW b \in Block PROVE f[b] = g[b]
  <2>1. f[b] \in [Word0 -> Int] /\ g[b] \in [Word0 -> Int] BY DEF Storage
  <2> QED BY <2>1
<1> QED BY <1>1 DEF Storage

LEMMA DataStep ==
  ASSUME DiskInv, Data
  PROVE  DiskInv'
<1> DEFINE B == bio.blkno
           at == ata.at
           p == bio.ptr
<1>0. /\ pc = "data" /\ at \in Word0 /\ B \in Block /\ ~ata.busy /\ Lba(ata.lba) = B /\ DiskTypeOK
      /\ bio.remain >= 1 /\ UNCHANGED <<done, want>>
  BY DataBlock DEF Data, DiskInv, DiskTypeOK
<1>1. /\ IF bio.write
         THEN disk' = [disk EXCEPT ![B][at] = buf[p]] /\ buf' = buf
         ELSE buf' = [buf EXCEPT ![p] = disk[B][at]] /\ disk' = disk
      /\ ata' = [ata EXCEPT !.at = IF at = BlockWords - 1 THEN 0 ELSE @ + 1,
                            !.busy = at = BlockWords - 1 /\ bio.write]
      /\ bio' = [bio EXCEPT !.ptr = @ + 1,
                            !.remain = IF at = BlockWords - 1 THEN @ - 1 ELSE @,
                            !.blkno = IF at = BlockWords - 1 THEN @ + 1 ELSE @]
      /\ pc' = IF at # BlockWords - 1 THEN "data" ELSE IF bio.remain = 1 THEN "idle" ELSE "wait"
  BY <1>0 DEF Data
<1>2. /\ Place(B, at) = p /\ Left(B, at) /\ p < Beyond
      /\ Start' >= 0 /\ Beyond' = Beyond
      /\ pc' = "idle" => p + 1 >= Beyond /\ \A b \in Block, i \in Word0 : ~Left(b, i)'
      /\ \A b \in Block, i \in Word0 :
           /\ Place(b, i)' = Place(b, i)
           /\ Left(b, i)' <=> Left(b, i) /\ ~(b = B /\ i = at)
  BY WordMoves
<1>3. bio'.ptr = p + 1 /\ bio'.write = bio.write BY <1>0, <1>1 DEF DiskTypeOK
<1>4. Beyond <= MaxWords /\ StillMoves BY <1>0 DEF DiskInv, InRange, Moves
<1>5. p \in Nat /\ buf \in [Buffer -> Int] /\ disk \in Storage /\ want.disk \in Storage
      /\ want.buf \in [Buffer -> Int]
  BY <1>0 DEF DiskTypeOK
<1>6. p \in Buffer
  <2>1. MaxWords \in Int /\ Beyond \in Int
    <3>1. bio.remain * BlockWords \in Int /\ Offset \in Int
      BY <1>0, NextBlock DEF DiskTypeOK, Offset, Word0
    <3> QED BY <1>5, <3>1, SizesFact DEF Beyond, Start
  <2> QED BY <1>2, <1>4, <1>5, <2>1 DEF Buffer
<1>7. disk' \in Storage /\ buf' \in [Buffer -> Int]
  <2>1. disk[B][at] \in Int /\ buf[p] \in Int BY <1>0, <1>5, <1>6 DEF Storage
  <2>2. disk[B] \in [Word0 -> Int] BY <1>0, <1>5 DEF Storage
  <2>3. [disk EXCEPT ![B][at] = buf[p]] \in Storage BY <1>0, <1>5, <2>1, <2>2 DEF Storage
  <2>4. [buf EXCEPT ![p] = disk[B][at]] \in [Buffer -> Int] BY <1>5, <2>1, Zenon
  <2> QED BY <1>1, <1>5, <2>3, <2>4
<1>8. DiskTypeOK'
  <2>1. ata' \in [count : Int, lba : [0..3 -> Int], busy : BOOLEAN, cmd : {"none", "read", "write"},
                  at : Word0]
    <3>1. (IF at = BlockWords - 1 THEN 0 ELSE at + 1) \in Word0 BY <1>0, SizesFact DEF Word0
    <3>2. (at = BlockWords - 1 /\ bio.write) \in BOOLEAN OBVIOUS
    <3> QED BY <1>0, <1>1, <3>1, <3>2, Zenon DEF DiskTypeOK
  <2>2. bio' \in [write : BOOLEAN, remain : Nat, blkno : Nat, ptr : Nat]
    <3>1. (IF at = BlockWords - 1 THEN bio.remain - 1 ELSE bio.remain) \in Nat
      BY <1>0 DEF DiskTypeOK
    <3>2. (IF at = BlockWords - 1 THEN B + 1 ELSE B) \in Nat BY <1>0 DEF DiskTypeOK
    <3>3. p + 1 \in Nat BY <1>5
    <3> QED BY <1>0, <1>1, <3>1, <3>2, <3>3, Zenon DEF DiskTypeOK
  <2> QED BY <1>0, <1>1, <1>7, <2>1, <2>2 DEF DiskTypeOK, DiskPlaces
<1>9. InRange'
  <2> SUFFICES ASSUME pc' # "idle" PROVE InRange' BY DEF InRange
  <2>1. B + bio.remain <= DiskSize /\ DiskSize \in Int /\ B \in Int /\ bio.remain \in Int
    BY <1>0, SizesFact DEF DiskInv, InRange, DiskTypeOK
  <2>2. bio'.remain >= 1 /\ bio'.blkno + bio'.remain = B + bio.remain
    BY <1>0, <1>1, <2>1 DEF DiskTypeOK
  <2> QED BY <1>2, <1>4, <2>1, <2>2 DEF InRange
<1>10. StillMoves'
  <2>1. CASE bio.write
    <3>1. want'.buf = buf' BY <1>0, <1>1, <1>4, <2>1 DEF StillMoves
    <3>2. ASSUME NEW b \in Block, NEW i \in Word0
          PROVE  want'.disk[b][i] = IF Left(b, i)' THEN buf'[Place(b, i)'] ELSE disk'[b][i]
      <4>1. want.disk[b][i] = IF Left(b, i) THEN buf[Place(b, i)] ELSE disk[b][i]
        BY <1>4, <2>1 DEF StillMoves
      <4>2. disk'[b][i] = IF b = B /\ i = at THEN buf[p] ELSE disk[b][i]
        BY <1>0, <1>1, <1>5, <2>1 DEF Storage
      <4>3. CASE b = B /\ i = at BY <1>0, <1>1, <1>2, <2>1, <4>1, <4>2, <4>3
      <4>4. CASE ~(b = B /\ i = at) BY <1>0, <1>1, <1>2, <2>1, <4>1, <4>2, <4>4
      <4> QED BY <4>3, <4>4
    <3> QED BY <1>3, <2>1, <3>1, <3>2 DEF StillMoves
  <2>2. CASE ~bio.write
    <3>0. buf' = [buf EXCEPT ![p] = disk[B][at]] /\ disk' = disk BY <1>1, <2>2
    <3>1. want'.disk = disk' BY <1>0, <1>4, <2>2, <3>0 DEF StillMoves
    <3>2. ASSUME NEW b \in Block, NEW i \in Word0, Left(b, i)'
          PROVE  want'.buf[Place(b, i)'] = disk'[b][i]
      BY <1>0, <1>2, <1>4, <2>2, <3>0, <3>2 DEF StillMoves
    <3>3. ASSUME NEW k \in Buffer, k < bio'.ptr \/ k >= Beyond'
          PROVE  want'.buf[k] = buf'[k]
      <4>1. CASE k = p
        <5>1. want.buf[p] = disk[B][at] BY <1>0, <1>2, <1>4, <2>2 DEF StillMoves
        <5> QED BY <1>0, <1>5, <1>6, <3>0, <4>1, <5>1
      <4>2. CASE k # p
        <5>1. k \in Int BY SizesFact DEF Buffer
        <5>2. k < p \/ k >= Beyond BY <1>2, <1>3, <1>5, <3>3, <4>2, <5>1
        <5>3. want.buf[k] = buf[k] BY <1>4, <2>2, <5>2 DEF StillMoves
        <5> QED BY <1>0, <1>5, <3>0, <4>2, <5>3
      <4> QED BY <4>1, <4>2
    <3> QED BY <1>3, <2>2, <3>1, <3>2, <3>3 DEF StillMoves
  <2> QED BY <2>1, <2>2
<1>11. Moves'
  <2> SUFFICES ASSUME pc' = "idle" PROVE disk' = want'.disk /\ buf' = want'.buf
    BY <1>10 DEF Moves
  <2>1. \A b \in Block, i \in Word0 : ~Left(b, i)' BY <1>2
  <2>2. want'.disk \in Storage /\ want'.buf \in [Buffer -> Int] BY <1>0, <1>5
  <2>3. CASE bio.write
    <3>1. want'.buf = buf' BY <1>3, <1>10, <2>3 DEF StillMoves
    <3>2. \A b \in Block, i \in Word0 : want'.disk[b][i] = disk'[b][i]
      BY <1>3, <1>10, <2>1, <2>3 DEF StillMoves
    <3>3. want'.disk = disk' BY <1>7, <2>2, <3>2, SameStorage
    <3> QED BY <3>1, <3>3
  <2>4. CASE ~bio.write
    <3>1. want'.disk = disk' BY <1>3, <1>10, <2>4 DEF StillMoves
    <3>2. ASSUME NEW k \in Buffer PROVE want'.buf[k] = buf'[k]
      <4>1. k \in Int BY SizesFact DEF Buffer
      <4>2. Beyond \in Int
        <5>1. bio.remain * BlockWords \in Int /\ Offset \in Int
          BY <1>0, NextBlock DEF DiskTypeOK, Offset, Word0
        <5> QED BY <1>5, <5>1 DEF Beyond, Start
      <4>3. k < bio'.ptr \/ k >= Beyond' BY <1>2, <1>3, <1>5, <4>1, <4>2
      <4> QED BY <1>3, <1>10, <2>4, <4>3 DEF StillMoves
    <3> QED BY <1>7, <2>2, <3>1, <3>2
  <2> QED BY <2>3, <2>4
<1>12. Listens' BY <1>0, <1>1 DEF Listens, DiskTypeOK
<1>13. Told'
  <2>1. CASE at = BlockWords - 1 BY <1>1, <2>1 DEF Told, Past
  <2>2. CASE at # BlockWords - 1
    <3>1. /\ pc' = "data" /\ ata'.count = ata.count /\ ata'.lba = ata.lba /\ ata'.cmd = ata.cmd
          /\ bio'.blkno = B
      BY <1>0, <1>1, <2>2 DEF DiskTypeOK
    <3>2. \A k \in 0..3 : Digit(bio.blkno, k)' = Digit(bio.blkno, k) BY <3>1
    <3>3. \A k \in 0..3 : pc \in Past(k) BY <1>0 DEF Past
    <3> QED BY <1>0, <1>3, <3>1, <3>2, <3>3 DEF DiskInv, Told
  <2> QED BY <2>1, <2>2
<1> QED BY <1>8, <1>9, <1>11, <1>12, <1>13 DEF DiskInv

-----------------------------------------------------------------------------
(* The other steps, and the theorems.                                       *)

\* a call expects words of its buffer on the disk, and words of the disk in its buffer
LEMMA CallType ==
  ASSUME DiskInv, Call_blkio
  PROVE  DiskTypeOK'
<1>0. DiskTypeOK /\ pc = "idle" BY DEF DiskInv, Call_blkio
<1>1. PICK write \in BOOLEAN, B \in Blknos, n \in Blkcnts :
        /\ B + n <= DiskSize
        /\ bio' = [write |-> write, remain |-> n, blkno |-> B, ptr |-> 0]
        /\ pc' = IF n = 0 THEN "idle" ELSE "wait"
        /\ buf' = IF write THEN [i \in Buffer |-> 100 * done' + i] ELSE buf
        /\ want' = __am_disk_blkio(write, B, n)
  BY DEF Call_blkio
<1>2. /\ n \in Nat /\ B \in Nat /\ n * BlockWords <= MaxWords /\ MaxWords \in Nat /\ DiskSize \in Nat
      /\ BlockWords \in Nat \ {0} /\ n * BlockWords \in Int
  BY SizesFact, NextBlock, DiskAssumption DEF Block
<1>3. done' \in Nat /\ UNCHANGED <<disk, ata>> BY <1>0 DEF Call_blkio, DiskTypeOK
<1>4. buf' \in [Buffer -> Int]
  <2>1. \A i \in Buffer : 100 * done' + i \in Int BY <1>2, <1>3 DEF Buffer
  <2> QED BY <1>0, <1>1, <2>1 DEF DiskTypeOK
<1>5. want.disk \in Storage /\ want.buf \in [Buffer -> Int] BY <1>0 DEF DiskTypeOK
<1>6. want' \in [disk : Storage, buf : [Buffer -> Int]]
  <2>1. CASE write
    <3> DEFINE D == [b \in Block |-> IF b \in B .. B+n-1
                       THEN [i \in Word0 |-> buf'[(b - B) * BlockWords + i]] ELSE want.disk[b]]
    <3>1. want' = [buf |-> buf', disk |-> D] BY <1>1, <2>1 DEF __am_disk_blkio
    <3>2. ASSUME NEW b \in Block PROVE D[b] \in [Word0 -> Int]
      <4>1. CASE b \in B .. B+n-1
        <5>1. b - B \in 0 .. n-1 BY <1>2, <4>1
        <5>2. ASSUME NEW i \in Word0 PROVE buf'[(b - B) * BlockWords + i] \in Int
          <6> DEFINE d == b - B
          <6>1. d \in 0 .. n-1 BY <5>1
          <6> HIDE DEF d
          <6>2. d * BlockWords + i \in 0 .. n * BlockWords - 1 BY <1>2, <6>1, PlaceFact, Zenon
          <6>3. d * BlockWords + i \in Buffer BY <1>2, <6>2 DEF Buffer
          <6> QED BY <1>4, <6>3 DEF d
        <5> QED BY <4>1, <5>2
      <4>2. CASE b \notin B .. B+n-1 BY <1>5, <4>2 DEF Storage
      <4> QED BY <4>1, <4>2
    <3>3. D \in Storage BY <3>2 DEF Storage
    <3> HIDE DEF D
    <3> QED BY <1>4, <3>1, <3>3
  <2>2. CASE ~write
    <3> DEFINE M == [i \in Buffer |-> IF i < n * BlockWords
                       THEN want.disk[B + (i \div BlockWords)][i % BlockWords] ELSE want.buf[i]]
    <3>1. want' = [want EXCEPT !.buf = M] BY <1>1, <2>2 DEF __am_disk_blkio
    <3>2. ASSUME NEW i \in Buffer PROVE M[i] \in Int
      <4>1. CASE i < n * BlockWords
        <5>1. i \in Nat /\ i < BlockWords * n BY <1>2, <4>1 DEF Buffer
        <5>2. i \div BlockWords \in 0 .. n-1 BY <1>2, <5>1, DivBound, Zenon
        <5>3. i % BlockWords \in Word0 BY <1>2, <5>1, DivMod DEF Word0
        <5>4. B + (i \div BlockWords) \in Block BY <1>1, <1>2, <5>2 DEF Block
        <5>5. want.disk[B + (i \div BlockWords)][i % BlockWords] \in Int
          BY <1>5, <5>3, <5>4 DEF Storage
        <5> QED BY <4>1, <5>5
      <4>2. CASE ~(i < n * BlockWords) BY <1>5, <4>2
      <4> QED BY <4>1, <4>2
    <3>3. M \in [Buffer -> Int] BY <3>2
    <3> HIDE DEF M
    <3> QED BY <1>0, <3>1, <3>3 DEF DiskTypeOK
  <2> QED BY <2>1, <2>2
<1>7. bio' \in [write : BOOLEAN, remain : Nat, blkno : Nat, ptr : Nat] BY <1>1, <1>2
<1>8. pc' \in DiskPlaces BY <1>1 DEF DiskPlaces
<1> QED BY <1>0, <1>3, <1>4, <1>6, <1>7, <1>8 DEF DiskTypeOK

LEMMA CallStep ==
  ASSUME DiskInv, Call_blkio
  PROVE  DiskInv'
<1>0. DiskTypeOK /\ DiskTypeOK' /\ pc = "idle" /\ want.disk = disk /\ want.buf = buf /\ disk' = disk
  BY CallType DEF DiskInv, Call_blkio, Moves
<1>1. PICK write \in BOOLEAN, B \in Blknos, n \in Blkcnts :
        /\ B + n <= DiskSize
        /\ bio' = [write |-> write, remain |-> n, blkno |-> B, ptr |-> 0]
        /\ pc' = IF n = 0 THEN "idle" ELSE "wait"
        /\ buf' = IF write THEN [i \in Buffer |-> 100 * done' + i] ELSE buf
        /\ want' = __am_disk_blkio(write, B, n)
  BY DEF Call_blkio
<1>2. /\ n \in Nat /\ B \in Nat /\ n * BlockWords <= MaxWords /\ MaxWords \in Nat /\ DiskSize \in Nat
      /\ BlockWords \in Nat \ {0} /\ n * BlockWords \in Int
  BY SizesFact, NextBlock, DiskAssumption DEF Block
<1>3. /\ bio'.write = write /\ bio'.remain = n /\ bio'.blkno = B /\ bio'.ptr = 0 BY <1>1
<1>4. Offset' = 0 /\ Start' = 0 /\ Beyond' = n * BlockWords
  <2>1. Offset' = 0 BY <1>1 DEF Offset
  <2>2. Start' = 0 BY <1>3, <2>1 DEF Start
  <2> QED BY <1>2, <1>3, <2>1, <2>2 DEF Beyond
<1>5. InRange' BY <1>1, <1>2, <1>3, <1>4 DEF InRange
<1>6. ASSUME NEW b \in Block, NEW i \in Word0
      PROVE  /\ Left(b, i)' <=> b \in B .. B+n-1
             /\ Place(b, i)' = (b - B) * BlockWords + i
  <2>1. i \in Nat /\ b \in Int BY <1>2 DEF Word0, Block
  <2>2. Left(b, i)' <=> b \in B .. B+n-1 BY <1>3, <1>4, <2>1 DEF Left
  <2>3. Place(b, i)' = 0 + (b - B) * BlockWords + i BY <1>3, <1>4 DEF Place
  <2>4. b - B \in Int BY <1>2, <2>1
  <2>5. (b - B) * BlockWords \in Int BY <2>4, NextBlock
  <2> QED BY <2>1, <2>2, <2>3, <2>5
<1>7. ASSUME write PROVE Moves'
  <2>1. /\ want'.buf = buf'
        /\ want'.disk = [b \in Block |-> IF b \in B .. B+n-1
             THEN [i \in Word0 |-> buf'[(b - B) * BlockWords + i]] ELSE disk[b]]
    BY <1>0, <1>1, <1>7 DEF __am_disk_blkio
  <2>2. ASSUME NEW b \in Block, NEW i \in Word0
        PROVE  want'.disk[b][i] = IF Left(b, i)' THEN buf'[Place(b, i)'] ELSE disk'[b][i]
    BY <1>0, <1>6, <2>1
  <2>3. StillMoves' BY <1>3, <1>7, <2>1, <2>2 DEF StillMoves
  <2>4. ASSUME pc' = "idle" PROVE want'.disk = disk' /\ want'.buf = buf'
    <3>1. n = 0 BY <1>1, <2>4
    <3>2. \A b \in Block, i \in Word0 : ~Left(b, i)' BY <1>2, <1>6, <3>1
    <3>3. \A b \in Block, i \in Word0 : want'.disk[b][i] = disk'[b][i] BY <2>2, <3>2
    <3>4. want'.disk \in Storage /\ disk' \in Storage BY <1>0 DEF DiskTypeOK
    <3> QED BY <2>1, <3>3, <3>4, SameStorage
  <2> QED BY <2>3, <2>4 DEF Moves
<1>8. ASSUME ~write PROVE Moves'
  <2>0. buf' = buf BY <1>1, <1>8
  <2>1. /\ want'.disk = disk
        /\ want'.buf = [i \in Buffer |-> IF i < n * BlockWords
             THEN disk[B + (i \div BlockWords)][i % BlockWords] ELSE buf[i]]
    <3> DEFINE M == [i \in Buffer |-> IF i < n * BlockWords
                       THEN want.disk[B + (i \div BlockWords)][i % BlockWords] ELSE want.buf[i]]
    <3>1. want' = [want EXCEPT !.buf = M] BY <1>1, <1>8 DEF __am_disk_blkio
    <3>2. M = [i \in Buffer |-> IF i < n * BlockWords
             THEN disk[B + (i \div BlockWords)][i % BlockWords] ELSE buf[i]] BY <1>0
    <3> HIDE DEF M
    <3>3. want'.disk = want.disk /\ want'.buf = M BY <1>0, <3>1 DEF DiskTypeOK
    <3> QED BY <1>0, <3>2, <3>3
  <2>2. ASSUME NEW b \in Block, NEW i \in Word0, Left(b, i)'
        PROVE  want'.buf[Place(b, i)'] = disk'[b][i]
    <3>1. b \in B .. B+n-1 BY <1>6, <2>2
    <3> DEFINE d == b - B
               k == d * BlockWords + i
    <3>2. d \in 0 .. n-1 /\ B + d = b BY <1>2, <3>1
    <3> HIDE DEF d
    <3>3. k \in 0 .. n * BlockWords - 1 BY <1>2, <3>2, PlaceFact, Zenon
    <3>4. k % BlockWords = i /\ k \div BlockWords = d
      <4>1. i \in 0 .. BlockWords - 1 BY DEF Word0
      <4>2. (BlockWords * d + i) % BlockWords = i /\ (BlockWords * d + i) \div BlockWords = d
        <5>1. d \in Int BY <1>2, <3>2
        <5> HIDE DEF k
        <5> QED BY <1>2, <4>1, <5>1, ModUnique, Zenon
      <4>3. BlockWords * d = d * BlockWords BY <1>2, <3>2, Z3
      <4> QED BY <4>2, <4>3
    <3>5. Place(b, i)' = k BY <1>6 DEF d
    <3> HIDE DEF k
    <3>6. k \in Buffer /\ k < n * BlockWords BY <1>2, <3>3 DEF Buffer
    <3>7. want'.buf[k] = disk[B + (k \div BlockWords)][k % BlockWords] BY <2>1, <3>6
    <3> QED BY <1>0, <3>2, <3>4, <3>5, <3>7
  <2>3. ASSUME NEW k \in Buffer, k < bio'.ptr \/ k >= Beyond'
        PROVE  want'.buf[k] = buf'[k]
    <3>1. k \in Nat BY <1>2 DEF Buffer
    <3>2. ~(k < n * BlockWords) BY <1>2, <1>3, <1>4, <2>3, <3>1
    <3> QED BY <2>0, <2>1, <3>2
  <2>4. StillMoves' BY <1>0, <1>3, <1>8, <2>1, <2>2, <2>3 DEF StillMoves
  <2>5. ASSUME pc' = "idle" PROVE want'.disk = disk' /\ want'.buf = buf'
    <3>1. n = 0 BY <1>1, <2>5
    <3>2. 0 * BlockWords = 0 BY <1>2
    <3>3. \A k \in Buffer : k >= Beyond' BY <1>2, <1>4, <3>1, <3>2 DEF Buffer
    <3>4. \A k \in Buffer : want'.buf[k] = buf'[k] BY <2>3, <3>3
    <3>5. want'.buf \in [Buffer -> Int] /\ buf' \in [Buffer -> Int] BY <1>0 DEF DiskTypeOK
    <3> QED BY <1>0, <2>1, <3>4, <3>5
  <2> QED BY <2>4, <2>5 DEF Moves
<1>9. Listens' /\ Told' BY <1>1 DEF Listens, Told, Past
<1> QED BY <1>0, <1>5, <1>7, <1>8, <1>9 DEF DiskInv

LEMMA DriveStep ==
  ASSUME DiskInv, DriveReady
  PROVE  DiskInv'
<1>1. /\ ata' = [ata EXCEPT !.busy = FALSE] /\ UNCHANGED <<disk, buf, bio, pc, done, want>>
      /\ DiskTypeOK
  BY DEF DriveReady, DiskInv
<1>2. ata'.at = ata.at /\ ata'.count = ata.count /\ ata'.lba = ata.lba /\ ata'.cmd = ata.cmd /\ ~ata'.busy
  BY <1>1 DEF DiskTypeOK
<1>3. DiskTypeOK' BY <1>1, Zenon DEF DiskTypeOK
<1>4. Offset' = Offset BY <1>1, <1>2 DEF Offset
<1>5. InRange' /\ Moves'
  <2>1. CASE pc = "idle" BY <1>1, <2>1 DEF DiskInv, InRange, Moves
  <2>2. CASE pc # "idle" BY <1>1, <1>4, <2>2, StillThere DEF DiskInv
  <2> QED BY <2>1, <2>2
<1>6. Listens' BY <1>2 DEF Listens
<1>7. Told'
  <2>1. \A k \in 0..3 : Digit(bio.blkno, k)' = Digit(bio.blkno, k) /\ Past(k)' = Past(k) BY <1>1
  <2> QED BY <1>1, <1>2, <2>1 DEF DiskInv, Told, Past
<1> QED BY <1>3, <1>5, <1>6, <1>7 DEF DiskInv

LEMMA DiskInvInit == ASSUME DiskInit PROVE DiskInv
<1>1. disk \in Storage
  <2>1. ASSUME NEW b \in Block, NEW i \in Word0 PROVE -1 - (b * BlockWords + i) \in Int
    <3>1. b \in Int /\ i \in Int BY SizesFact DEF Block, Word0
    <3>2. b * BlockWords \in Int BY <3>1, NextBlock
    <3> QED BY <3>1, <3>2
  <2> QED BY <2>1 DEF DiskInit, Storage
<1>2. buf \in [Buffer -> Int] /\ want = [disk |-> disk, buf |-> buf] BY DEF DiskInit
<1>3. 0 \in Word0 BY SizesFact DEF Word0
<1>4. DiskTypeOK BY <1>1, <1>2, <1>3 DEF DiskInit, DiskTypeOK, DiskPlaces
<1>5. InRange /\ Moves BY <1>2 DEF DiskInit, InRange, Moves
<1>6. Listens /\ Told BY DEF DiskInit, Listens, Told, Past
<1> QED BY <1>4, <1>5, <1>6 DEF DiskInv

LEMMA DiskInvStep == ASSUME DiskInv, [DiskNext]_dvars PROVE DiskInv'
<1>1. CASE Call_blkio BY <1>1, CallStep
<1>2. CASE disk_blkio
  <2>1. CASE pc # "data" BY <1>2, <2>1, RegisterStep
  <2>2. CASE pc = "data"
    <3>1. Data
      <4>1. ~wait_disk BY <2>2 DEF wait_disk
      <4>2. \A k \in 0..3 : pc # <<"lba0", "lba1", "lba2", "lba3">>[k+1]
        <5>1. \A k \in 0..3 : k = 0 \/ k = 1 \/ k = 2 \/ k = 3 OBVIOUS
        <5> QED BY <2>2, <5>1
      <4> QED BY <1>2, <2>2, <4>1, <4>2 DEF disk_blkio
    <3> QED BY <3>1, DataStep
  <2> QED BY <2>1, <2>2
<1>3. CASE DriveReady BY <1>3, DriveStep
<1>4. CASE UNCHANGED dvars
  <2>1. UNCHANGED <<disk, ata, buf, bio, pc, done, want>> BY <1>4 DEF dvars
  <2>2. DiskTypeOK' BY <2>1 DEF DiskInv, DiskTypeOK
  <2>3. Offset' = Offset BY <2>1 DEF Offset
  <2>4. InRange' /\ Moves'
    <3>1. CASE pc = "idle" BY <2>1, <3>1 DEF DiskInv, InRange, Moves
    <3>2. CASE pc # "idle" BY <2>1, <2>3, <3>2, StillThere DEF DiskInv
    <3> QED BY <3>1, <3>2
  <2>5. Listens' BY <2>1 DEF DiskInv, Listens
  <2>6. Told'
    <3>1. \A k \in 0..3 : Digit(bio.blkno, k)' = Digit(bio.blkno, k) /\ Past(k)' = Past(k) BY <2>1
    <3> QED BY <2>1, <3>1 DEF DiskInv, Told, Past
  <2> QED BY <2>2, <2>4, <2>5, <2>6 DEF DiskInv
<1> QED BY <1>1, <1>2, <1>3, <1>4 DEF DiskNext

(* The invariant of the words a call has still to move is inductive, for a  *)
(* disk and blocks of any size and calls for any blocks that exist.         *)
THEOREM DiskInvariant == DiskSpec => []DiskInv
<1>1. DiskInit => DiskInv BY DiskInvInit
<1>2. DiskInv /\ [DiskNext]_dvars => DiskInv' BY DiskInvStep
<1> QED BY <1>1, <1>2, PTL DEF DiskSpec

(* disk_blkio moves the blocks it names and no other, as the file of native *)
(* would, however long the drive takes, and asks the drive for them.        *)
THEOREM DiskMovesBlocks == DiskSpec => []BlocksMoved
<1>1. DiskInv => BlocksMoved
  <2> SUFFICES ASSUME DiskInv PROVE BlocksMoved OBVIOUS
  <2>1. pc = "idle" => disk = want.disk /\ buf = want.buf BY DEF DiskInv, Moves
  <2>2. pc = "data" => /\ Lba(ata.lba) = bio.blkno /\ ata.count = 1
                       /\ ata.cmd = (IF bio.write THEN "write" ELSE "read") BY DataBlock
  <2> QED BY <2>1, <2>2 DEF BlocksMoved
<1> QED BY <1>1, DiskInvariant, PTL

-----------------------------------------------------------------------------
(* The registers of the I/O extension. *)

\* what Devices does while it looks at the registers
IoeSpec == IoeInit /\ [][IoeNext]_ivars

\* what there is in started once the devices are started
AllOf(p) == CASE p = "native" -> native_started [] p = "qemu" -> qemu_started [] OTHER -> nemu_started

IoeTypeOK ==
  /\ ioe_port \in Platforms /\ diskimg \in BOOLEAN /\ careful \in BOOLEAN
  /\ lut \in [AM_DEVREG -> {"handler", "NULL", "fail"}]

\* closing the holes gives no register a handler and takes none away
TableKept == \A r \in AM_DEVREG : lut[r] = "handler" <=> r \in Table(ioe_port)

\* what the program knows of the devices is what the handlers say, and it knows it from a handler
Knows == \A c \in DOMAIN config :
           /\ c \in Table(ioe_port) /\ \E d \in Devs : c = ConfigOf[d]
           /\ config[c] = Config(ioe_port, c)

StartedWhole == started = {} \/ started = AllOf(ioe_port)

IoeInv == IoeTypeOK /\ TableKept /\ Knows /\ StartedWhole /\ Served

LEMMA Registers ==
  AM_DEVREG = {"UART_CONFIG", "UART_RX", "TIMER_CONFIG", "TIMER_RTC", "TIMER_UPTIME", "INPUT_CONFIG",
               "INPUT_KEYBRD", "GPU_CONFIG", "GPU_STATUS", "AUDIO_CONFIG", "AUDIO_STATUS", "DISK_CONFIG",
               "DISK_STATUS", "NET_CONFIG", "NET_STATUS", "UART_TX", "GPU_FBDRAW", "GPU_MEMCPY",
               "GPU_RENDER", "AUDIO_CTRL", "AUDIO_PLAY", "DISK_BLKIO", "NET_TX", "NET_RX"}
  BY DEF AM_DEVREG, Readable, Writable

LEMMA DevFact ==
  ASSUME NEW reg \in AM_DEVREG
  PROVE  /\ DevOf(reg) \in Devs
         /\ DevOf(reg) = "UART" => reg \in {"UART_CONFIG", "UART_TX", "UART_RX"}
         /\ DevOf(reg) = "AUDIO" => reg \in {"AUDIO_CONFIG", "AUDIO_CTRL", "AUDIO_STATUS", "AUDIO_PLAY"}
         /\ DevOf(reg) = "DISK" => reg \in {"DISK_CONFIG", "DISK_STATUS", "DISK_BLKIO"}
         /\ DevOf(reg) = "NET" => reg \in {"NET_CONFIG", "NET_STATUS", "NET_TX", "NET_RX"}
         /\ DevOf(reg) = "INPUT" => reg \in {"INPUT_CONFIG", "INPUT_KEYBRD"}
         /\ DevOf(reg) = "TIMER" => reg \in {"TIMER_CONFIG", "TIMER_RTC", "TIMER_UPTIME"}
         /\ DevOf(reg) = "GPU" => reg \in {"GPU_CONFIG", "GPU_STATUS", "GPU_FBDRAW", "GPU_MEMCPY", "GPU_RENDER"}
         /\ reg \in {"GPU_MEMCPY", "GPU_RENDER"} => DevOf(reg) = "GPU"
  BY Registers DEF DevOf, Devs, ConfigOf

LEMMA ConfigNames ==
  /\ Devs = {"UART", "TIMER", "INPUT", "GPU", "AUDIO", "DISK", "NET"}
  /\ ConfigOf["UART"] = "UART_CONFIG" /\ ConfigOf["TIMER"] = "TIMER_CONFIG"
  /\ ConfigOf["INPUT"] = "INPUT_CONFIG" /\ ConfigOf["GPU"] = "GPU_CONFIG"
  /\ ConfigOf["AUDIO"] = "AUDIO_CONFIG" /\ ConfigOf["DISK"] = "DISK_CONFIG"
  /\ ConfigOf["NET"] = "NET_CONFIG"
  BY DEF Devs, ConfigOf

LEMMA PresentFact ==
  ASSUME NEW flag \in BOOLEAN, NEW more
  PROVE  /\ DOMAIN Present(flag, more) = {"present"} \cup more
         /\ Present(flag, more).present <=> flag
         /\ Present(flag, more).present \in BOOLEAN
         /\ "has_accel" \in more => ~Present(flag, more).has_accel
  BY Zenon DEF Present

LEMMA PresentOnly ==
  ASSUME NEW flag \in BOOLEAN
  PROVE  /\ DOMAIN Present(flag, {}) = {"present"}
         /\ Present(flag, {}).present <=> flag
         /\ Present(flag, {}).present \in BOOLEAN
  BY PresentFact

LEMMA GpuFact ==
  /\ DOMAIN Gpu = Readable["GPU_CONFIG"]
  /\ Gpu.present \in BOOLEAN /\ Gpu.present /\ ~Gpu.has_accel /\ "present" \in DOMAIN Gpu
<1> DEFINE more == Readable["GPU_CONFIG"]
<1>1. "present" \in more /\ "has_accel" \in more BY DEF Readable
<1> HIDE DEF more
<1>2. DOMAIN Present(TRUE, more) = {"present"} \cup more /\ Present(TRUE, more).present
      /\ Present(TRUE, more).present \in BOOLEAN /\ ~Present(TRUE, more).has_accel
  BY <1>1, PresentFact, Zenon
<1> QED BY <1>1, <1>2, Zenon DEF Gpu, more

LEMMA RtcFact ==
  /\ DOMAIN WithRtc = Readable["TIMER_CONFIG"] /\ "present" \in DOMAIN WithRtc
  /\ WithRtc.present /\ WithRtc.present \in BOOLEAN
<1>1. WithRtc.present = TRUE BY DEF WithRtc
<1>2. DOMAIN WithRtc = {"present", "has_rtc"} BY DEF WithRtc
<1>3. Readable["TIMER_CONFIG"] = {"present", "has_rtc"} BY DEF Readable
<1> QED BY <1>1, <1>2, <1>3, Zenon

LEMMA BigTables ==
  /\ \A r \in AM_DEVREG : r \in Table("native") <=>
       r \notin {"GPU_MEMCPY", "GPU_RENDER", "NET_STATUS", "NET_TX", "NET_RX"}
  /\ \A r \in AM_DEVREG : r \in Table("nemu") <=>
       r \notin {"GPU_MEMCPY", "GPU_RENDER", "NET_STATUS", "NET_TX", "NET_RX", "UART_TX", "UART_RX"}
  /\ \A r \in AM_DEVREG : r \in Table("qemu") <=>
       r \notin {"AUDIO_CTRL", "AUDIO_STATUS", "AUDIO_PLAY", "NET_STATUS", "NET_TX", "NET_RX"}
  BY DEF Table, Tables, native_lut, nemu_lut, qemu_lut

LEMMA SmallTables ==
  /\ Small = {"npc", "ysyxsoc", "spike", "nutshell"}
  /\ \A p \in Small : Table(p) \subseteq npc_lut
  /\ \A p \in Small : {"TIMER_CONFIG", "TIMER_RTC", "TIMER_UPTIME"} \subseteq Table(p)
  /\ \A p \in Small : "INPUT_CONFIG" \in Table(p) => "INPUT_KEYBRD" \in Table(p)
<1>1. Small = {"npc", "ysyxsoc", "spike", "nutshell"} BY DEF Small, Platforms
<1>2. /\ Table("npc") = npc_lut /\ Table("ysyxsoc") = npc_lut
      /\ Table("spike") = spike_lut /\ Table("nutshell") = spike_lut
  BY DEF Table, Tables, ysyxsoc_lut, nutshell_lut
<1> QED BY <1>1, <1>2 DEF npc_lut, spike_lut

\* what the CONFIG registers say
LEMMA NativeSays ==
  ASSUME diskimg \in BOOLEAN, NEW d \in Devs
  PROVE  LET c == Config("native", ConfigOf[d])
         IN /\ DOMAIN c = Readable[ConfigOf[d]]
            /\ c.present \in BOOLEAN
            /\ c.present => d # "NET"
            /\ d = "GPU" => ~c.has_accel
<1>1. Config("native", ConfigOf[d]) = native_config(ConfigOf[d]) BY DEF Config
<1>2. CASE d \in {"UART", "INPUT", "NET"}
  <2> DEFINE flag == ConfigOf[d] # "NET_CONFIG"
  <2>1. native_config(ConfigOf[d]) = Present(flag, {})
    BY <1>2, ConfigNames DEF native_config
  <2>2. Readable[ConfigOf[d]] = {"present"} BY <1>2, ConfigNames DEF Readable
  <2>3. flag \in BOOLEAN OBVIOUS
  <2>4. flag <=> d # "NET" BY <1>2, ConfigNames
  <2> HIDE DEF flag
  <2> QED BY <1>1, <1>2, <2>1, <2>2, <2>3, <2>4, PresentOnly
<1>3. CASE d = "TIMER"
  <2>1. native_config(ConfigOf[d]) = WithRtc /\ ConfigOf[d] = "TIMER_CONFIG" BY <1>3, ConfigNames DEF native_config
  <2> QED BY <1>1, <1>3, <2>1, RtcFact, Zenon
<1>4. CASE d = "GPU"
  <2>1. native_config(ConfigOf[d]) = Gpu /\ ConfigOf[d] = "GPU_CONFIG"
    BY <1>4, ConfigNames DEF native_config, native_gpu_config
  <2> QED BY <1>1, <1>4, <2>1, GpuFact, Zenon
<1>5. CASE d = "DISK"
  <2>1. native_config(ConfigOf[d]) = Present(diskimg, {"blksz", "blkcnt"})
    BY <1>5, ConfigNames DEF native_config, native_disk_config
  <2>2. Readable[ConfigOf[d]] = {"present"} \cup {"blksz", "blkcnt"}
    BY <1>5, ConfigNames DEF Readable
  <2> QED BY <1>1, <1>5, <2>1, <2>2, PresentFact
<1>6. CASE d = "AUDIO"
  <2>1. native_config(ConfigOf[d]) = Present(TRUE, {"bufsize"})
    BY <1>6, ConfigNames DEF native_config, native_audio_config
  <2>2. Readable[ConfigOf[d]] = {"present"} \cup {"bufsize"} BY <1>6, ConfigNames DEF Readable
  <2> QED BY <1>1, <1>6, <2>1, <2>2, PresentFact, ZenonT(60)
<1> QED BY <1>2, <1>3, <1>4, <1>5, <1>6, ConfigNames

LEMMA NemuSays ==
  ASSUME NEW d \in Devs
  PROVE  LET c == Config("nemu", ConfigOf[d])
         IN /\ d # "DISK" => DOMAIN c = Readable[ConfigOf[d]]
            /\ "present" \in DOMAIN c
            /\ c.present \in BOOLEAN
            /\ c.present => d \notin {"UART", "DISK", "NET"}
            /\ d = "GPU" => ~c.has_accel
<1>1. Config("nemu", ConfigOf[d]) = nemu_config(ConfigOf[d]) BY DEF Config
<1>2. CASE d \in {"UART", "INPUT", "DISK", "NET"}
  <2> DEFINE flag == ConfigOf[d] = "INPUT_CONFIG"
  <2>1. nemu_config(ConfigOf[d]) = Present(flag, {})
    BY <1>2, ConfigNames, Zenon DEF nemu_config
  <2>2. /\ d # "DISK" => Readable[ConfigOf[d]] = {"present"}
        /\ "present" \in Readable[ConfigOf[d]]
    BY <1>2, ConfigNames DEF Readable
  <2>3. flag \in BOOLEAN OBVIOUS
  <2>4. flag <=> d = "INPUT" BY <1>2, ConfigNames
  <2> HIDE DEF flag
  <2> QED BY <1>1, <1>2, <2>1, <2>2, <2>3, <2>4, PresentOnly
<1>3. CASE d = "TIMER"
  <2>1. nemu_config(ConfigOf[d]) = WithRtc /\ ConfigOf[d] = "TIMER_CONFIG" BY <1>3, ConfigNames DEF nemu_config
  <2> QED BY <1>1, <1>3, <2>1, RtcFact, Zenon
<1>4. CASE d = "GPU"
  <2>1. nemu_config(ConfigOf[d]) = Gpu /\ ConfigOf[d] = "GPU_CONFIG"
    BY <1>4, ConfigNames DEF nemu_config
  <2> QED BY <1>1, <1>4, <2>1, GpuFact, Zenon
<1>5. CASE d = "AUDIO"
  <2>1. nemu_config(ConfigOf[d]) = Present(TRUE, {"bufsize"}) BY <1>5, ConfigNames DEF nemu_config
  <2>2. Readable[ConfigOf[d]] = {"present"} \cup {"bufsize"} BY <1>5, ConfigNames DEF Readable
  <2> QED BY <1>1, <1>5, <2>1, <2>2, PresentFact, ZenonT(60)
<1> QED BY <1>2, <1>3, <1>4, <1>5, ConfigNames

LEMMA QemuSays ==
  ASSUME NEW d \in Devs
  PROVE  LET c == Config("qemu", ConfigOf[d])
         IN /\ d # "AUDIO" => DOMAIN c = Readable[ConfigOf[d]]
            /\ "present" \in DOMAIN c
            /\ c.present \in BOOLEAN
            /\ c.present => d \notin {"AUDIO", "NET"}
            /\ d = "GPU" => ~c.has_accel
<1>1. Config("qemu", ConfigOf[d]) = qemu_config(ConfigOf[d]) BY DEF Config
<1>2. CASE d \in {"UART", "INPUT", "AUDIO", "NET"}
  <2> DEFINE flag == ConfigOf[d] \notin {"AUDIO_CONFIG", "NET_CONFIG"}
  <2>1. qemu_config(ConfigOf[d]) = Present(flag, {})
    BY <1>2, ConfigNames, Zenon DEF qemu_config
  <2>2. d # "AUDIO" => Readable[ConfigOf[d]] = {"present"} BY <1>2, ConfigNames DEF Readable
  <2>3. flag \in BOOLEAN OBVIOUS
  <2>4. flag <=> d \notin {"AUDIO", "NET"} BY <1>2, ConfigNames
  <2> HIDE DEF flag
  <2> QED BY <1>1, <1>2, <2>1, <2>2, <2>3, <2>4, PresentOnly
<1>3. CASE d = "TIMER"
  <2>1. qemu_config(ConfigOf[d]) = WithRtc /\ ConfigOf[d] = "TIMER_CONFIG" BY <1>3, ConfigNames DEF qemu_config
  <2> QED BY <1>1, <1>3, <2>1, RtcFact, Zenon
<1>4. CASE d = "GPU"
  <2>1. qemu_config(ConfigOf[d]) = Gpu /\ ConfigOf[d] = "GPU_CONFIG"
    BY <1>4, ConfigNames DEF qemu_config
  <2> QED BY <1>1, <1>4, <2>1, GpuFact, Zenon
<1>5. CASE d = "DISK"
  <2>1. qemu_config(ConfigOf[d]) = Present(TRUE, {"blksz", "blkcnt"})
    BY <1>5, ConfigNames DEF qemu_config
  <2>2. Readable[ConfigOf[d]] = {"present"} \cup {"blksz", "blkcnt"}
    BY <1>5, ConfigNames DEF Readable
  <2> QED BY <1>1, <1>5, <2>1, <2>2, PresentFact, ZenonT(60)
<1> QED BY <1>2, <1>3, <1>4, <1>5, ConfigNames

LEMMA SmallSays ==
  ASSUME NEW p \in Small, NEW d \in Devs, ConfigOf[d] \in Table(p)
  PROVE  LET c == Config(p, ConfigOf[d])
         IN /\ DOMAIN c = Readable[ConfigOf[d]]
            /\ c.present \in BOOLEAN
            /\ c.present => d \in {"TIMER", "INPUT"}
<1>1. Config(p, ConfigOf[d]) = npc_config(ConfigOf[d]) BY SmallTables DEF Config
<1>2. d \in {"TIMER", "INPUT", "UART"} BY SmallTables, ConfigNames DEF npc_lut
<1>3. CASE d = "TIMER"
  <2>1. npc_config(ConfigOf[d]) = WithRtc /\ ConfigOf[d] = "TIMER_CONFIG" BY <1>3, ConfigNames DEF npc_config
  <2> QED BY <1>1, <1>3, <2>1, RtcFact
<1>4. CASE d \in {"INPUT", "UART"}
  <2> DEFINE flag == ConfigOf[d] = "INPUT_CONFIG"
  <2>1. npc_config(ConfigOf[d]) = Present(flag, {})
    BY <1>4, ConfigNames DEF npc_config
  <2>2. Readable[ConfigOf[d]] = {"present"} BY <1>4, ConfigNames DEF Readable
  <2>3. flag \in BOOLEAN OBVIOUS
  <2>4. flag <=> d = "INPUT" BY <1>4, ConfigNames
  <2> HIDE DEF flag
  <2> QED BY <1>1, <1>4, <2>1, <2>2, <2>3, <2>4, PresentOnly
<1> QED BY <1>2, <1>3, <1>4

LEMMA ConfigOwn ==
  ASSUME NEW d \in Devs
  PROVE  ConfigOf[d] \in AM_DEVREG /\ DevOf(ConfigOf[d]) = d
  BY ConfigNames, Registers DEF DevOf

\* a device that its CONFIG register calls present has handlers, but for the accelerator
LEMMA Tells ==
  ASSUME ioe_port \in Platforms, diskimg \in BOOLEAN, NEW d \in Devs, ConfigOf[d] \in Table(ioe_port)
  PROVE  LET c == Config(ioe_port, ConfigOf[d])
         IN /\ DOMAIN c = Readable[ConfigOf[d]] \/ ("present" \in DOMAIN c /\ ~c.present)
            /\ d = "GPU" => ~c.has_accel
            /\ c.present => /\ ioe_port = "nemu" => d # "DISK"
                            /\ \A reg \in AM_DEVREG \ {"GPU_MEMCPY", "GPU_RENDER"} :
                                 DevOf(reg) = d => reg \in Table(ioe_port)
<1> DEFINE c == Config(ioe_port, ConfigOf[d])
<1>1. CASE ioe_port = "native"
  <2>1. /\ DOMAIN c = Readable[ConfigOf[d]] /\ c.present \in BOOLEAN
        /\ c.present => d # "NET"
        /\ d = "GPU" => ~c.has_accel
    BY <1>1, NativeSays
  <2>2. ASSUME c.present, NEW reg \in AM_DEVREG \ {"GPU_MEMCPY", "GPU_RENDER"}, DevOf(reg) = d
        PROVE  reg \in Table(ioe_port)
    <3>1. d # "NET" BY <2>1, <2>2
    <3>2. reg \notin {"NET_STATUS", "NET_TX", "NET_RX"} BY <2>2, <3>1 DEF DevOf
    <3> QED BY <1>1, <3>2, BigTables
  <2> QED BY <1>1, <2>1, <2>2
<1>2. CASE ioe_port = "nemu"
  <2>1. /\ d # "DISK" => DOMAIN c = Readable[ConfigOf[d]]
        /\ "present" \in DOMAIN c
        /\ c.present \in BOOLEAN
        /\ c.present => d \notin {"UART", "DISK", "NET"}
        /\ d = "GPU" => ~c.has_accel
    BY <1>2, NemuSays
  <2>2. ASSUME c.present, NEW reg \in AM_DEVREG \ {"GPU_MEMCPY", "GPU_RENDER"}, DevOf(reg) = d
        PROVE  reg \in Table(ioe_port)
    <3>1. d \notin {"UART", "NET"} BY <2>1, <2>2
    <3>2. reg \notin {"NET_STATUS", "NET_TX", "NET_RX", "UART_TX", "UART_RX"} BY <2>2, <3>1 DEF DevOf
    <3> QED BY <1>2, <3>2, BigTables
  <2> QED BY <2>1, <2>2
<1>3. CASE ioe_port = "qemu"
  <2>1. /\ d # "AUDIO" => DOMAIN c = Readable[ConfigOf[d]]
        /\ "present" \in DOMAIN c
        /\ c.present \in BOOLEAN
        /\ c.present => d \notin {"AUDIO", "NET"}
        /\ d = "GPU" => ~c.has_accel
    BY <1>3, QemuSays
  <2>2. ASSUME c.present, NEW reg \in AM_DEVREG \ {"GPU_MEMCPY", "GPU_RENDER"}, DevOf(reg) = d
        PROVE  reg \in Table(ioe_port)
    <3>1. d \notin {"AUDIO", "NET"} BY <2>1, <2>2
    <3>2. reg \notin {"AUDIO_CTRL", "AUDIO_STATUS", "AUDIO_PLAY", "NET_STATUS", "NET_TX", "NET_RX"}
      BY <2>2, <3>1 DEF DevOf
    <3> QED BY <1>3, <3>2, BigTables
  <2> QED BY <1>3, <2>1, <2>2
<1>4. CASE ioe_port \in Small
  <2>1. /\ DOMAIN c = Readable[ConfigOf[d]]
        /\ c.present \in BOOLEAN
        /\ c.present => d \in {"TIMER", "INPUT"}
    BY <1>4, SmallSays
  <2>2. d # "GPU" BY <1>4, SmallTables, ConfigNames DEF npc_lut
  <2>3. ASSUME c.present, NEW reg \in AM_DEVREG \ {"GPU_MEMCPY", "GPU_RENDER"}, DevOf(reg) = d
        PROVE  reg \in Table(ioe_port)
    <3>1. d \in {"TIMER", "INPUT"} BY <2>1, <2>3
    <3>2. CASE d = "TIMER" BY <1>4, <2>3, <3>2, DevFact, SmallTables
    <3>3. CASE d = "INPUT" BY <1>4, <2>3, <3>3, DevFact, ConfigNames, SmallTables
    <3> QED BY <3>1, <3>2, <3>3
  <2>4. ioe_port # "nemu" BY <1>4 DEF Small
  <2> QED BY <2>1, <2>2, <2>3, <2>4
<1> QED BY <1>1, <1>2, <1>3, <1>4 DEF Small

\* whoever keeps the rules finds a handler, which fills what it should
LEMMA PromiseKept ==
  ASSUME IoeTypeOK, Knows, NEW reg \in AM_DEVREG, Promised(reg)
  PROVE  /\ reg \in Table(ioe_port)
         /\ reg # ConfigOf[DevOf(reg)] => Fills(ioe_port, reg) = Readable[reg]
<1> DEFINE d == DevOf(reg)
           c == ConfigOf[d]
<1>0. d \in Devs /\ ioe_port \in Platforms /\ diskimg \in BOOLEAN BY DevFact DEF IoeTypeOK
<1>1. CASE reg = c
  <2>1. CASE ioe_port \in Small BY <1>1, <2>1 DEF Promised
  <2>2. CASE ioe_port \notin Small
    <3>1. ioe_port \in {"native", "nemu", "qemu"} BY <1>0, <2>2 DEF Small
    <3>2. c \in {"UART_CONFIG", "TIMER_CONFIG", "INPUT_CONFIG", "GPU_CONFIG", "AUDIO_CONFIG",
                 "DISK_CONFIG", "NET_CONFIG"} BY <1>0, ConfigNames
    <3> QED BY <1>1, <3>1, <3>2, BigTables
  <2> QED BY <1>1, <2>1, <2>2
<1>2. CASE reg # c
  <2>1. /\ c \in DOMAIN config /\ config[c].present
        /\ reg \in {"GPU_MEMCPY", "GPU_RENDER"} => config[c].has_accel
    BY <1>2 DEF Promised
  <2>2. c \in Table(ioe_port) /\ config[c] = Config(ioe_port, c) BY <2>1 DEF Knows
  <2>3. /\ d = "GPU" => ~config[c].has_accel
        /\ ioe_port = "nemu" => d # "DISK"
        /\ \A r \in AM_DEVREG \ {"GPU_MEMCPY", "GPU_RENDER"} : DevOf(r) = d => r \in Table(ioe_port)
    BY <1>0, <2>1, <2>2, Tells
  <2>4. reg \notin {"GPU_MEMCPY", "GPU_RENDER"} BY <2>1, <2>3, DevFact
  <2>5. reg \in Table(ioe_port) BY <2>3, <2>4
  <2>6. ~(ioe_port = "nemu" /\ reg = "DISK_STATUS") BY <2>3 DEF DevOf
  <2>7. ~\E e \in Devs : reg = ConfigOf[e] BY <1>2, ConfigOwn
  <2> QED BY <2>5, <2>6, <2>7 DEF Fills
<1> QED BY <1>1, <1>2

LEMMA ClosedFact ==
  ASSUME IoeTypeOK
  PROVE  /\ closed \in [AM_DEVREG -> {"handler", "NULL", "fail"}]
         /\ \A r \in AM_DEVREG : closed[r] = "handler" <=> lut[r] = "handler"
  BY DEF IoeTypeOK, closed

LEMMA StartKeeps ==
  ASSUME IoeInv, NEW cpu, ioe_init(cpu)
  PROVE  IoeInv'
<1>1. UNCHANGED <<ioe_port, diskimg, early, config, answer>> /\ fate = "runs"
      /\ (careful' <=> careful /\ cpu = 0 /\ started = {}) /\ careful' \in BOOLEAN
  BY Zenon DEF ioe_init, IoeInv, IoeTypeOK
<1>2. ioe_port \in Platforms /\ IoeTypeOK BY DEF IoeInv, IoeTypeOK
<1>3. /\ lut' = lut \/ lut' = closed
      /\ started' = started \/ started' = AllOf(ioe_port)
      /\ cpu = 0 /\ started = {} => fate' = "runs"
  <2>1. CASE native_ioe_init(cpu) BY <2>1 DEF native_ioe_init
  <2>2. CASE qemu_ioe_init(cpu) BY <1>1, <2>2 DEF qemu_ioe_init, AllOf
  <2>3. CASE nemu_ioe_init BY <1>1, <2>3 DEF nemu_ioe_init, AllOf
  <2>4. CASE nutshell_ioe_init BY <1>1, <2>4 DEF nutshell_ioe_init, AllOf
  <2> QED BY <2>1, <2>2, <2>3, <2>4 DEF ioe_init
<1>4. IoeTypeOK' BY <1>1, <1>2, <1>3, ClosedFact DEF IoeTypeOK
<1>5. TableKept'
  <2>1. \A r \in AM_DEVREG : lut'[r] = "handler" <=> lut[r] = "handler" BY <1>2, <1>3, ClosedFact
  <2>2. Table(ioe_port)' = Table(ioe_port) BY <1>1
  <2> QED BY <2>1, <2>2 DEF IoeInv, TableKept
<1>6. Knows'
  <2>1. \A c : Config(ioe_port, c)' = Config(ioe_port, c)
    BY <1>1 DEF Config, native_config, native_disk_config, native_audio_config, native_gpu_config,
                nemu_config, qemu_config, npc_config
  <2> QED BY <1>1, <2>1 DEF IoeInv, Knows, Table
<1>7. StartedWhole' BY <1>1, <1>3 DEF IoeInv, StartedWhole, AllOf
<1>8. Served' BY <1>1, <1>3 DEF IoeInv, Served
<1> QED BY <1>4, <1>5, <1>6, <1>7, <1>8 DEF IoeInv

\* an access: what both kinds have in common
LEMMA AccessFact ==
  ASSUME IoeInv, NEW reg \in AM_DEVREG, do_io(reg)
  PROVE  /\ UNCHANGED <<ioe_port, diskimg>> /\ IoeTypeOK' /\ TableKept' /\ StartedWhole'
         /\ Called(reg) = "handler" <=> reg \in Table(ioe_port)
         /\ careful' => /\ careful /\ Promised(reg) /\ fate' = "runs" /\ Called(reg) = "handler"
                        /\ early' \subseteq (IF ioe_port = "nemu" THEN {"GPU", "AUDIO"} ELSE {})
<1>1. /\ fate = "runs" /\ UNCHANGED <<ioe_port, diskimg>>
      /\ (careful' <=> careful /\ Allowed(reg)) /\ careful' \in BOOLEAN
      /\ IF ioe_port = "native" /\ started = {}
         THEN lut' = closed /\ started' = native_started ELSE UNCHANGED <<lut, started>>
      /\ fate' = (CASE Called(reg) = "handler" -> "runs" [] Called(reg) = "fail" -> "panic" [] OTHER -> "lost")
      /\ early' = (IF Called(reg) # "handler" \/ reg = ConfigOf[DevOf(reg)] THEN early
                   ELSE early \cup ({DevOf(reg)} \cap (WithInit(ioe_port) \ started')))
  BY Zenon DEF do_io, IoeInv, IoeTypeOK
<1>2. IoeTypeOK /\ TableKept /\ Knows /\ StartedWhole /\ Served /\ ioe_port \in Platforms
  BY DEF IoeInv, IoeTypeOK
<1>3. lut' = lut \/ lut' = closed BY <1>1
<1>4. IoeTypeOK' BY <1>1, <1>2, <1>3, ClosedFact DEF IoeTypeOK
<1>5. TableKept'
  <2>1. \A r \in AM_DEVREG : lut'[r] = "handler" <=> lut[r] = "handler" BY <1>2, <1>3, ClosedFact
  <2>2. Table(ioe_port)' = Table(ioe_port) BY <1>1
  <2> QED BY <1>2, <2>1, <2>2 DEF TableKept
<1>6. StartedWhole' BY <1>1, <1>2 DEF StartedWhole, AllOf
<1>7. Called(reg) = "handler" <=> reg \in Table(ioe_port)
  BY <1>2, ClosedFact DEF Called, TableKept
<1>8. ASSUME careful'
      PROVE  /\ careful /\ Promised(reg) /\ fate' = "runs" /\ Called(reg) = "handler"
             /\ early' \subseteq (IF ioe_port = "nemu" THEN {"GPU", "AUDIO"} ELSE {})
  <2>1. careful /\ Promised(reg) /\ (ioe_port # "native" => started # {}) BY <1>1, <1>8 DEF Allowed
  <2>2. Called(reg) = "handler" BY <1>2, <1>7, <2>1, PromiseKept
  <2>3. fate' = "runs" BY <1>1, <2>2
  <2>4. started' = AllOf(ioe_port) BY <1>1, <1>2, <2>1 DEF StartedWhole, AllOf
  <2>5. WithInit(ioe_port) \ started' \subseteq (IF ioe_port = "nemu" THEN {"GPU", "AUDIO"} ELSE {})
    BY <1>2, <2>4 DEF WithInit, AllOf, Platforms, native_started, qemu_started, nemu_started
  <2>6. early \subseteq (IF ioe_port = "nemu" THEN {"GPU", "AUDIO"} ELSE {}) BY <1>2, <2>1 DEF Served
  <2> QED BY <1>1, <2>1, <2>2, <2>3, <2>5, <2>6
<1> QED BY <1>1, <1>4, <1>5, <1>6, <1>7, <1>8

LEMMA SaysTheSame ==
  ASSUME UNCHANGED <<ioe_port, diskimg>>
  PROVE  \A c : Config(ioe_port, c)' = Config(ioe_port, c) /\ Table(ioe_port)' = Table(ioe_port)
  BY DEF Config, native_config, native_disk_config, native_audio_config, native_gpu_config,
         nemu_config, qemu_config, npc_config, Table

LEMMA ReadKeeps ==
  ASSUME IoeInv, NEW reg \in DOMAIN Readable, io_read(reg)
  PROVE  IoeInv'
<1> DEFINE d == DevOf(reg)
           new == Config(ioe_port, reg)
<1>0. reg \in AM_DEVREG /\ do_io(reg) /\ d \in Devs BY DevFact DEF io_read, AM_DEVREG
<1>1. /\ UNCHANGED <<ioe_port, diskimg>> /\ IoeTypeOK' /\ TableKept' /\ StartedWhole'
      /\ Called(reg) = "handler" <=> reg \in Table(ioe_port)
      /\ careful' => /\ careful /\ Promised(reg) /\ fate' = "runs" /\ Called(reg) = "handler"
                     /\ early' \subseteq (IF ioe_port = "nemu" THEN {"GPU", "AUDIO"} ELSE {})
  BY <1>0, AccessFact
<1>2. IoeTypeOK /\ Knows /\ Served /\ ioe_port \in Platforms /\ diskimg \in BOOLEAN BY DEF IoeInv, IoeTypeOK
<1>3. CASE Called(reg) # "handler"
  <2>1. UNCHANGED <<answer, config>> /\ ~careful' BY <1>1, <1>3 DEF io_read
  <2>2. Knows' BY <1>1, <1>2, <2>1, SaysTheSame DEF Knows
  <2>3. Served' BY <2>1 DEF Served
  <2> QED BY <1>1, <2>2, <2>3 DEF IoeInv
<1>4. CASE Called(reg) = "handler"
  <2>1. /\ answer' = [reg |-> reg, fields |-> Fills(ioe_port, reg)]
        /\ config' = (IF reg # ConfigOf[d] THEN config
                      ELSE [r \in DOMAIN config \cup {reg} |-> IF r = reg THEN new ELSE config[r]])
    BY <1>4 DEF io_read
  <2>2. reg \in Table(ioe_port) BY <1>1, <1>4
  <2>3. answer'.reg = reg /\ answer'.fields = Fills(ioe_port, reg) BY <2>1
  <2>4. CASE reg # ConfigOf[d]
    <3>1. Knows' BY <1>1, <1>2, <2>1, <2>4, SaysTheSame DEF Knows
    <3>2. ASSUME careful' PROVE Fills(ioe_port, reg) = Readable[reg]
      BY <1>0, <1>1, <1>2, <2>4, <3>2, PromiseKept
    <3>3. Served' BY <1>1, <2>3, <3>2 DEF Served
    <3> QED BY <1>1, <3>1, <3>3 DEF IoeInv
  <2>5. CASE reg = ConfigOf[d]
    <3> HIDE DEF new
    <3>1. /\ DOMAIN config' = DOMAIN config \cup {reg} /\ config'[reg] = new
          /\ \A r \in DOMAIN config \ {reg} : config'[r] = config[r]
      BY <2>1, <2>5
    <3>2. ASSUME NEW c \in DOMAIN config'
          PROVE  /\ c \in Table(ioe_port) /\ \E e \in Devs : c = ConfigOf[e]
                 /\ config'[c] = Config(ioe_port, c)
      <4>1. CASE c = reg BY <1>0, <2>2, <2>5, <3>1, <4>1 DEF new
      <4>2. CASE c # reg BY <1>2, <3>1, <4>2 DEF Knows
      <4> QED BY <4>1, <4>2
    <3>3. Knows' BY <1>1, <3>2, SaysTheSame DEF Knows
    <3>4. Fills(ioe_port, reg) = DOMAIN new BY <1>0, <2>5 DEF Fills, new
    <3>5. DOMAIN new = Readable[reg] \/ ("present" \in DOMAIN new /\ ~new.present)
      BY <1>0, <1>2, <2>2, <2>5, Tells DEF new
    <3>6. \/ answer'.fields = Readable[answer'.reg]
          \/ /\ answer'.reg \in DOMAIN config' /\ "present" \in answer'.fields
             /\ ~config'[answer'.reg].present
      BY <2>3, <3>1, <3>4, <3>5
    <3>7. Served' BY <1>1, <3>6 DEF Served
    <3> QED BY <1>1, <3>3, <3>7 DEF IoeInv
  <2> QED BY <2>4, <2>5
<1> QED BY <1>3, <1>4

LEMMA WriteKeeps ==
  ASSUME IoeInv, NEW reg \in Writable, io_write(reg)
  PROVE  IoeInv'
<1>0. reg \in AM_DEVREG /\ do_io(reg) /\ UNCHANGED <<answer, config>> BY DEF io_write, AM_DEVREG
<1>1. /\ UNCHANGED <<ioe_port, diskimg>> /\ IoeTypeOK' /\ TableKept' /\ StartedWhole'
      /\ careful' => /\ careful /\ fate' = "runs"
                     /\ early' \subseteq (IF ioe_port = "nemu" THEN {"GPU", "AUDIO"} ELSE {})
  BY <1>0, AccessFact
<1>2. Knows' BY <1>0, <1>1, SaysTheSame DEF IoeInv, Knows
<1>3. Served' BY <1>0, <1>1 DEF IoeInv, Served
<1> QED BY <1>1, <1>2, <1>3 DEF IoeInv

LEMMA IoeInvInit == ASSUME IoeInit PROVE IoeInv
<1>1. IoeTypeOK BY IoeAssumption DEF IoeInit, IoeTypeOK
<1>2. TableKept BY DEF IoeInit, TableKept
<1>3. Knows BY DEF IoeInit, Knows
<1>4. StartedWhole BY DEF IoeInit, StartedWhole
<1>5. Served BY DEF IoeInit, Served
<1> QED BY <1>1, <1>2, <1>3, <1>4, <1>5 DEF IoeInv

LEMMA IoeInvStep == ASSUME IoeInv, [IoeNext]_ivars PROVE IoeInv'
<1>1. CASE \E cpu \in {0, 1} : ioe_init(cpu) BY <1>1, StartKeeps
<1>2. CASE \E reg \in DOMAIN Readable : io_read(reg) BY <1>2, ReadKeeps
<1>3. CASE \E reg \in Writable : io_write(reg) BY <1>3, WriteKeeps
<1>4. CASE UNCHANGED ivars
  <2>1. UNCHANGED <<ioe_port, diskimg, lut, started, early, fate, config, answer, careful>>
    BY <1>4 DEF ivars
  <2>2. Knows' BY <2>1, SaysTheSame DEF IoeInv, Knows
  <2>3. TableKept' BY <2>1, SaysTheSame DEF IoeInv, TableKept
  <2>4. StartedWhole' BY <2>1 DEF IoeInv, StartedWhole, AllOf
  <2>5. IoeTypeOK' /\ Served' BY <2>1 DEF IoeInv, IoeTypeOK, Served
  <2> QED BY <2>2, <2>3, <2>4, <2>5 DEF IoeInv
<1> QED BY <1>1, <1>2, <1>3, <1>4 DEF IoeNext

(* The invariant of what a program knows of its devices is inductive, for   *)
(* any of the platforms.                                                   *)
THEOREM IoeInvariant == IoeSpec => []IoeInv
<1>1. IoeInit => IoeInv BY IoeInvInit
<1>2. IoeInv /\ [IoeNext]_ivars => IoeInv' BY IoeInvStep
<1> QED BY <1>1, <1>2, PTL DEF IoeSpec

(* A program that asks the CONFIG registers first meets no panic and no     *)
(* NULL, and reads what a handler of a device that was initialised wrote.   *)
THEOREM IoeServes == IoeSpec => []Served
<1>1. IoeInv => Served BY DEF IoeInv
<1> QED BY <1>1, IoeInvariant, PTL

-----------------------------------------------------------------------------
(* Consoles.                                                                *)

\* what putch and getchar do on the ports that wait for their console
ConsoleSpec == ConsolesInit /\ [][ConsolesNext]_cvars

HtifWords == [dev : {0, 1}, cmd : {0, 1}, data : Nat]
Answer == Word(0, 0, 1)
Ack == Word(1, 1, 0)
ReadWord == Word(1, 0, 0)
IsKey(w) == w.dev = 1 /\ w.cmd = 0
IsPut(w) == w.dev = 1 /\ w.cmd = 1
IsAsk(w) == w.dev = 0 /\ w.cmd = 0 /\ w.data > 1
IsReply(w) == IsKey(w) \/ w = Ack \/ w = Answer
IsRequest(w) == w = Zero \/ (IsPut(w) /\ cport = "spike64") \/ w = ReadWord \/ IsAsk(w)

HtifAt == {"spin", "swap", "check", "clear", "take", "set", "store", "wait", "unlock"}
HtifFrames == [at : HtifAt \cup {"idle", "off1", "off2"}, op : {"none", "put", "get", "syscall"},
               msg : HtifWords, then : {"idle", "take", "set", "wait"}]
HtifTypes ==
  /\ cport \in {"spike32", "spike64"} /\ hart \in [Harts -> HtifFrames]
  /\ tohost \in HtifWords /\ fromhost \in HtifWords /\ console_buf \in Int /\ console_buf >= -1
  /\ lock \in {-1, 0}
  /\ host \in [reads : Nat, replies : Seq(HtifWords), exited : BOOLEAN]
  /\ sent \in Seq(Int) /\ out \in Seq(Int) /\ typed \in Seq(Int) /\ got \in Seq(Int)

\* the spin lock; f is what a hart is doing
Inside(f) == f.at \in HtifAt \ {"spin", "swap"}
OneInside == /\ \A h \in Harts : Inside(hart[h]) => lock = -1
             /\ \A g, h \in Harts : Inside(hart[g]) /\ Inside(hart[h]) => g = h

\* in which call a hart is, and what it may rely on there
InCall(f) == f.at \in HtifAt => \/ f.op = "put" /\ IsPut(f.msg) /\ cport = "spike64"
                                \/ f.op = "get" /\ f.msg = ReadWord
                                \/ f.op = "syscall" /\ IsAsk(f.msg)
Stands(f) ==
  /\ f.at \in {"check", "take"} => f.op = "get"
  /\ f.at = "wait" => f.op = "syscall"
  /\ f.at = "store" => tohost = Zero
  /\ f.at = "clear" => /\ fromhost.dev = 1 /\ f.then # "idle"
                       /\ f.then = "take" => f.op = "get"
                       /\ f.then = "wait" => f.op = "syscall"
Sure == \A h \in Harts : InCall(hart[h]) /\ Stands(hart[h])

\* what is in the two words and on the way between them
WordsOk == /\ IsRequest(tohost) /\ (fromhost = Zero \/ IsReply(fromhost))
           /\ \A i \in 1..Len(host.replies) : IsReply(host.replies[i])

\* console_buf = -1 means that one key is asked for: a hart is about to ask, the host has the
\* word, or owes the key, or has sent it
One(b) == IF b THEN 1 ELSE 0
Asks(f) == f.op = "get" /\ (f.at \in {"set", "store"} \/ (f.at = "clear" /\ f.then = "set"))
Asking == \E h \in Harts : Asks(hart[h])
Reads == One(Asking) + (One(tohost = ReadWord) + (host.reads + (Len(Keys(host.replies)) + One(IsKey(fromhost)))))
KeyAsked == Reads = One(console_buf = -1)

\* a system call is answered once, and its caller waits for it
Awaits(f) == f.at = "wait" \/ (f.at = "clear" /\ f.then = "wait")
Awaiting == \E h \in Harts : Awaits(hart[h])
AnswerAt(i) == i \in 1..Len(host.replies) /\ host.replies[i] = Answer
Answering == \E i \in 1..Len(host.replies) : AnswerAt(i)
SyscallAsked ==
  /\ IsAsk(tohost) \/ Answering \/ fromhost = Answer => Awaiting
  /\ IsAsk(tohost) => ~Answering /\ fromhost # Answer
  /\ Answering => fromhost # Answer
  /\ \A i, j \in 1..Len(host.replies) : AnswerAt(i) /\ AnswerAt(j) => i = j

Buffered == IF console_buf > 0 THEN <<console_buf - 1>> ELSE <<>>
AllShown == out \o Text(tohost) = sent
KeysKept == ((got \o Buffered) \o KeyOf(fromhost)) \o Keys(host.replies) = typed
Running == WordsOk /\ KeyAsked /\ SyscallAsked /\ AllShown /\ KeysKept

\* halt may have stored over the last character
LastLost(c) == /\ Len(c) <= 1 /\ (cport # "spike64" => c = <<>>)
               /\ sent = out \o c /\ Text(tohost) \in {<<>>, c}
Halting == /\ \A h \in Harts : hart[h].at \in {"idle", "off1", "off2"}
           /\ \E c \in Seq(Int) : LastLost(c)

HtifInv == HtifTypes /\ fifo = <<>> /\ Sure /\ OneInside /\ IF Off THEN Halting ELSE Running

\* the UARTs: one hart, with the characters of its call that it has not stored yet
Writer == CHOOSE h \in Harts : TRUE
UartFrame(at, rest) == [at |-> at, op |-> "none", msg |-> rest, then |-> "idle"]
UartAt(f) == \/ f = Idle /\ out \o fifo = sent
             \/ \E rest \in Seq(Int) \ {<<>>}, at \in {"poll", "tx"} :
                  /\ f = UartFrame(at, rest)
                  /\ (out \o fifo) \o rest = sent
                  /\ at = "tx" => Len(fifo) < Fifo

UartInv ==
  /\ cport \in {"ysyxsoc", "nutshell"} 
  /\ tohost = Zero /\ fromhost = Zero /\ console_buf = 0 
  /\ host = [reads |-> 0, replies |-> <<>>, exited |-> FALSE]
  /\ typed = <<>> /\ got = <<>>
  /\ fifo \in Seq(Int) /\ sent \in Seq(Int) /\ out \in Seq(Int)
  /\ hart = [h \in Harts |-> IF h = Writer THEN hart[Writer] ELSE Idle]
  /\ UartAt(hart[Writer])

ConsoleInv == IF cport \in {"spike32", "spike64"} THEN HtifInv ELSE UartInv

-----------------------------------------------------------------------------
(* Keys, by the walk along the words that defines it.                       *)

LEMMA UpTo ==
  ASSUME NEW n \in Nat, NEW S, 0 \in S, \A d \in 0..n-1 : d \in S => d + 1 \in S
  PROVE  0..n \subseteq S
<1> SUFFICES ASSUME (0..n) \ S # {} PROVE FALSE OBVIOUS
<1> DEFINE R == OpToRel(<, Nat)
           T == (0..n) \ S
<1>1. IsWellFoundedOn(R, Nat) BY NatLessThanWellFounded, Zenon
<1>2. \A x, y \in Nat : x < y => <<x, y>> \in R BY DEF OpToRel
<1>3. T \in SUBSET Nat /\ T # {} OBVIOUS
<1> HIDE DEF R
<1>4. PICK x \in T : \A y \in T : <<y, x>> \notin R
  <2> HIDE DEF T
  <2> QED BY <1>1, <1>3, WFMin, Zenon
<1>5. x # 0 /\ x - 1 \in 0..n-1 /\ (x - 1) + 1 = x OBVIOUS
<1>6. x - 1 \in T BY <1>5
<1>7. x - 1 < x /\ x - 1 \in Nat /\ x \in Nat BY <1>5
<1> QED BY <1>2, <1>4, <1>6, <1>7

LEMMA Assoc == \A s, t, u \in Seq(Int) : (s \o t) \o u = s \o (t \o u)
<1> TAKE s, t, u \in Seq(Int)
<1> QED BY ConcatAssociative, SMTT(60)

LEMMA LenNat == \A s \in Seq(Int) : Len(s) \in Nat
OBVIOUS

LEMMA AppendInt == \A s \in Seq(Int), c \in Int :
  Append(s, c) = s \o <<c>> /\ <<c>> \in Seq(Int) /\ Append(s, c) \in Seq(Int)
OBVIOUS

LEMMA Unit == \A s \in Seq(Int) : <<>> \o s = s /\ s \o <<>> = s
BY ConcatEmptySeq

KeyWalk(g, ws) == /\ g \in [0..Len(ws) -> Seq(Int)] /\ g[0] = <<>>
                  /\ \A i \in 1..Len(ws) : g[i] = g[i-1] \o KeyOf(ws[i])

LEMMA KeyOfType == ASSUME NEW w \in HtifWords PROVE KeyOf(w) \in Seq(Int)
<1>1. w.data % 256 \in Int BY DEF HtifWords
<1> QED BY <1>1 DEF KeyOf

LEMMA WalkExists ==
  ASSUME NEW ws \in Seq(HtifWords)
  PROVE  \E g : KeyWalk(g, ws)
<1> DEFINE len == Len(ws)
           Up(g, n) == /\ g \in [0..n -> Seq(Int)] /\ g[0] = <<>>
                       /\ \A i \in 1..n : g[i] = g[i-1] \o KeyOf(ws[i])
           S == {n \in 0..len : \E g : Up(g, n)}
<1>1. len \in Nat OBVIOUS
<1>2. 0 \in S
  <2>1. [i \in 0..0 |-> <<>>] \in [0..0 -> Seq(Int)] OBVIOUS
  <2>2. Up([i \in 0..0 |-> <<>>], 0) BY <2>1
  <2>3. 0 \in 0..len BY <1>1
  <2> HIDE DEF Up
  <2> QED BY <2>2, <2>3
<1>3. ASSUME NEW d \in 0..len-1, d \in S PROVE d + 1 \in S
  <2>1. PICK g : Up(g, d) BY <1>3
  <2>2. d + 1 \in 1..len /\ d \in Nat BY <1>1
  <2>3. KeyOf(ws[d + 1]) \in Seq(Int) BY <2>2, ElementOfSeq, KeyOfType
  <2> DEFINE h == [i \in 0..d+1 |-> IF i = d + 1 THEN g[d] \o KeyOf(ws[d+1]) ELSE g[i]]
  <2>4. g[d] \o KeyOf(ws[d+1]) \in Seq(Int) BY <2>1, <2>2, <2>3
  <2>5. h \in [0..d+1 -> Seq(Int)] BY <2>1, <2>4, <2>2
  <2>6. h[0] = <<>> BY <2>1, <2>2
  <2>7. ASSUME NEW i \in 1..d+1 PROVE h[i] = h[i-1] \o KeyOf(ws[i])
    <3>1. i - 1 \in 0..d+1 /\ i - 1 # d + 1 /\ i \in 0..d+1 /\ (i # d + 1 => i \in 1..d)
          /\ (i = d + 1 => i - 1 = d) BY <2>2
    <3>2. h[i-1] = g[i-1] BY <3>1
    <3>3. h[i] = IF i = d + 1 THEN g[d] \o KeyOf(ws[d+1]) ELSE g[i] BY <3>1, SMTT(60)
    <3> HIDE DEF h
    <3> QED BY <3>1, <3>2, <3>3, <2>1, Zenon
  <2>8. Up(h, d + 1) BY <2>5, <2>6, <2>7
  <2> HIDE DEF Up
  <2> QED BY <2>8, <2>2
<1>4. len \in S
  <2> HIDE DEF S, len
  <2>1. 0..len \subseteq S BY <1>1, <1>2, <1>3, UpTo
  <2> QED BY <2>1, <1>1
<1> QED BY <1>4 DEF KeyWalk

LEMMA WalksAgree ==
  ASSUME NEW ws \in Seq(HtifWords), NEW vs \in Seq(HtifWords), NEW g, NEW h,
         KeyWalk(g, ws), KeyWalk(h, vs), NEW n \in Nat, n <= Len(ws), n <= Len(vs),
         \A i \in 1..n : ws[i] = vs[i]
  PROVE  g[n] = h[n]
<1> DEFINE S == {i \in 0..n : g[i] = h[i]}
<1>1. 0 \in S BY DEF KeyWalk
<1>2. ASSUME NEW d \in 0..n-1, d \in S PROVE d + 1 \in S
  <2>1. d + 1 \in 1..n /\ d + 1 \in 1..Len(ws) /\ d + 1 \in 1..Len(vs) /\ (d + 1) - 1 = d
        /\ d + 1 \in 0..n OBVIOUS
  <2>2. g[d + 1] = g[d] \o KeyOf(ws[d + 1]) /\ h[d + 1] = h[d] \o KeyOf(vs[d + 1])
    BY <2>1 DEF KeyWalk
  <2>3. ws[d + 1] = vs[d + 1] /\ g[d] = h[d] BY <2>1, <1>2
  <2> QED BY <2>1, <2>2, <2>3
<1>3. n \in S
  <2> HIDE DEF S
  <2>1. 0..n \subseteq S BY <1>1, <1>2, UpTo
  <2> QED BY <2>1
<1> QED BY <1>3

LEMMA KeysWalk ==
  ASSUME NEW ws \in Seq(HtifWords)
  PROVE  \E g : KeyWalk(g, ws) /\ Keys(ws) = g[Len(ws)]
<1> DEFINE Next1(f, i) == IF i = 0 THEN <<>> ELSE f[i-1] \o KeyOf(ws[i])
           k == CHOOSE f : f = [i \in 0..Len(ws) |-> Next1(f, i)]
<1>1. PICK g : KeyWalk(g, ws) BY WalkExists
<1>2. g = [i \in 0..Len(ws) |-> Next1(g, i)]
  <2>1. g \in [0..Len(ws) -> Seq(Int)] BY <1>1 DEF KeyWalk
  <2>2. g = [i \in 0..Len(ws) |-> g[i]] BY <2>1
  <2>3. ASSUME NEW i \in 0..Len(ws) PROVE g[i] = Next1(g, i)
    <3>1. i # 0 => i \in 1..Len(ws) OBVIOUS
    <3> QED BY <3>1, <1>1 DEF KeyWalk
  <2> HIDE DEF Next1
  <2> QED BY <2>2, <2>3
<1>3. k = [i \in 0..Len(ws) |-> Next1(k, i)]
  <2> HIDE DEF Next1
  <2> QED BY <1>2, Zenon
<1>4. Keys(ws) = k[Len(ws)] BY DEF Keys
<1> HIDE DEF k
<1>5. \A i \in 0..Len(ws) : k[i] = Next1(k, i)
  <2> HIDE DEF Next1
  <2> QED BY <1>3
<1>6. k[0] = <<>>
  <2>1. Len(ws) \in Nat OBVIOUS
  <2>2. 0 \in 0..Len(ws) BY ONLY <2>1
  <2>3. k[0] = Next1(k, 0) BY ONLY <1>5, <2>2, Zenon
  <2> QED BY ONLY <2>3
<1>7. \A i \in 1..Len(ws) : k[i] = k[i-1] \o KeyOf(ws[i])
  <2> TAKE i \in 1..Len(ws)
  <2>1. i \in 0..Len(ws) /\ i # 0 OBVIOUS
  <2> QED BY <2>1, <1>5, Zenon
<1> DEFINE S == {i \in 0..Len(ws) : k[i] = g[i]}
<1>8. 0 \in S BY <1>6, <1>1 DEF KeyWalk
<1>9. ASSUME NEW d \in 0..Len(ws)-1, d \in S PROVE d + 1 \in S
  <2>1. d + 1 \in 1..Len(ws) /\ (d + 1) - 1 = d /\ d + 1 \in 0..Len(ws) OBVIOUS
  <2>2. g[d + 1] = g[d] \o KeyOf(ws[d + 1]) /\ k[d + 1] = k[d] \o KeyOf(ws[d + 1])
    BY <2>1, <1>1, <1>7 DEF KeyWalk
  <2> QED BY <2>1, <2>2, <1>9
<1>10. Len(ws) \in S
  <2> HIDE DEF S
  <2>1. Len(ws) \in Nat OBVIOUS
  <2>2. 0..Len(ws) \subseteq S BY <1>8, <1>9, <2>1, UpTo
  <2> QED BY <2>1, <2>2
<1> QED BY <1>1, <1>4, <1>10

LEMMA KeysType == ASSUME NEW ws \in Seq(HtifWords) PROVE Keys(ws) \in Seq(Int)
<1>1. PICK g : KeyWalk(g, ws) /\ Keys(ws) = g[Len(ws)] BY KeysWalk
<1>2. Len(ws) \in 0..Len(ws) OBVIOUS
<1> QED BY <1>1, <1>2 DEF KeyWalk

LEMMA KeysEmpty == Keys(<<>>) = <<>>
<1>1. <<>> \in Seq(HtifWords) /\ Len(<<>>) = 0 OBVIOUS
<1>2. PICK g : KeyWalk(g, <<>>) /\ Keys(<<>>) = g[Len(<<>>)] BY <1>1, KeysWalk
<1> QED BY <1>1, <1>2 DEF KeyWalk

LEMMA KeysAppend ==
  ASSUME NEW ws \in Seq(HtifWords), NEW w \in HtifWords
  PROVE  Keys(Append(ws, w)) = Keys(ws) \o KeyOf(w)
<1> DEFINE vs == Append(ws, w)
<1>1. vs \in Seq(HtifWords) /\ Len(vs) = Len(ws) + 1 /\ Len(ws) \in Nat /\ vs[Len(ws) + 1] = w
      /\ \A i \in 1..Len(ws) : ws[i] = vs[i] OBVIOUS
<1>2. PICK g : KeyWalk(g, ws) /\ Keys(ws) = g[Len(ws)] BY KeysWalk
<1> HIDE DEF vs
<1>3. PICK h : KeyWalk(h, vs) /\ Keys(vs) = h[Len(vs)] BY KeysWalk, <1>1
<1>4. g[Len(ws)] = h[Len(ws)] BY <1>1, <1>2, <1>3, WalksAgree, SMTT(60)
<1>5. h[Len(ws) + 1] = h[Len(ws)] \o KeyOf(vs[Len(ws) + 1])
  <2>1. Len(ws) + 1 \in 1..Len(vs) /\ (Len(ws) + 1) - 1 = Len(ws) BY <1>1
  <2> QED BY <2>1, <1>3 DEF KeyWalk
<1>6. Keys(vs) = Keys(ws) \o KeyOf(w) BY <1>1, <1>2, <1>3, <1>4, <1>5
<1> QED BY <1>6 DEF vs

LEMMA KeysTail ==
  ASSUME NEW ws \in Seq(HtifWords), ws # <<>>
  PROVE  Keys(ws) = KeyOf(Head(ws)) \o Keys(Tail(ws))
<1> DEFINE vs == Tail(ws)
           a == KeyOf(Head(ws))
<1>1. vs \in Seq(HtifWords) /\ Len(vs) = Len(ws) - 1 /\ Len(vs) \in Nat /\ Head(ws) \in HtifWords
      /\ Head(ws) = ws[1] /\ \A i \in 1..Len(vs) : vs[i] = ws[i+1] OBVIOUS
<1>2. a \in Seq(Int) BY <1>1, KeyOfType
<1>3. PICK g : KeyWalk(g, ws) /\ Keys(ws) = g[Len(ws)] BY KeysWalk
<1> HIDE DEF vs, a
<1>4. PICK h : KeyWalk(h, vs) /\ Keys(vs) = h[Len(vs)] BY KeysWalk, <1>1
<1> DEFINE S == {i \in 0..Len(vs) : g[i+1] = a \o h[i]}
<1>5. 0 \in S
  <2>1. 1 \in 1..Len(ws) BY <1>1
  <2>2. g[1] = g[1-1] \o KeyOf(ws[1]) BY <2>1, <1>3 DEF KeyWalk
  <2>3. g[1-1] = <<>> /\ h[0] = <<>> BY <1>3, <1>4 DEF KeyWalk
  <2>4. KeyOf(ws[1]) = a BY <1>1 DEF a
  <2>5. <<>> \o a = a /\ a \o <<>> = a BY <1>2
  <2>6. g[0+1] = a \o h[0] BY <2>2, <2>3, <2>4, <2>5
  <2> QED BY <2>6, <1>1
<1>6. ASSUME NEW d \in 0..Len(vs)-1, d \in S PROVE d + 1 \in S
  <2>1. d + 1 \in 1..Len(vs) /\ (d + 1) - 1 = d /\ d + 1 \in 0..Len(vs) /\ d \in 0..Len(vs)
        /\ (d + 1) + 1 \in 1..Len(ws) /\ ((d + 1) + 1) - 1 = d + 1 BY <1>1
  <2>2. h[d + 1] = h[d] \o KeyOf(vs[d + 1]) BY <2>1, <1>4 DEF KeyWalk
  <2>3. g[(d + 1) + 1] = g[d + 1] \o KeyOf(ws[(d + 1) + 1]) BY <2>1, <1>3 DEF KeyWalk
  <2>4. vs[d + 1] = ws[(d + 1) + 1] BY <2>1, <1>1
  <2>5. vs[d + 1] \in HtifWords BY <2>1, <1>1, ElementOfSeq
  <2>6. KeyOf(vs[d + 1]) \in Seq(Int) BY <2>5, KeyOfType
  <2>7. h[d] \in Seq(Int) BY <2>1, <1>4 DEF KeyWalk
  <2>8. (a \o h[d]) \o KeyOf(vs[d+1]) = a \o (h[d] \o KeyOf(vs[d+1]))
    BY ONLY <1>2, <2>6, <2>7, Assoc, Zenon
  <2>9. g[d + 1] = a \o h[d] BY <1>6
  <2> QED BY <2>1, <2>2, <2>3, <2>4, <2>8, <2>9
<1>7. Len(vs) \in S
  <2> HIDE DEF S
  <2>1. 0..Len(vs) \subseteq S BY <1>5, <1>6, <1>1, UpTo
  <2> QED BY <2>1, <1>1
<1>8. g[Len(vs) + 1] = a \o h[Len(vs)] /\ Len(vs) + 1 = Len(ws) BY <1>7, <1>1
<1> QED BY <1>8, <1>3, <1>4 DEF vs, a

-----------------------------------------------------------------------------
(* The UARTs.                                                               *)

LEMMA WriterFact == Writer \in Harts
BY ConsolesAssumption DEF Writer

LEMMA IdleFact == /\ Idle.at = "idle" /\ Idle.op = "none" /\ Idle.then = "idle" /\ Idle.msg = Zero
                  /\ Idle = UartFrame("idle", Zero)
BY DEF Idle, UartFrame

LEMMA UartFrameFact ==
  ASSUME NEW at, NEW rest
  PROVE  UartFrame(at, rest).at = at /\ UartFrame(at, rest).msg = rest
BY DEF UartFrame

LEMMA UartCase ==
  ASSUME NEW f, UartAt(f)
  PROVE  /\ f.at \in {"idle", "poll", "tx"} /\ (f.at = "idle" => f = Idle /\ out \o fifo = sent)
         /\ f.at # "idle" => \E rest \in Seq(Int) \ {<<>>}, at \in {"poll", "tx"} :
              /\ f = UartFrame(at, rest) /\ f.msg = rest /\ f.at = at /\ (out \o fifo) \o rest = sent
              /\ at = "tx" => Len(fifo) < Fifo
<1>1. CASE f = Idle /\ out \o fifo = sent BY <1>1, IdleFact
<1>2. CASE \E rest \in Seq(Int) \ {<<>>}, at \in {"poll", "tx"} :
              /\ f = UartFrame(at, rest) /\ (out \o fifo) \o rest = sent
              /\ at = "tx" => Len(fifo) < Fifo
  <2>1. PICK rest \in Seq(Int) \ {<<>>}, at \in {"poll", "tx"} :
              /\ f = UartFrame(at, rest) /\ (out \o fifo) \o rest = sent
              /\ at = "tx" => Len(fifo) < Fifo
    BY <1>2
  <2>2. f.at = at /\ f.msg = rest BY <2>1, UartFrameFact, Zenon
  <2>3. f.at \in {"poll", "tx"} /\ f.at # "idle" BY <2>2
  <2> QED BY ONLY <2>1, <2>2, <2>3, Zenon
<1> QED BY <1>1, <1>2 DEF UartAt

LEMMA UartPlace ==
  ASSUME UartInv, NEW h \in Harts
  PROVE  /\ hart[h].at \in {"idle", "poll", "tx"}
         /\ hart[h].at # "idle" => h = Writer
<1>1. hart[h] = IF h = Writer THEN hart[Writer] ELSE Idle BY DEF UartInv
<1>2. UartAt(hart[Writer]) BY DEF UartInv
<1>3. hart[Writer].at \in {"idle", "poll", "tx"} BY ONLY <1>2, UartCase
<1> QED BY <1>1, <1>3, IdleFact

LEMMA UartWriter ==
  ASSUME UartInv, NEW f, hart' = [hart EXCEPT ![Writer] = f]
  PROVE  hart' = [h \in Harts |-> IF h = Writer THEN hart'[Writer] ELSE Idle] /\ hart'[Writer] = f
<1>1. hart = [h \in Harts |-> IF h = Writer THEN hart[Writer] ELSE Idle] BY DEF UartInv
<1>2. hart'[Writer] = f BY <1>1, WriterFact
<1> QED BY <1>1, <1>2

LEMMA SendsFact ==
  ASSUME NEW ch \in Chars
  PROVE  Sends(ch) \in Seq(Int) \ {<<>>}
<1>1. ch \in Int BY ConsolesAssumption
<1>2. <<ch>> \in Seq(Int) \ {<<>>} /\ <<13, 10>> \in Seq(Int) \ {<<>>} BY <1>1
<1> QED BY <1>2 DEF Sends, CR, NL

LEMMA UartStep == ASSUME UartInv, [ConsolesNext]_cvars PROVE UartInv'
<1>1. CASE UNCHANGED cvars BY <1>1 DEF cvars, UartInv, UartAt, Writer
<1>2. ASSUME NEW h \in Harts, NEW ch \in Chars, htif_console_putchar(h, ch) \/ htif_syscall(h, ch)
      PROVE FALSE BY <1>2 DEF htif_console_putchar, htif_syscall, UartInv
<1>3. ASSUME NEW h \in Harts, NEW ch \in Chars, putch(h, ch) PROVE UartInv'
  <2> USE <1>3 DEF putch, SameHost, SameLines
  <2>1. h = Writer BY DEF Writer
  <2>2. hart[h].at = "idle" OBVIOUS
  <2>3. hart[Writer] = Idle /\ out \o fifo = sent 
    <3>1. UartAt(hart[Writer]) BY DEF UartInv
    <3> QED BY ONLY <3>1, <2>1, <2>2, UartCase
  <2> DEFINE f == UartFrame("poll", Sends(ch))
  <2>4. hart' = [hart EXCEPT ![Writer] = f]
    <3>1. hart' = [hart EXCEPT ![h] = [@ EXCEPT !.at = "poll", !.msg = Sends(ch)]] OBVIOUS
    <3>2. [Idle EXCEPT !.at = "poll", !.msg = Sends(ch)] = f
      <4>1. [Idle EXCEPT !.at = "poll", !.msg = Sends(ch)]
            = [[Idle EXCEPT !.at = "poll"] EXCEPT !.msg = Sends(ch)] BY Zenon
      <4>2. [Idle EXCEPT !.at = "poll"] = UartFrame("poll", Zero) BY DEF Idle, UartFrame
      <4>3. [UartFrame("poll", Zero) EXCEPT !.msg = Sends(ch)] = UartFrame("poll", Sends(ch))
        BY DEF UartFrame
      <4> QED BY ONLY <4>1, <4>2, <4>3, Zenon
    <3> QED BY <3>1, <3>2, <2>1, <2>3
  <2>5. hart' = [g \in Harts |-> IF g = Writer THEN hart'[Writer] ELSE Idle] /\ hart'[Writer] = f
    BY <2>4, UartWriter
  <2>6. Sends(ch) \in Seq(Int) \ {<<>>} BY SendsFact
  <2>7. sent' = sent \o Sends(ch) /\ out' = out /\ fifo' = fifo OBVIOUS
  <2>8. sent' \in Seq(Int) BY <2>6, <2>7 DEF UartInv
  <2>9. (out' \o fifo') \o Sends(ch) = sent' BY <2>3, <2>7
  <2>10. /\ cport' = cport /\ tohost' = tohost /\ fromhost' = fromhost /\ console_buf' = console_buf
         /\ host' = host /\ typed' = typed /\ got' = got OBVIOUS
  <2> HIDE DEF putch, f
  <2> HIDE <1>3
  <2> USE DEF f
  <2>11. UartAt(hart[Writer])' BY ONLY <2>5, <2>6, <2>9 DEF UartAt, Writer
  <2> QED BY ONLY UartInv, <2>5, <2>7, <2>8, <2>10, <2>11 DEF UartInv, Writer
<1>4. ASSUME NEW h \in Harts, uart_putchar(h) PROVE UartInv'
  <2>1. h = Writer BY <1>4, UartPlace DEF uart_putchar
  <2>2. PICK rest \in Seq(Int) \ {<<>>}, at \in {"poll", "tx"} :
          /\ hart[Writer] = UartFrame(at, rest) /\ hart[Writer].msg = rest /\ hart[Writer].at = at
          /\ (out \o fifo) \o rest = sent
          /\ at = "tx" => Len(fifo) < Fifo
    <3>1. UartAt(hart[Writer]) BY DEF UartInv
    <3>2. hart[Writer].at # "idle" BY <1>4, <2>1 DEF uart_putchar
    <3> QED BY ONLY <3>1, <3>2, UartCase, ZenonT(60)
  <2>3. /\ cport' = cport /\ tohost' = tohost /\ fromhost' = fromhost /\ console_buf' = console_buf
        /\ host' = host /\ typed' = typed /\ got' = got /\ sent' = sent /\ out' = out
    BY <1>4 DEF uart_putchar, SameHost, SameLines
  <2>4. hart = [g \in Harts |-> IF g = Writer THEN hart[Writer] ELSE Idle] BY DEF UartInv
  <2>5. fifo \in Seq(Int) /\ out \in Seq(Int) /\ sent \in Seq(Int) /\ cport \in {"ysyxsoc", "nutshell"}
    BY DEF UartInv
  <2>6. CASE hart[h].at = "poll" /\ MaySend /\ Goto(h, "tx") /\ fifo' = fifo
    <3> DEFINE f == UartFrame("tx", rest)
    <3>1. hart' = [hart EXCEPT ![Writer] = f]
      <4>1. hart' = [hart EXCEPT ![Writer] = [hart[Writer] EXCEPT !.at = "tx"]]
        BY ONLY <2>1, <2>6, Zenon DEF Goto
      <4>2. [UartFrame(at, rest) EXCEPT !.at = "tx"] = f BY DEF UartFrame
      <4> QED BY ONLY <4>1, <4>2, <2>2, Zenon
    <3>2. hart' = [g \in Harts |-> IF g = Writer THEN hart'[Writer] ELSE Idle] /\ hart'[Writer] = f
      BY <3>1, UartWriter
    <3>3. Len(fifo) < Fifo
      <4>1. Fifo \in Nat \ {0} BY ConsolesAssumption
      <4>2. fifo = <<>> => Len(fifo) = 0 BY <2>5
      <4> QED BY <4>1, <4>2, <2>6 DEF MaySend
    <3>4. fifo' = fifo BY <2>6
    <3>5. UartAt(hart[Writer])' BY ONLY <3>2, <3>3, <3>4, <2>2, <2>3 DEF UartAt, Writer
    <3> QED BY ONLY UartInv, <3>2, <3>4, <3>5, <2>3 DEF UartInv, Writer
  <2>7. CASE /\ hart[h].at = "tx"
             /\ fifo' = IF Len(fifo) < Fifo THEN Append(fifo, Head(hart[h].msg)) ELSE fifo
             /\ hart' = IF Len(hart[h].msg) = 1 THEN [hart EXCEPT ![h] = Idle]
                        ELSE [hart EXCEPT ![h].at = "poll", ![h].msg = Tail(@)]
    <3>1. hart[Writer].msg = rest /\ at = "tx" BY ONLY <2>1, <2>2, <2>7, Zenon
    <3>2. fifo' = Append(fifo, Head(rest)) BY <3>1, <2>2, <2>7, <2>1
    <3>3. Head(rest) \in Int /\ Tail(rest) \in Seq(Int) /\ rest = <<Head(rest)>> \o Tail(rest)
          /\ (Len(rest) = 1 => Tail(rest) = <<>>) /\ (Len(rest) # 1 => Tail(rest) # <<>>)
      <4>1. rest \in Seq(Int) /\ rest # <<>> OBVIOUS
      <4>2. Head(rest) \in Int /\ Tail(rest) \in Seq(Int) /\ Len(Tail(rest)) = Len(rest) - 1
        BY ONLY <4>1, HeadTailProperties
      <4>3. rest = <<Head(rest)>> \o Tail(rest) BY ONLY <4>1
      <4>4. Len(rest) \in Int /\ (Tail(rest) = <<>> <=> Len(Tail(rest)) = 0)
        <5>1. \A t \in Seq(Int) : t = <<>> <=> Len(t) = 0 BY EmptySeq
        <5>2. Len(rest) \in Int BY ONLY <4>1
        <5> QED BY ONLY <5>1, <5>2, <4>2, Zenon
      <4>5. (Len(rest) = 1 => Tail(rest) = <<>>) /\ (Len(rest) # 1 => Tail(rest) # <<>>)
        <5>1. Len(rest) = 1 <=> Len(Tail(rest)) = 0 BY ONLY <4>2, <4>4
        <5> QED BY ONLY <5>1, <4>4, Zenon
      <4> QED BY ONLY <4>2, <4>3, <4>5
    <3>4. Append(fifo, Head(rest)) = fifo \o <<Head(rest)>> /\ <<Head(rest)>> \in Seq(Int)
      <4>1. fifo \in Seq(Int) /\ Head(rest) \in Int BY <2>5, <3>3
      <4> QED BY ONLY <4>1, AppendInt, Zenon
    <3>5. (out \o fifo) \o (<<Head(rest)>> \o Tail(rest)) = (out \o (fifo \o <<Head(rest)>>)) \o Tail(rest)
      <4> DEFINE a == <<Head(rest)>>
                 b == Tail(rest)
      <4>1. a \in Seq(Int) /\ b \in Seq(Int) BY <3>3
      <4>2. out \o fifo \in Seq(Int) BY <2>5
      <4> HIDE DEF a, b
      <4>3. ((out \o fifo) \o a) \o b = (out \o fifo) \o (a \o b) BY ONLY <4>1, <4>2, Assoc, Zenon
      <4>4. (out \o fifo) \o a = out \o (fifo \o a)
        <5>1. out \in Seq(Int) /\ fifo \in Seq(Int) BY <2>5
        <5>2. a \in Seq(Int) BY <4>1
        <5> QED BY ONLY <5>1, <5>2, Assoc, ZenonT(60)
      <4>5. (out \o fifo) \o (a \o b) = (out \o (fifo \o a)) \o b BY ONLY <4>3, <4>4, Zenon
      <4> QED BY <4>5 DEF a, b
    <3>6. fifo' \in Seq(Int) /\ (out' \o fifo') \o Tail(rest) = sent'
      <4>1. fifo' = fifo \o <<Head(rest)>> BY <3>2, <3>4
      <4>2. fifo' \in Seq(Int)
        <5>1. fifo \in Seq(Int) /\ <<Head(rest)>> \in Seq(Int) BY <2>5, <3>4
        <5> QED BY ONLY <4>1, <5>1
      <4>3. (out \o (fifo \o <<Head(rest)>>)) \o Tail(rest) = sent BY ONLY <2>2, <3>3, <3>5, Zenon
      <4> QED BY ONLY <4>1, <4>2, <4>3, <2>3, Zenon
    <3> DEFINE f == IF Len(rest) = 1 THEN Idle ELSE UartFrame("poll", Tail(rest))
    <3>7. hart' = [hart EXCEPT ![Writer] = f]
      <4>1. hart' = IF Len(hart[Writer].msg) = 1 THEN [hart EXCEPT ![Writer] = Idle]
                    ELSE [hart EXCEPT ![Writer] = [hart[Writer] EXCEPT !.at = "poll",
                                                   !.msg = Tail(hart[Writer].msg)]]
        BY ONLY <2>1, <2>7, Zenon
      <4>2. [UartFrame(at, rest) EXCEPT !.at = "poll", !.msg = Tail(rest)] = UartFrame("poll", Tail(rest))
        <5>1. [UartFrame(at, rest) EXCEPT !.at = "poll", !.msg = Tail(rest)]
              = [[UartFrame(at, rest) EXCEPT !.at = "poll"] EXCEPT !.msg = Tail(rest)] BY Zenon
        <5>2. [UartFrame(at, rest) EXCEPT !.at = "poll"] = UartFrame("poll", rest) BY DEF UartFrame
        <5>3. [UartFrame("poll", rest) EXCEPT !.msg = Tail(rest)] = UartFrame("poll", Tail(rest))
          BY SMTT(60) DEF UartFrame
        <5> QED BY ONLY <5>1, <5>2, <5>3, Zenon
      <4> QED BY ONLY <4>1, <4>2, <2>2, Zenon
    <3>8. hart' = [g \in Harts |-> IF g = Writer THEN hart'[Writer] ELSE Idle] /\ hart'[Writer] = f
      BY <3>7, UartWriter
    <3>9. CASE Len(rest) = 1
      <4>1. Tail(rest) = <<>> /\ out' \o fifo' \in Seq(Int) BY <3>9, <3>3, <3>6, <2>3, <2>5
      <4>2. out' \o fifo' = sent' BY ONLY <4>1, <3>6, Unit, Zenon
      <4>3. UartAt(hart[Writer])' BY ONLY <3>8, <3>9, <4>2 DEF UartAt, Writer
      <4> QED BY ONLY UartInv, <3>8, <4>3, <3>6, <2>3 DEF UartInv, Writer
    <3>10. CASE Len(rest) # 1
      <4>1. Tail(rest) \in Seq(Int) \ {<<>>} BY <3>3, <3>10
      <4>2. UartAt(hart[Writer])' BY ONLY <3>8, <3>10, <4>1, <3>6 DEF UartAt, Writer
      <4> QED BY ONLY UartInv, <3>8, <4>2, <3>6, <2>3 DEF UartInv, Writer
    <3> QED BY <3>9, <3>10
  <2> QED BY <1>4, <2>6, <2>7 DEF uart_putchar
<1>5. ASSUME NEW h \in Harts,
             \/ htif_console_getchar(h) \/ spinlock_lock(h) \/ spinlock_unlock(h)
             \/ __check_fromhost(h) \/ getchar(h) \/ __set_tohost(h)
             \/ do_tohost_fromhost(h) \/ htif_poweroff(h)
      PROVE FALSE
  <2>1. hart[h].at \in {"idle", "poll", "tx"} BY UartPlace
  <2>2. cport \in {"ysyxsoc", "nutshell"} BY DEF UartInv
  <2> QED BY <1>5, <2>1, <2>2 DEF htif_console_getchar, spinlock_lock, spinlock_unlock,
       __check_fromhost, getchar, __set_tohost, do_tohost_fromhost, htif_poweroff, Spike
<1>6. ASSUME HostTakes \/ KeyPressed \/ HostReplies PROVE FALSE
  BY <1>6 DEF HostTakes, KeyPressed, HostReplies, UartInv
<1>7. ASSUME Transmit PROVE UartInv'
  <2> USE <1>7 DEF Transmit, SameLines
  <2>1. fifo \in Seq(Int) /\ out \in Seq(Int) /\ sent \in Seq(Int) /\ fifo # <<>> BY DEF UartInv
  <2>2. fifo' = Tail(fifo) /\ out' = Append(out, Head(fifo)) OBVIOUS
  <2>3. Head(fifo) \in Int /\ Tail(fifo) \in Seq(Int) /\ fifo = <<Head(fifo)>> \o Tail(fifo)
        /\ Len(Tail(fifo)) < Len(fifo) BY <2>1
  <2>4. Append(out, Head(fifo)) = out \o <<Head(fifo)>> /\ <<Head(fifo)>> \in Seq(Int)
    BY ONLY <2>1, <2>3, AppendInt, Zenon
  <2>5. (out \o <<Head(fifo)>>) \o Tail(fifo) = out \o (<<Head(fifo)>> \o Tail(fifo))
    BY ONLY <2>1, <2>3, <2>4, Assoc, ZenonT(60)
  <2>6. out' \o fifo' = out \o fifo BY ONLY <2>2, <2>3, <2>4, <2>5, Zenon
  <2>7. out' \in Seq(Int) /\ fifo' \in Seq(Int) /\ Len(fifo') < Len(fifo) BY <2>2, <2>3, <2>1
  <2>8. /\ cport' = cport /\ tohost' = tohost /\ fromhost' = fromhost /\ console_buf' = console_buf
        /\ host' = host /\ typed' = typed /\ got' = got /\ sent' = sent /\ hart' = hart OBVIOUS
  <2>9. Len(fifo') \in Int /\ Len(fifo) \in Int /\ Fifo \in Int BY <2>1, <2>7, ConsolesAssumption
  <2>10. Len(fifo) < Fifo => Len(fifo') < Fifo BY ONLY <2>7, <2>9
  <2> HIDE DEF Transmit
  <2>11. UartAt(hart[Writer]) /\ UartAt(hart[Writer])' BY ONLY UartInv, <2>6, <2>8, <2>10 DEF UartInv, UartAt, Writer
  <2> QED BY ONLY UartInv, <2>7, <2>8, <2>11 DEF UartInv, Writer
<1> QED BY <1>1, <1>2, <1>3, <1>4, <1>5, <1>6, <1>7 DEF ConsolesNext

-----------------------------------------------------------------------------
(* HTIF: a hart moves.                                                      *)

\* what the conditions on the words speak of
Words == <<cport, tohost, fromhost, console_buf, host, fifo, sent, out, typed, got>>

LEMMA FrameFact ==
  ASSUME HtifTypes, NEW h \in Harts
  PROVE  hart[h] \in HtifFrames
BY DEF HtifTypes

\* a hart that has the lock, or takes it
LEMMA MoveAlone ==
  ASSUME HtifTypes, Sure, OneInside, ~Off, NEW h \in Harts, NEW f \in HtifFrames,
         hart' = [hart EXCEPT ![h] = f], cport' = cport, f.at \notin {"off1", "off2"},
         InCall(f), Stands(f)', Inside(hart[h]) \/ lock = 0, lock' \in {-1, 0}, Inside(f) => lock' = -1
  PROVE  /\ hart' \in [Harts -> HtifFrames] /\ ~Off' /\ Sure' /\ OneInside'
         /\ (Asking <=> Asks(hart[h])) /\ (Asking' <=> Asks(f))
         /\ (Awaiting <=> Awaits(hart[h])) /\ (Awaiting' <=> Awaits(f))
<1>1. hart \in [Harts -> HtifFrames] BY DEF HtifTypes
<1>2. hart' \in [Harts -> HtifFrames] /\ hart'[h] = f /\ \A g \in Harts \ {h} : hart'[g] = hart[g]
  BY ONLY <1>1, hart' = [hart EXCEPT ![h] = f], h \in Harts, f \in HtifFrames
<1>3. ASSUME NEW g \in Harts \ {h} PROVE ~Inside(hart[g])
  BY <1>3 DEF OneInside
<1>4. \A g \in Harts : hart[g].at \notin {"off1", "off2"} BY DEF Off
<1>5. ~Off'
  <2>1. \A g \in Harts : hart'[g].at \notin {"off1", "off2"} BY <1>2, <1>4
  <2> QED BY <2>1 DEF Off
<1>6. Sure'
  <2>1. ASSUME NEW g \in Harts PROVE InCall(hart[g])' /\ Stands(hart[g])'
    <3>1. CASE g = h
      <4>1. hart'[g] = f BY <3>1, <1>2
      <4> QED BY <4>1 DEF InCall, Stands
    <3>2. CASE g # h
      <4>1. hart'[g] = hart[g] /\ ~Inside(hart[g]) BY <3>2, <1>2, <1>3
      <4>2. InCall(hart[g]) /\ Stands(hart[g]) BY DEF Sure
      <4>3. InCall(hart[g])' BY ONLY <4>1, <4>2, cport' = cport DEF InCall
      <4>4. Stands(hart[g])' BY ONLY <4>1, <4>2 DEF Stands, Inside, HtifAt
      <4> QED BY <4>3, <4>4
    <3> QED BY <3>1, <3>2
  <2> QED BY <2>1 DEF Sure
<1>7. OneInside'
  <2>1. \A g \in Harts \ {h} : ~Inside(hart'[g]) BY <1>2, <1>3
  <2>2. Inside(hart'[h]) => lock' = -1 BY <1>2
  <2> QED BY ONLY <2>1, <2>2, h \in Harts DEF OneInside, Inside
<1>8. \A g \in Harts \ {h} : ~Asks(hart[g]) /\ ~Awaits(hart[g])
  BY <1>3 DEF Asks, Awaits, Inside, HtifAt
<1>9. \A g \in Harts \ {h} : ~Asks(hart'[g]) /\ ~Awaits(hart'[g]) BY <1>2, <1>8
<1>10. /\ (Asking <=> Asks(hart[h])) /\ (Awaiting <=> Awaits(hart[h]))
  BY ONLY <1>8, h \in Harts DEF Asking, Awaiting
<1>11. /\ (Asking' <=> Asks(f)) /\ (Awaiting' <=> Awaits(f))
  <2>1. (Asking' <=> Asks(hart'[h])) /\ (Awaiting' <=> Awaits(hart'[h]))
    BY ONLY <1>9, h \in Harts DEF Asking, Awaiting, Asks, Awaits
  <2> QED BY ONLY <2>1, <1>2, Zenon
<1> QED BY <1>2, <1>5, <1>6, <1>7, <1>10, <1>11

LEMMA SameRunning ==
  ASSUME Running, UNCHANGED Words, Asking' <=> Asking, Awaiting' <=> Awaiting
  PROVE  Running'
<1> USE DEF Words
<1>1. WordsOk' BY DEF Running, WordsOk, IsRequest
<1>2. KeyAsked'
  <2>1. One(Asking)' = One(Asking) BY DEF One
  <2>2. Reads' = Reads BY ONLY <2>1, UNCHANGED Words DEF Reads, Words, One, IsKey
  <2> QED BY <2>2 DEF Running, KeyAsked, One
<1>3. SyscallAsked' BY DEF Running, SyscallAsked, Answering, AnswerAt
<1>4. AllShown' BY DEF Running, AllShown
<1>5. KeysKept' BY DEF Running, KeysKept, Buffered
<1> QED BY <1>1, <1>2, <1>3, <1>4, <1>5 DEF Running

LEMMA SameTypes ==
  ASSUME HtifTypes, UNCHANGED Words, hart' \in [Harts -> HtifFrames], lock' \in {-1, 0}
  PROVE  HtifTypes'
BY DEF HtifTypes, Words

\* a step of such a hart that leaves the words alone
LEMMA MoveQuiet ==
  ASSUME HtifInv, ~Off, NEW h \in Harts, NEW f \in HtifFrames, UNCHANGED Words,
         hart' = [hart EXCEPT ![h] = f], f.at \notin {"off1", "off2"},
         InCall(f), Stands(f), Inside(hart[h]) \/ lock = 0, lock' \in {-1, 0}, Inside(f) => lock' = -1,
         Asks(f) <=> Asks(hart[h]), Awaits(f) <=> Awaits(hart[h])
  PROVE  HtifInv' /\ ~Off'
<1>1. HtifTypes /\ fifo = <<>> /\ Sure /\ OneInside /\ Running BY DEF HtifInv
<1>2. cport' = cport /\ fifo' = fifo BY DEF Words
<1>3. Stands(f)' BY ONLY Stands(f), UNCHANGED Words DEF Stands, Words
<1>4. /\ hart' \in [Harts -> HtifFrames] /\ ~Off' /\ Sure' /\ OneInside'
      /\ (Asking <=> Asks(hart[h])) /\ (Asking' <=> Asks(f))
      /\ (Awaiting <=> Awaits(hart[h])) /\ (Awaiting' <=> Awaits(f))
  BY <1>1, <1>2, <1>3, MoveAlone
<1>5. Running' BY <1>1, <1>4, SameRunning, Zenon
<1>6. HtifTypes' BY <1>1, <1>4, SameTypes, Zenon
<1> QED BY ONLY <1>1, <1>2, <1>4, <1>5, <1>6 DEF HtifInv

\* a step before the lock is taken
LEMMA MoveAside ==
  ASSUME HtifInv, ~Off, NEW h \in Harts, NEW f \in HtifFrames, UNCHANGED Words, lock' = lock,
         hart' = [hart EXCEPT ![h] = f], f.at \notin {"off1", "off2"},
         InCall(f), ~Inside(hart[h]), ~Inside(f)
  PROVE  HtifInv' /\ ~Off'
<1>1. HtifTypes /\ fifo = <<>> /\ Sure /\ OneInside /\ Running BY DEF HtifInv
<1>2. cport' = cport /\ fifo' = fifo BY DEF Words
<1>3. hart \in [Harts -> HtifFrames] /\ lock' \in {-1, 0} BY <1>1 DEF HtifTypes
<1>4. hart' \in [Harts -> HtifFrames] /\ hart'[h] = f /\ \A g \in Harts \ {h} : hart'[g] = hart[g]
  BY ONLY <1>3, hart' = [hart EXCEPT ![h] = f], h \in Harts, f \in HtifFrames
<1>5. ~Off'
  <2>1. \A g \in Harts : hart[g].at \notin {"off1", "off2"} BY DEF Off
  <2>2. \A g \in Harts : hart'[g].at \notin {"off1", "off2"} BY <1>4, <2>1
  <2> QED BY <2>2 DEF Off
<1>6. Sure'
  <2>1. ASSUME NEW g \in Harts PROVE InCall(hart[g])' /\ Stands(hart[g])'
    <3>1. CASE g = h
      <4>1. hart'[g] = f BY <3>1, <1>4
      <4>2. InCall(hart[g])' BY ONLY <4>1, InCall(f), <1>2 DEF InCall
      <4>3. Stands(hart[g])' BY ONLY <4>1, ~Inside(f) DEF Stands, Inside, HtifAt
      <4> QED BY <4>2, <4>3
    <3>2. CASE g # h
      <4>1. hart'[g] = hart[g] BY <3>2, <1>4
      <4>2. InCall(hart[g]) /\ Stands(hart[g]) BY <1>1 DEF Sure
      <4>3. InCall(hart[g])' BY ONLY <4>1, <4>2, <1>2 DEF InCall
      <4>4. Stands(hart[g])' BY ONLY <4>1, <4>2, UNCHANGED Words DEF Stands, Words
      <4> QED BY <4>3, <4>4
    <3> QED BY <3>1, <3>2
  <2> QED BY <2>1 DEF Sure
<1>7. OneInside'
  <2>1. \A g \in Harts : Inside(hart'[g]) => g # h /\ Inside(hart[g]) BY <1>4
  <2> QED BY ONLY <2>1, <1>1, lock' = lock DEF OneInside, Inside
<1>8. (Asking' <=> Asking) /\ (Awaiting' <=> Awaiting)
  <2>1. \A g \in {f, hart[h]} : ~Asks(g) /\ ~Awaits(g) BY DEF Asks, Awaits, Inside, HtifAt
  <2>2. \A g \in Harts : /\ Asks(hart'[g]) <=> Asks(hart[g])
                         /\ Awaits(hart'[g]) <=> Awaits(hart[g])
    BY ONLY <1>4, <2>1
  <2> QED BY ONLY <2>2 DEF Asking, Awaiting, Asks, Awaits
<1>9. Running' BY <1>1, <1>8, SameRunning, Zenon
<1>10. HtifTypes' BY <1>1, <1>3, <1>4, SameTypes, Zenon
<1> QED BY ONLY <1>1, <1>2, <1>5, <1>6, <1>7, <1>9, <1>10 DEF HtifInv

-----------------------------------------------------------------------------
(* HTIF: the steps of a call.                                               *)

HtifPlaces == HtifAt \cup {"idle", "off1", "off2"}

LEMMA GotoFact ==
  ASSUME HtifTypes, NEW h \in Harts, NEW x \in HtifPlaces, Goto(h, x)
  PROVE  \E f \in HtifFrames : /\ hart' = [hart EXCEPT ![h] = f]
                               /\ f.at = x /\ f.op = hart[h].op /\ f.msg = hart[h].msg /\ f.then = hart[h].then
<1> DEFINE f == [hart[h] EXCEPT !.at = x]
<1>1. hart[h] \in HtifFrames BY FrameFact
<1>2. f \in HtifFrames /\ f.at = x /\ f.op = hart[h].op /\ f.msg = hart[h].msg /\ f.then = hart[h].then
  BY ONLY <1>1, x \in HtifPlaces DEF HtifFrames, HtifPlaces
<1>3. hart' = [hart EXCEPT ![h] = f] BY Zenon DEF Goto
<1> QED BY ONLY <1>2, <1>3

\* words that are read in passing
LEMMA WordFact ==
  /\ Zero \in HtifWords /\ Answer \in HtifWords /\ Ack \in HtifWords /\ ReadWord \in HtifWords
  /\ Zero.dev = 0 /\ Zero.cmd = 0 /\ Zero.data = 0 /\ Answer.dev = 0 /\ Answer.cmd = 0 /\ Answer.data = 1
  /\ Ack.dev = 1 /\ Ack.cmd = 1 /\ ReadWord.dev = 1 /\ ReadWord.cmd = 0
  /\ Text(Zero) = <<>> /\ Text(ReadWord) = <<>> /\ Text(Answer) = <<>>
  /\ KeyOf(Zero) = <<>> /\ KeyOf(Answer) = <<>> /\ KeyOf(Ack) = <<>>
<1>1. /\ Zero \in HtifWords /\ Answer \in HtifWords /\ Ack \in HtifWords /\ ReadWord \in HtifWords
  BY DEF Zero, Answer, Ack, ReadWord, Word, HtifWords
<1>2. /\ Zero.dev = 0 /\ Zero.cmd = 0 /\ Zero.data = 0 /\ Answer.dev = 0 /\ Answer.cmd = 0 /\ Answer.data = 1
      /\ Ack.dev = 1 /\ Ack.cmd = 1 /\ ReadWord.dev = 1 /\ ReadWord.cmd = 0
  BY DEF Zero, Answer, Ack, ReadWord, Word
<1>3. Text(Zero) = <<>> /\ Text(ReadWord) = <<>> /\ Text(Answer) = <<>>
  <2>1. \A w : w.dev = 1 /\ w.cmd = 0 => Text(w) = <<>> BY DEF Text
  <2>2. \A w : w.dev = 0 /\ ~(w.data > 1) => Text(w) = <<>> BY DEF Text
  <2> QED BY <1>2, <2>1, <2>2
<1>4. KeyOf(Zero) = <<>> /\ KeyOf(Answer) = <<>> /\ KeyOf(Ack) = <<>> BY <1>2 DEF KeyOf
<1> QED BY <1>1, <1>2, <1>3, <1>4

LEMMA TextType == ASSUME NEW w \in HtifWords PROVE Text(w) \in Seq(Int) /\ Len(Text(w)) <= 1
<1>1. w.data \in Int /\ w.data \div 2 \in Int BY DEF HtifWords
<1>2. \A a \in Int : <<a>> \in Seq(Int) /\ Len(<<a>>) = 1 OBVIOUS
<1>3. <<>> \in Seq(Int) /\ Len(<<>>) = 0 OBVIOUS
<1>4. Text(w) = <<w.data>> \/ Text(w) = <<w.data \div 2>> \/ Text(w) = <<>> BY DEF Text
<1>5. \A n \in {0, 1} : n <= 1 OBVIOUS
<1> QED BY ONLY <1>1, <1>2, <1>3, <1>4, <1>5

LEMMA CallBegins ==
  ASSUME HtifInv, ~Off, NEW h \in Harts, NEW op \in {"put", "get", "syscall"}, NEW msg \in HtifWords,
         Call(h, op, msg),
         \/ op = "put" /\ IsPut(msg) /\ cport = "spike64"
         \/ op = "get" /\ msg = ReadWord
         \/ op = "syscall" /\ IsAsk(msg)
  PROVE  HtifInv' /\ ~Off'
<1>1. HtifTypes BY DEF HtifInv
<1>2. hart[h] \in HtifFrames /\ hart[h].at = "idle" BY <1>1, FrameFact DEF Call
<1> DEFINE f == [at |-> "spin", op |-> op, msg |-> msg, then |-> hart[h].then]
<1>3. f \in HtifFrames BY <1>2 DEF HtifFrames, HtifAt
<1>4. hart' = [hart EXCEPT ![h] = f]
  <2>1. hart' = [hart EXCEPT ![h] = [hart[h] EXCEPT !.at = "spin", !.op = op, !.msg = msg]] BY Zenon DEF Call
  <2>2. [hart[h] EXCEPT !.at = "spin", !.op = op, !.msg = msg]
        = [[[hart[h] EXCEPT !.at = "spin"] EXCEPT !.op = op] EXCEPT !.msg = msg] BY Zenon
  <2>3. [hart[h] EXCEPT !.at = "spin"]
        = [at |-> "spin", op |-> hart[h].op, msg |-> hart[h].msg, then |-> hart[h].then]
    BY ONLY <1>2 DEF HtifFrames
  <2>4. [[at |-> "spin", op |-> hart[h].op, msg |-> hart[h].msg, then |-> hart[h].then] EXCEPT !.op = op]
        = [at |-> "spin", op |-> op, msg |-> hart[h].msg, then |-> hart[h].then] OBVIOUS
  <2>5. [[at |-> "spin", op |-> op, msg |-> hart[h].msg, then |-> hart[h].then] EXCEPT !.msg = msg] = f
    OBVIOUS
  <2> HIDE DEF f
  <2> QED BY ONLY <2>1, <2>2, <2>3, <2>4, <2>5, Zenon
<1>5. f.at = "spin" /\ f.op = op /\ f.msg = msg OBVIOUS
<1> HIDE DEF f
<1>6. PICK e \in HtifFrames : e = f BY <1>3
<1>7. InCall(e) BY <1>5, <1>6 DEF InCall
<1>8. ~Inside(hart[h]) /\ ~Inside(e) /\ e.at \notin {"off1", "off2"} BY <1>2, <1>5, <1>6 DEF Inside, HtifAt
<1>9. UNCHANGED Words /\ lock' = lock BY DEF Call, SameHost, SameLines, Words
<1>10. hart' = [hart EXCEPT ![h] = e] BY <1>4, <1>6
<1> QED BY <1>7, <1>8, <1>9, <1>10, MoveAside

LEMMA SpinlockStep ==
  ASSUME HtifInv, ~Off, NEW h \in Harts, spinlock_lock(h) \/ spinlock_unlock(h)
  PROVE  HtifInv' /\ ~Off'
<1>1. HtifTypes /\ Sure /\ OneInside BY DEF HtifInv
<1>2. UNCHANGED Words BY DEF spinlock_lock, spinlock_unlock, SameHost, SameLines, Words
<1>3. InCall(hart[h]) /\ Stands(hart[h]) BY <1>1 DEF Sure
<1>4. CASE hart[h].at = "spin" /\ lock = 0 /\ Goto(h, "swap") /\ lock' = lock
  <2>1. PICK f \in HtifFrames : /\ hart' = [hart EXCEPT ![h] = f]
             /\ f.at = "swap" /\ f.op = hart[h].op /\ f.msg = hart[h].msg /\ f.then = hart[h].then
    BY <1>1, <1>4, GotoFact DEF HtifPlaces, HtifAt
  <2>2. InCall(f) BY ONLY <1>3, <1>4, <2>1 DEF InCall, HtifAt
  <2>3. ~Inside(hart[h]) /\ ~Inside(f) /\ f.at \notin {"off1", "off2"} BY ONLY <1>4, <2>1 DEF Inside, HtifAt
  <2> QED BY <1>2, <1>4, <2>1, <2>2, <2>3, MoveAside
<1>5. CASE hart[h].at = "swap" /\ lock' = -1 /\ lock # 0 /\ Goto(h, "spin")
  <2>1. PICK f \in HtifFrames : /\ hart' = [hart EXCEPT ![h] = f]
             /\ f.at = "spin" /\ f.op = hart[h].op /\ f.msg = hart[h].msg /\ f.then = hart[h].then
    BY <1>1, <1>5, GotoFact DEF HtifPlaces, HtifAt
  <2>2. InCall(f) BY ONLY <1>3, <1>5, <2>1 DEF InCall, HtifAt
  <2>3. ~Inside(hart[h]) /\ ~Inside(f) /\ f.at \notin {"off1", "off2"} BY ONLY <1>5, <2>1 DEF Inside, HtifAt
  <2>4. lock' = lock BY <1>1, <1>5 DEF HtifTypes
  <2> QED BY <1>2, <2>1, <2>2, <2>3, <2>4, MoveAside
<1>6. CASE hart[h].at = "swap" /\ lock' = -1 /\ lock = 0
           /\ Goto(h, IF hart[h].op = "get" THEN "check" ELSE "set")
  <2> DEFINE x == IF hart[h].op = "get" THEN "check" ELSE "set"
  <2>1. x \in HtifPlaces /\ Goto(h, x) BY <1>6 DEF HtifPlaces, HtifAt
  <2>2. PICK f \in HtifFrames : /\ hart' = [hart EXCEPT ![h] = f]
             /\ f.at = x /\ f.op = hart[h].op /\ f.msg = hart[h].msg /\ f.then = hart[h].then
    <3> HIDE DEF x
    <3> QED BY <1>1, <2>1, GotoFact
  <2>3. InCall(f) /\ Stands(f) BY ONLY <1>3, <1>6, <2>2 DEF InCall, Stands, HtifAt
  <2>4. f.at \notin {"off1", "off2"} BY <2>2
  <2>5. ~Asks(f) /\ ~Asks(hart[h]) /\ ~Awaits(f) /\ ~Awaits(hart[h])
    BY ONLY <1>6, <2>2 DEF Asks, Awaits
  <2>6. lock = 0 /\ lock' \in {-1, 0} /\ lock' = -1 BY <1>6
  <2> QED BY <1>2, <2>2, <2>3, <2>4, <2>5, <2>6, MoveQuiet
<1>7. CASE hart[h].at = "unlock" /\ lock' = 0 /\ hart' = [hart EXCEPT ![h] = Idle]
  <2>1. PICK f \in HtifFrames : f = Idle
    <3>1. Idle \in HtifFrames BY WordFact DEF Idle, HtifFrames
    <3> QED BY <3>1
  <2>2. f.at = "idle" BY <2>1, IdleFact
  <2>3. InCall(f) /\ Stands(f) BY ONLY <2>2 DEF InCall, Stands, HtifAt
  <2>4. ~Asks(f) /\ ~Asks(hart[h]) /\ ~Awaits(f) /\ ~Awaits(hart[h])
    BY ONLY <1>7, <2>2 DEF Asks, Awaits
  <2>5. Inside(hart[h]) /\ ~Inside(f) /\ f.at \notin {"off1", "off2"} BY ONLY <1>7, <2>2 DEF Inside, HtifAt
  <2>6. lock' \in {-1, 0} /\ hart' = [hart EXCEPT ![h] = f] BY <1>7, <2>1
  <2> QED BY <1>2, <2>3, <2>4, <2>5, <2>6, MoveQuiet
<1>8. CASE spinlock_lock(h)
  <2>1. \/ hart[h].at = "spin" /\ lock = 0 /\ Goto(h, "swap") /\ lock' = lock
        \/ hart[h].at = "swap" /\ lock' = -1
           /\ Goto(h, IF lock # 0 THEN "spin" ELSE IF hart[h].op = "get" THEN "check" ELSE "set")
    BY <1>8 DEF spinlock_lock
  <2>2. CASE lock # 0 BY <2>1, <2>2, <1>5
  <2>3. CASE lock = 0 BY <2>1, <2>3, <1>4, <1>6
  <2> QED BY <2>2, <2>3
<1> QED BY <1>7, <1>8 DEF spinlock_unlock

LEMMA InsideLocks ==
  ASSUME HtifInv, NEW h \in Harts, Inside(hart[h])
  PROVE  lock = -1
BY DEF HtifInv, OneInside

\* while a hart is not waiting for an ans, none is coming
LEMMA NoAnswer ==
  ASSUME HtifInv, ~Off, NEW h \in Harts, Inside(hart[h]), ~Awaits(hart[h])
  PROVE  ~Awaiting /\ ~Answering /\ fromhost # Answer /\ ~IsAsk(tohost)
<1>1. ~Awaiting
  <2>1. \A g \in Harts : Awaits(hart[g]) => Inside(hart[g]) BY DEF Awaits, Inside, HtifAt
  <2>2. \A g \in Harts : Inside(hart[g]) => g = h BY DEF HtifInv, OneInside
  <2> QED BY ONLY <2>1, <2>2, ~Awaits(hart[h]) DEF Awaiting
<1> QED BY <1>1 DEF HtifInv, Running, SyscallAsked

LEMMA CheckStep ==
  ASSUME HtifInv, ~Off, NEW h \in Harts, hart[h].at = "check", __check_fromhost(h)
  PROVE  HtifInv' /\ ~Off'
<1>1. HtifTypes /\ Sure /\ Running BY DEF HtifInv
<1>2. UNCHANGED Words /\ lock' = lock BY DEF __check_fromhost, SameHost, SameLines, Words
<1>3. InCall(hart[h]) /\ Stands(hart[h]) BY <1>1 DEF Sure
<1>4. Inside(hart[h]) /\ ~Awaits(hart[h]) BY DEF Inside, HtifAt, Awaits
<1> DEFINE x == IF fromhost = Zero THEN "take" ELSE "clear"
           f == [[hart[h] EXCEPT !.at = x] EXCEPT !.then = "take"]
<1>5. hart[h] \in HtifFrames BY <1>1, FrameFact
<1>6. hart' = [hart EXCEPT ![h] = f]
  <2>1. hart' = [hart EXCEPT ![h] = [hart[h] EXCEPT !.at = x, !.then = "take"]]
    BY Zenon DEF __check_fromhost
  <2> HIDE DEF x
  <2>2. [hart[h] EXCEPT !.at = x, !.then = "take"] = f BY Zenon
  <2> QED BY ONLY <2>1, <2>2, Zenon
<1>7. f \in HtifFrames /\ f.at = x /\ f.op = hart[h].op /\ f.msg = hart[h].msg /\ f.then = "take"
  <2>1. x \in HtifAt BY DEF HtifAt
  <2> HIDE DEF x
  <2> QED BY ONLY <1>5, <2>1 DEF HtifFrames
<1> HIDE DEF f
<1>8. PICK e \in HtifFrames : e = f BY <1>7
<1>9. fromhost # Zero => fromhost.dev = 1
  <2>1. fromhost = Zero \/ IsReply(fromhost) BY <1>1 DEF Running, WordsOk
  <2>2. fromhost # Answer BY <1>4, NoAnswer
  <2> QED BY <2>1, <2>2, WordFact DEF IsReply, IsKey
<1>10. InCall(e) /\ Stands(e) BY ONLY <1>3, <1>7, <1>8, <1>9, hart[h].at = "check" DEF InCall, Stands, HtifAt
<1>11. Inside(e) /\ e.at \notin {"off1", "off2"} BY ONLY <1>7, <1>8 DEF Inside, HtifAt
<1>12. ~Asks(e) /\ ~Asks(hart[h]) /\ ~Awaits(e) BY ONLY <1>7, <1>8, hart[h].at = "check" DEF Asks, Awaits
<1>13. lock' = -1 /\ lock' \in {-1, 0} BY <1>2, <1>4, InsideLocks
<1>14. hart' = [hart EXCEPT ![h] = e] BY <1>6, <1>8
<1> QED BY <1>2, <1>4, <1>10, <1>11, <1>12, <1>13, <1>14, MoveQuiet

LEMMA CountFact ==
  ASSUME HtifTypes
  PROVE  /\ host.reads \in Nat /\ host.replies \in Seq(HtifWords) /\ Keys(host.replies) \in Seq(Int)
         /\ Len(Keys(host.replies)) \in Nat /\ (host.reads = 0 => host.reads \in Nat)
         /\ \A b : One(b) \in {0, 1} /\ (One(b) = 1 <=> b)
<1>1. host.reads \in Nat /\ host.replies \in Seq(HtifWords) BY DEF HtifTypes
<1>2. Keys(host.replies) \in Seq(Int) BY <1>1, KeysType
<1>3. Len(Keys(host.replies)) \in Nat BY <1>2
<1>4. \A b : One(b) \in {0, 1} /\ (One(b) = 1 <=> b) BY DEF One
<1> QED BY <1>1, <1>2, <1>3, <1>4

LEMMA ClearStep ==
  ASSUME HtifInv, ~Off, NEW h \in Harts, hart[h].at = "clear", __check_fromhost(h)
  PROVE  HtifInv' /\ ~Off'
<1>1. HtifTypes /\ Sure /\ Running /\ OneInside /\ fifo = <<>> BY DEF HtifInv
<1>2. InCall(hart[h]) /\ Stands(hart[h]) BY <1>1 DEF Sure
<1>3. Inside(hart[h]) BY DEF Inside, HtifAt
<1>4. /\ fromhost' = Zero
      /\ Goto(h, IF fromhost.dev = 1 /\ fromhost.cmd \in {0, 1} THEN hart[h].then ELSE "assert")
      /\ console_buf' = IF fromhost.dev = 1 /\ fromhost.cmd = 0 THEN 1 + (fromhost.data % 256)
                        ELSE console_buf
      /\ UNCHANGED <<cport, calls, tohost, lock, fifo, sent, got>> /\ SameHost
  BY Zenon DEF __check_fromhost
<1>5. fromhost.dev = 1 /\ (IsKey(fromhost) \/ fromhost = Ack)
  <2>1. fromhost.dev = 1 BY <1>2 DEF Stands
  <2>2. fromhost = Zero \/ IsReply(fromhost) BY <1>1 DEF Running, WordsOk
  <2> QED BY <2>1, <2>2, WordFact DEF IsReply
<1>6. Goto(h, hart[h].then) BY ONLY <1>4, <1>5, WordFact DEF IsKey
<1>7. hart[h].then \in {"take", "set", "wait"}
  <2>1. hart[h] \in HtifFrames BY <1>1, FrameFact
  <2> QED BY <2>1, <1>2 DEF Stands, HtifFrames
<1>8. PICK f \in HtifFrames : /\ hart' = [hart EXCEPT ![h] = f]
             /\ f.at = hart[h].then /\ f.op = hart[h].op /\ f.msg = hart[h].msg /\ f.then = hart[h].then
  BY <1>1, <1>6, <1>7, GotoFact DEF HtifPlaces, HtifAt
<1>9. InCall(f) BY ONLY <1>2, <1>7, <1>8, hart[h].at = "clear" DEF InCall, HtifAt
<1>10. Stands(f)' BY ONLY <1>2, <1>7, <1>8, hart[h].at = "clear" DEF Stands
<1>11. /\ Asks(f) <=> Asks(hart[h])
       /\ Awaits(f) <=> Awaits(hart[h])
  BY ONLY <1>8, <1>7, hart[h].at = "clear" DEF Asks, Awaits
<1>12. lock = -1 /\ lock' = lock /\ cport' = cport BY <1>3, <1>4, InsideLocks
<1>13. f.at \notin {"off1", "off2"} BY <1>7, <1>8
<1>14. /\ hart' \in [Harts -> HtifFrames] /\ ~Off' /\ Sure' /\ OneInside'
       /\ (Asking' <=> Asking) /\ (Awaiting' <=> Awaiting)
  BY <1>1, <1>3, <1>8, <1>9, <1>10, <1>11, <1>12, <1>13, MoveAlone
<1>15. /\ tohost' = tohost /\ host' = host /\ sent' = sent /\ out' = out /\ typed' = typed /\ got' = got
       /\ fifo' = fifo
  BY <1>4 DEF SameHost
<1>16. fromhost \in HtifWords /\ console_buf \in Int /\ console_buf >= -1 /\ got \in Seq(Int)
  BY <1>1 DEF HtifTypes
<1>17. fromhost.data % 256 \in 0..255
  <2>1. fromhost.data \in Nat BY <1>16 DEF HtifWords
  <2> QED BY <2>1
<1>18. console_buf' \in Int /\ console_buf' >= -1 
  <2> DEFINE d == fromhost.data % 256
  <2>1. console_buf' = 1 + d \/ console_buf' = console_buf BY ONLY <1>4, Zenon
  <2>2. d \in 0..255 BY <1>17
  <2> HIDE DEF d
  <2> QED BY ONLY <2>1, <2>2, <1>16
<1>19. HtifTypes' BY ONLY <1>1, <1>4, <1>12, <1>14, <1>15, <1>18, WordFact DEF HtifTypes
<1>20. WordsOk'
  <2>1. WordsOk BY <1>1 DEF Running
  <2> QED BY ONLY <2>1, <1>4, <1>12, <1>15 DEF WordsOk, IsRequest
<1>21. SyscallAsked'
  <2>1. SyscallAsked BY <1>1 DEF Running
  <2>2. fromhost' # Answer BY <1>4, WordFact
  <2> QED BY ONLY <2>1, <2>2, <1>14, <1>15 DEF SyscallAsked, Answering, AnswerAt
<1>22. AllShown'
  <2>1. AllShown BY <1>1 DEF Running
  <2> QED BY ONLY <2>1, <1>15 DEF AllShown
<1>23. One(Asking)' = One(Asking) BY <1>14 DEF One
<1>24. ~IsKey(fromhost') BY <1>4, WordFact DEF IsKey
<1>25. KeyAsked /\ KeysKept BY <1>1 DEF Running
<1>26. CASE IsKey(fromhost)
  <2>1. /\ console_buf = -1 /\ host.reads = 0 /\ Len(Keys(host.replies)) = 0
        /\ One(Asking) = 0 /\ One(tohost = ReadWord) = 0
    <3> DEFINE a == One(Asking)
               t == One(tohost = ReadWord)
               n == host.reads
               k == Len(Keys(host.replies))
               c == One(console_buf = -1)
    <3>1. a + (t + (n + (k + One(IsKey(fromhost))))) = c BY <1>25 DEF KeyAsked, Reads
    <3>2. a \in {0, 1} /\ t \in {0, 1} /\ c \in {0, 1} /\ n \in Nat /\ k \in Nat BY <1>1, CountFact DEF One
    <3>3. One(IsKey(fromhost)) = 1 BY <1>26 DEF One
    <3>4. c = 1 <=> console_buf = -1 BY DEF One
    <3> HIDE DEF a, t, n, k, c
    <3>5. a = 0 /\ t = 0 /\ n = 0 /\ k = 0 /\ c = 1 BY ONLY <3>1, <3>2, <3>3
    <3> QED BY <3>4, <3>5 DEF a, t, n, k
  <2>2. console_buf' = 1 + (fromhost.data % 256) /\ console_buf' > 0 BY <1>4, <1>17, <1>26 DEF IsKey
  <2>3. KeyAsked'
    <3>1. One(tohost = ReadWord)' = 0 BY ONLY <1>15, <2>1 DEF One
    <3>2. One(IsKey(fromhost))' = 0 BY ONLY <1>24 DEF One, IsKey
    <3>3. One(console_buf = -1)' = 0 BY ONLY <2>2, <1>18 DEF One
    <3>4. host'.reads = 0 /\ Len(Keys(host'.replies)) = 0 BY <2>1, <1>15
    <3> QED BY ONLY <3>1, <3>2, <3>3, <3>4, <1>23, <2>1 DEF KeyAsked, Reads
  <2>4. KeysKept'
    <3>1. Buffered = <<>> BY ONLY <2>1 DEF Buffered
    <3>2. Buffered' = KeyOf(fromhost)
      <4>1. console_buf' - 1 = fromhost.data % 256 BY ONLY <2>2, <1>17
      <4>2. KeyOf(fromhost) = <<fromhost.data % 256>> BY <1>26 DEF KeyOf, IsKey
      <4> QED BY ONLY <4>1, <4>2, <2>2 DEF Buffered
    <3>3. KeyOf(fromhost') = <<>> BY <1>4, WordFact
    <3>4. KeyOf(fromhost) \in Seq(Int) BY <1>16, KeyOfType
    <3>5. got \o KeyOf(fromhost) \in Seq(Int) BY <3>4, <1>16
    <3>6. (got \o KeyOf(fromhost)) \o <<>> = (got \o <<>>) \o KeyOf(fromhost)
      BY ONLY <3>4, <3>5, <1>16, Unit, Zenon
    <3> QED BY ONLY <3>1, <3>2, <3>3, <3>6, <1>15, <1>25, Zenon DEF KeysKept
  <2> QED BY <1>1, <1>14, <1>15, <1>19, <1>20, <1>21, <1>22, <2>3, <2>4 DEF HtifInv, Running
<1>27. CASE fromhost = Ack
  <2>1. ~IsKey(fromhost) /\ console_buf' = console_buf BY <1>4, <1>27, WordFact DEF IsKey
  <2>2. KeyAsked'
    <3>1. One(tohost = ReadWord)' = One(tohost = ReadWord) BY ONLY <1>15 DEF One
    <3>2. One(IsKey(fromhost))' = One(IsKey(fromhost)) BY ONLY <1>24, <2>1 DEF One, IsKey
    <3>3. One(console_buf = -1)' = One(console_buf = -1) BY ONLY <2>1 DEF One
    <3> QED BY ONLY <3>1, <3>2, <3>3, <1>15, <1>23, <1>25 DEF KeyAsked, Reads
  <2>3. KeysKept'
    <3>1. Buffered' = Buffered BY ONLY <2>1 DEF Buffered
    <3>2. KeyOf(fromhost') = KeyOf(fromhost) BY <1>4, <1>27, WordFact
    <3> QED BY ONLY <3>1, <3>2, <1>15, <1>25, Zenon DEF KeysKept
  <2> QED BY <1>1, <1>14, <1>15, <1>19, <1>20, <1>21, <1>22, <2>2, <2>3 DEF HtifInv, Running
<1> QED BY <1>5, <1>26, <1>27

LEMMA TakeStep ==
  ASSUME HtifInv, ~Off, NEW h \in Harts, getchar(h)
  PROVE  HtifInv' /\ ~Off'
<1>1. HtifTypes /\ Sure /\ Running /\ OneInside /\ fifo = <<>> BY DEF HtifInv
<1>2. InCall(hart[h]) /\ Stands(hart[h]) BY <1>1 DEF Sure
<1>3. hart[h].at = "take" BY DEF getchar
<1>4. Inside(hart[h]) BY <1>3 DEF Inside, HtifAt
<1>5. hart[h].op = "get" /\ hart[h].msg = ReadWord BY <1>2, <1>3 DEF Stands, InCall, HtifAt
<1>6. ~Asks(hart[h]) /\ ~Awaits(hart[h]) BY <1>3 DEF Asks, Awaits
<1>7. lock' = -1 /\ lock' \in {-1, 0} BY <1>4, InsideLocks DEF getchar
<1>8. CASE ~(console_buf >= 0)
  <2>1. UNCHANGED Words /\ Goto(h, "unlock") BY <1>8, Zenon DEF getchar, SameHost, SameLines, Words
  <2>2. PICK f \in HtifFrames : /\ hart' = [hart EXCEPT ![h] = f]
             /\ f.at = "unlock" /\ f.op = hart[h].op /\ f.msg = hart[h].msg /\ f.then = hart[h].then
    BY <1>1, <2>1, GotoFact DEF HtifPlaces, HtifAt
  <2>3. InCall(f) /\ Stands(f) BY ONLY <1>5, <2>2 DEF InCall, Stands
  <2>4. ~Asks(f) /\ ~Awaits(f) /\ f.at \notin {"off1", "off2"} BY ONLY <2>2 DEF Asks, Awaits
  <2> QED BY <1>4, <1>6, <1>7, <2>1, <2>2, <2>3, <2>4, MoveQuiet
<1>9. CASE console_buf >= 0
  <2>1. /\ console_buf' = -1 /\ Goto(h, "set")
        /\ got' = IF console_buf > 0 THEN Append(got, console_buf - 1) ELSE got
    BY <1>9, Zenon DEF getchar
  <2>2. /\ tohost' = tohost /\ host' = host /\ sent' = sent /\ out' = out /\ typed' = typed /\ cport' = cport
        /\ fifo' = fifo /\ fromhost' = fromhost
    BY DEF getchar, SameHost, SameLines
  <2>3. PICK f \in HtifFrames : /\ hart' = [hart EXCEPT ![h] = f]
             /\ f.at = "set" /\ f.op = hart[h].op /\ f.msg = hart[h].msg /\ f.then = hart[h].then
    BY <1>1, <2>1, GotoFact DEF HtifPlaces, HtifAt
  <2>4. InCall(f) /\ Stands(f)' BY ONLY <1>5, <2>3 DEF InCall, Stands
  <2>5. Asks(f) /\ ~Awaits(f) /\ f.at \notin {"off1", "off2"} BY ONLY <1>5, <2>3 DEF Asks, Awaits
  <2>6. /\ hart' \in [Harts -> HtifFrames] /\ ~Off' /\ Sure' /\ OneInside'
        /\ ~Asking /\ Asking' /\ (Awaiting' <=> Awaiting)
    BY <1>1, <1>4, <1>6, <1>7, <2>2, <2>3, <2>4, <2>5, MoveAlone
  <2>7. console_buf \in Int /\ got \in Seq(Int) BY <1>1 DEF HtifTypes
  <2>8. console_buf > 0 => Append(got, console_buf - 1) = got \o <<console_buf - 1>>
        /\ Append(got, console_buf - 1) \in Seq(Int) BY ONLY <2>7
  <2>9. HtifTypes'
    <3>1. got' \in Seq(Int) BY ONLY <2>1, <2>7, <2>8, Zenon
    <3>2. console_buf' \in Int /\ console_buf' >= -1 BY ONLY <2>1
    <3> QED BY ONLY <1>1, <1>7, <2>2, <2>6, <3>1, <3>2 DEF HtifTypes
  <2>10. WordsOk'
    <3>1. WordsOk BY <1>1 DEF Running
    <3> QED BY ONLY <3>1, <2>2 DEF WordsOk, IsRequest
  <2>11. KeyAsked'
    <3>1. KeyAsked BY <1>1 DEF Running
    <3>2. One(Asking) = 0 /\ One(Asking)' = 1 BY <2>6 DEF One
    <3>3. One(console_buf = -1) = 0 /\ One(console_buf = -1)' = 1 BY <1>9, <2>1, <2>7 DEF One
    <3>4. One(tohost = ReadWord)' = One(tohost = ReadWord) BY ONLY <2>2 DEF One
    <3>5. One(IsKey(fromhost))' = One(IsKey(fromhost)) BY ONLY <2>2 DEF One, IsKey
    <3>6. One(tohost = ReadWord) \in Nat /\ One(IsKey(fromhost)) \in Nat BY DEF One
    <3>7. host.reads \in Nat /\ Len(Keys(host.replies)) \in Nat BY <1>1, CountFact
    <3> QED BY ONLY <3>1, <3>2, <3>3, <3>4, <3>5, <3>6, <3>7, <2>2 DEF KeyAsked, Reads
  <2>12. SyscallAsked'
    <3>1. SyscallAsked BY <1>1 DEF Running
    <3> QED BY ONLY <3>1, <2>2, <2>6 DEF SyscallAsked, Answering, AnswerAt
  <2>13. AllShown'
    <3>1. AllShown BY <1>1 DEF Running
    <3> QED BY ONLY <3>1, <2>2 DEF AllShown
  <2>14. KeysKept'
    <3>1. KeysKept BY <1>1 DEF Running
    <3>2. Buffered' = <<>> BY ONLY <2>1 DEF Buffered
    <3>3. got' = got \o Buffered
      <4>1. CASE console_buf > 0 BY ONLY <4>1, <2>1, <2>8, Zenon DEF Buffered
      <4>2. CASE ~(console_buf > 0) BY ONLY <4>2, <2>1, <2>7, Unit, Zenon DEF Buffered
      <4> QED BY <4>1, <4>2
    <3>4. got' \in Seq(Int) BY <2>9 DEF HtifTypes
    <3>5. got' \o Buffered' = got \o Buffered BY ONLY <3>2, <3>3, <3>4, Unit, Zenon
    <3> QED BY ONLY <3>1, <3>5, <2>2, Zenon DEF KeysKept
  <2> QED BY ONLY <1>1, <2>2, <2>6, <2>9, <2>10, <2>11, <2>12, <2>13, <2>14, Zenon DEF HtifInv, Running
<1> QED BY <1>8, <1>9

LEMMA SetStep ==
  ASSUME HtifInv, ~Off, NEW h \in Harts, hart[h].at = "set", __set_tohost(h)
  PROVE  HtifInv' /\ ~Off'
<1>1. HtifTypes /\ Sure /\ Running BY DEF HtifInv
<1>2. UNCHANGED Words /\ lock' = lock BY DEF __set_tohost, SameHost, SameLines, Words
<1>3. InCall(hart[h]) /\ Stands(hart[h]) BY <1>1 DEF Sure
<1>4. Inside(hart[h]) /\ ~Awaits(hart[h]) BY DEF Inside, HtifAt, Awaits
<1>5. lock' = -1 /\ lock' \in {-1, 0} BY <1>2, <1>4, InsideLocks
<1>6. hart[h] \in HtifFrames BY <1>1, FrameFact
<1>7. CASE fromhost # Zero /\ hart' = [hart EXCEPT ![h].at = "clear", ![h].then = "set"]
  <2> DEFINE f == [[hart[h] EXCEPT !.at = "clear"] EXCEPT !.then = "set"]
  <2>1. hart' = [hart EXCEPT ![h] = f]
    <3>1. hart' = [hart EXCEPT ![h] = [hart[h] EXCEPT !.at = "clear", !.then = "set"]] BY <1>7, Zenon
    <3>2. [hart[h] EXCEPT !.at = "clear", !.then = "set"] = f BY Zenon
    <3> QED BY ONLY <3>1, <3>2, Zenon
  <2>2. f \in HtifFrames /\ f.at = "clear" /\ f.op = hart[h].op /\ f.msg = hart[h].msg /\ f.then = "set"
    BY ONLY <1>6 DEF HtifFrames, HtifAt
  <2> HIDE DEF f
  <2>3. PICK e \in HtifFrames : e = f BY <2>2
  <2>4. fromhost.dev = 1
    <3>1. fromhost = Zero \/ IsReply(fromhost) BY <1>1 DEF Running, WordsOk
    <3>2. fromhost # Answer BY <1>4, NoAnswer
    <3> QED BY <1>7, <3>1, <3>2, WordFact DEF IsReply, IsKey
  <2>5. InCall(e) /\ Stands(e) BY ONLY <1>3, <2>2, <2>3, <2>4, hart[h].at = "set" DEF InCall, Stands, HtifAt
  <2>6. Inside(e) /\ e.at \notin {"off1", "off2"} BY ONLY <2>2, <2>3 DEF Inside, HtifAt
  <2>7. (Asks(e) <=> Asks(hart[h])) /\ ~Awaits(e)
    BY ONLY <2>2, <2>3, hart[h].at = "set" DEF Asks, Awaits
  <2>8. hart' = [hart EXCEPT ![h] = e] BY <2>1, <2>3
  <2> QED BY <1>2, <1>4, <1>5, <2>5, <2>6, <2>7, <2>8, MoveQuiet
<1>8. CASE tohost = Zero /\ Goto(h, "store")
  <2>1. PICK f \in HtifFrames : /\ hart' = [hart EXCEPT ![h] = f]
             /\ f.at = "store" /\ f.op = hart[h].op /\ f.msg = hart[h].msg /\ f.then = hart[h].then
    BY <1>1, <1>8, GotoFact DEF HtifPlaces, HtifAt
  <2>2. InCall(f) /\ Stands(f) BY ONLY <1>3, <1>8, <2>1, hart[h].at = "set" DEF InCall, Stands, HtifAt
  <2>3. Inside(f) /\ f.at \notin {"off1", "off2"} BY ONLY <2>1 DEF Inside, HtifAt
  <2>4. (Asks(f) <=> Asks(hart[h])) /\ ~Awaits(f)
    BY ONLY <2>1, hart[h].at = "set" DEF Asks, Awaits
  <2> QED BY <1>2, <1>4, <1>5, <2>1, <2>2, <2>3, <2>4, MoveQuiet
<1> QED BY <1>7, <1>8 DEF __set_tohost

LEMMA StoreStep ==
  ASSUME HtifInv, ~Off, NEW h \in Harts, hart[h].at = "store", __set_tohost(h)
  PROVE  HtifInv' /\ ~Off'
<1>1. HtifTypes /\ Sure /\ Running /\ OneInside /\ fifo = <<>> BY DEF HtifInv
<1>2. InCall(hart[h]) /\ Stands(hart[h]) BY <1>1 DEF Sure
<1>3. Inside(hart[h]) /\ ~Awaits(hart[h]) BY DEF Inside, HtifAt, Awaits
<1> DEFINE msg == hart[h].msg
           op == hart[h].op
<1>4. /\ tohost' = msg /\ sent' = sent \o Text(msg)
      /\ Goto(h, IF op = "syscall" THEN "wait" ELSE "unlock")
      /\ UNCHANGED <<cport, calls, fromhost, console_buf, lock, fifo, got>> /\ SameHost
  BY DEF __set_tohost
<1>5. /\ fromhost' = fromhost /\ host' = host /\ out' = out /\ typed' = typed /\ cport' = cport
      /\ fifo' = fifo /\ got' = got /\ console_buf' = console_buf
  BY <1>4 DEF SameHost
<1>6. msg \in HtifWords /\ tohost = Zero
  <2>1. hart[h] \in HtifFrames BY <1>1, FrameFact
  <2> QED BY <2>1, <1>2 DEF Stands, HtifFrames
<1>7. /\ op = "put" => IsPut(msg) /\ cport = "spike64"
      /\ op = "get" => msg = ReadWord
      /\ op = "syscall" => IsAsk(msg)
      /\ op \in {"put", "get", "syscall"}
  BY <1>2 DEF InCall, HtifAt
<1> DEFINE x == IF op = "syscall" THEN "wait" ELSE "unlock"
<1>8. x \in HtifPlaces /\ Goto(h, x) BY <1>4 DEF HtifPlaces, HtifAt
<1>9. PICK f \in HtifFrames : /\ hart' = [hart EXCEPT ![h] = f]
             /\ f.at = x /\ f.op = op /\ f.msg = msg /\ f.then = hart[h].then
  <2> HIDE DEF x
  <2> QED BY <1>1, <1>8, GotoFact
<1>10. InCall(f) BY ONLY <1>7, <1>9 DEF InCall
<1>11. Stands(f)' BY ONLY <1>9 DEF Stands
<1>12. lock' = -1 /\ lock' \in {-1, 0} BY <1>3, <1>4, InsideLocks
<1>13. (Asks(hart[h]) <=> op = "get") /\ ~Asks(f) /\ (Awaits(f) <=> op = "syscall")
       /\ f.at \notin {"off1", "off2"}
  BY ONLY <1>9, hart[h].at = "store" DEF Asks, Awaits
<1>14. /\ hart' \in [Harts -> HtifFrames] /\ ~Off' /\ Sure' /\ OneInside'
       /\ (Asking <=> op = "get") /\ ~Asking' /\ ~Awaiting /\ (Awaiting' <=> op = "syscall")
  BY <1>1, <1>3, <1>5, <1>9, <1>10, <1>11, <1>12, <1>13, MoveAlone
<1>15. sent \in Seq(Int) /\ out \in Seq(Int) /\ Text(msg) \in Seq(Int)
  BY <1>1, <1>6, TextType DEF HtifTypes
<1> HIDE DEF msg, op
<1>16. HtifTypes'
  <2>1. sent' \in Seq(Int) BY ONLY <1>4, <1>15
  <2> QED BY ONLY <1>1, <1>4, <1>5, <1>6, <1>12, <1>14, <2>1 DEF HtifTypes
<1>17. WordsOk'
  <2>1. WordsOk BY <1>1 DEF Running
  <2>2. IsRequest(tohost)' BY ONLY <1>4, <1>5, <1>7 DEF IsRequest, IsPut, IsAsk
  <2> QED BY ONLY <2>1, <2>2, <1>5 DEF WordsOk
<1>18. KeyAsked'
  <2>1. KeyAsked BY <1>1 DEF Running
  <2>2. One(tohost = ReadWord) = 0 BY <1>6, WordFact DEF One
  <2>3. One(tohost = ReadWord)' = One(op = "get")
    <3>1. tohost' = ReadWord <=> op = "get" BY ONLY <1>4, <1>7, WordFact DEF IsPut, IsAsk
    <3> QED BY ONLY <3>1 DEF One
  <2>4. One(Asking) = One(op = "get") /\ One(Asking)' = 0 BY ONLY <1>14 DEF One
  <2>5. One(console_buf = -1)' = One(console_buf = -1) BY ONLY <1>5 DEF One
  <2>6. One(IsKey(fromhost))' = One(IsKey(fromhost)) BY ONLY <1>5 DEF One, IsKey
  <2>7. One(op = "get") \in Nat /\ One(IsKey(fromhost)) \in Nat BY DEF One
  <2>8. host.reads \in Nat /\ Len(Keys(host.replies)) \in Nat BY <1>1, CountFact
  <2> QED BY ONLY <2>1, <2>2, <2>3, <2>4, <2>5, <2>6, <2>7, <2>8, <1>5 DEF KeyAsked, Reads
<1>19. SyscallAsked'
  <2>1. ~Answering /\ fromhost # Answer /\ SyscallAsked BY <1>1, <1>3, NoAnswer DEF Running
  <2>2. IsAsk(tohost') => op = "syscall" BY ONLY <1>4, <1>7, WordFact DEF IsPut, IsAsk
  <2> QED BY ONLY <2>1, <2>2, <1>5, <1>14 DEF SyscallAsked, Answering, AnswerAt, IsAsk
<1>20. AllShown'
  <2>1. out \o Text(tohost) = sent BY <1>1 DEF Running, AllShown
  <2>2. out = sent BY ONLY <2>1, <1>6, <1>15, WordFact, Unit, Zenon
  <2> QED BY ONLY <2>2, <1>4, <1>5, Zenon DEF AllShown
<1>21. KeysKept'
  <2>1. KeysKept BY <1>1 DEF Running
  <2> QED BY ONLY <2>1, <1>5 DEF KeysKept, Buffered
<1> QED BY ONLY <1>1, <1>5, <1>14, <1>16, <1>17, <1>18, <1>19, <1>20, <1>21, Zenon DEF HtifInv, Running

LEMMA WaitStep ==
  ASSUME HtifInv, ~Off, NEW h \in Harts, do_tohost_fromhost(h)
  PROVE  HtifInv' /\ ~Off'
<1>1. HtifTypes /\ Sure /\ Running /\ OneInside /\ fifo = <<>> BY DEF HtifInv
<1>2. InCall(hart[h]) /\ Stands(hart[h]) BY <1>1 DEF Sure
<1>3. hart[h].at = "wait" /\ fromhost # Zero BY DEF do_tohost_fromhost
<1>4. Inside(hart[h]) /\ Awaits(hart[h]) BY <1>3 DEF Inside, HtifAt, Awaits
<1>5. hart[h].op = "syscall" /\ IsAsk(hart[h].msg) BY <1>2, <1>3 DEF Stands, InCall, HtifAt
<1>6. IsReply(fromhost) BY <1>1, <1>3 DEF Running, WordsOk
<1>7. hart[h] \in HtifFrames BY <1>1, FrameFact
<1>8. lock' = -1 /\ lock' \in {-1, 0} BY <1>4, InsideLocks DEF do_tohost_fromhost
<1>9. CASE fromhost.dev = hart[h].msg.dev /\ fromhost.cmd = hart[h].msg.cmd
  <2>1. fromhost' = Zero /\ Goto(h, "unlock") BY <1>9, Zenon DEF do_tohost_fromhost
  <2>2. fromhost = Answer BY ONLY <1>5, <1>6, <1>9, WordFact DEF IsReply, IsKey, IsAsk
  <2>3. /\ tohost' = tohost /\ host' = host /\ sent' = sent /\ out' = out /\ typed' = typed /\ cport' = cport
        /\ fifo' = fifo /\ got' = got /\ console_buf' = console_buf
    BY DEF do_tohost_fromhost, SameHost
  <2>4. PICK f \in HtifFrames : /\ hart' = [hart EXCEPT ![h] = f]
             /\ f.at = "unlock" /\ f.op = hart[h].op /\ f.msg = hart[h].msg /\ f.then = hart[h].then
    BY <1>1, <2>1, GotoFact DEF HtifPlaces, HtifAt
  <2>5. InCall(f) /\ Stands(f)' BY ONLY <1>5, <2>4 DEF InCall, Stands
  <2>6. ~Asks(f) /\ ~Awaits(f) /\ f.at \notin {"off1", "off2"} BY ONLY <2>4 DEF Asks, Awaits
  <2>7. ~Asks(hart[h]) BY <1>3 DEF Asks
  <2>8. /\ hart' \in [Harts -> HtifFrames] /\ ~Off' /\ Sure' /\ OneInside'
        /\ ~Asking /\ ~Asking' /\ ~Awaiting'
    BY <1>1, <1>4, <1>8, <2>3, <2>4, <2>5, <2>6, <2>7, MoveAlone
  <2>9. HtifTypes' BY ONLY <1>1, <1>8, <2>1, <2>3, <2>8, WordFact DEF HtifTypes
  <2>10. WordsOk'
    <3>1. WordsOk BY <1>1 DEF Running
    <3> QED BY ONLY <3>1, <2>1, <2>3 DEF WordsOk, IsRequest
  <2>11. KeyAsked'
    <3>1. KeyAsked BY <1>1 DEF Running
    <3>2. One(Asking) = 0 /\ One(Asking)' = 0 BY ONLY <2>8 DEF One
    <3>3. One(console_buf = -1)' = One(console_buf = -1) BY ONLY <2>3 DEF One
    <3>4. One(tohost = ReadWord)' = One(tohost = ReadWord) BY ONLY <2>3 DEF One
    <3>5. One(IsKey(fromhost))' = 0 /\ One(IsKey(fromhost)) = 0 BY ONLY <2>1, <2>2, WordFact DEF One, IsKey
    <3> QED BY ONLY <3>1, <3>2, <3>3, <3>4, <3>5, <2>3 DEF KeyAsked, Reads
  <2>12. SyscallAsked'
    <3>1. ~IsAsk(tohost) /\ ~Answering BY <1>1, <2>2 DEF Running, SyscallAsked
    <3>2. fromhost' # Answer BY ONLY <2>1, WordFact
    <3>3. ~IsAsk(tohost)' BY ONLY <3>1, <2>3 DEF IsAsk
    <3>4. ~Answering' BY ONLY <3>1, <2>3 DEF Answering, AnswerAt
    <3> QED BY ONLY <3>2, <3>3, <3>4 DEF SyscallAsked, Answering
  <2>13. AllShown'
    <3>1. AllShown BY <1>1 DEF Running
    <3> QED BY ONLY <3>1, <2>3 DEF AllShown
  <2>14. KeysKept'
    <3>1. KeysKept BY <1>1 DEF Running
    <3>2. KeyOf(fromhost') = KeyOf(fromhost) BY ONLY <2>1, <2>2, WordFact
    <3>3. Buffered' = Buffered BY ONLY <2>3 DEF Buffered
    <3> QED BY ONLY <3>1, <3>2, <3>3, <2>3, Zenon DEF KeysKept
  <2> QED BY ONLY <1>1, <2>3, <2>8, <2>9, <2>10, <2>11, <2>12, <2>13, <2>14, Zenon DEF HtifInv, Running
<1>10. CASE ~(fromhost.dev = hart[h].msg.dev /\ fromhost.cmd = hart[h].msg.cmd)
  <2>1. hart' = [hart EXCEPT ![h].at = "clear", ![h].then = "wait"] /\ fromhost' = fromhost
    BY <1>10, Zenon DEF do_tohost_fromhost
  <2>2. UNCHANGED Words BY <2>1 DEF do_tohost_fromhost, SameHost, Words
  <2> DEFINE f == [[hart[h] EXCEPT !.at = "clear"] EXCEPT !.then = "wait"]
  <2>3. hart' = [hart EXCEPT ![h] = f]
    <3>1. hart' = [hart EXCEPT ![h] = [hart[h] EXCEPT !.at = "clear", !.then = "wait"]] BY <2>1, Zenon
    <3>2. [hart[h] EXCEPT !.at = "clear", !.then = "wait"] = f BY Zenon
    <3> QED BY ONLY <3>1, <3>2, Zenon
  <2>4. f \in HtifFrames /\ f.at = "clear" /\ f.op = hart[h].op /\ f.msg = hart[h].msg /\ f.then = "wait"
    BY ONLY <1>7 DEF HtifFrames, HtifAt
  <2> HIDE DEF f
  <2>5. PICK e \in HtifFrames : e = f BY <2>4
  <2>6. fromhost.dev = 1 BY ONLY <1>5, <1>6, <1>10, WordFact DEF IsReply, IsKey, IsAsk
  <2>7. InCall(e) /\ Stands(e) BY ONLY <1>2, <1>3, <1>5, <2>4, <2>5, <2>6 DEF InCall, Stands, HtifAt
  <2>8. Inside(e) /\ e.at \notin {"off1", "off2"} BY ONLY <2>4, <2>5 DEF Inside, HtifAt
  <2>9. ~Asks(e) /\ ~Asks(hart[h]) /\ Awaits(e) BY ONLY <1>3, <2>4, <2>5 DEF Asks, Awaits
  <2>10. hart' = [hart EXCEPT ![h] = e] BY <2>3, <2>5
  <2> QED BY <1>4, <1>8, <2>2, <2>7, <2>8, <2>9, <2>10, MoveQuiet
<1> QED BY <1>9, <1>10

-----------------------------------------------------------------------------
(* HTIF: the steps of the host.                                             *)

\* what a step of the host leaves alone
LEMMA HostMoves ==
  ASSUME HtifInv, ~Off, UNCHANGED <<cport, hart, lock>>,
         tohost' = tohost \/ tohost # Zero, fromhost' = fromhost \/ fromhost = Zero
  PROVE  ~Off' /\ Sure' /\ OneInside' /\ (Asking' <=> Asking) /\ (Awaiting' <=> Awaiting)
<1>1. ~Off' BY DEF Off
<1>2. Sure'
  <2>1. ASSUME NEW g \in Harts PROVE InCall(hart[g])' /\ Stands(hart[g])'
    <3>1. InCall(hart[g]) /\ Stands(hart[g]) BY DEF HtifInv, Sure
    <3>2. InCall(hart[g])' BY <3>1 DEF InCall
    <3>3. Stands(hart[g])' BY <3>1, WordFact DEF Stands
    <3> QED BY <3>2, <3>3
  <2> QED BY <2>1 DEF Sure
<1>3. OneInside' BY DEF HtifInv, OneInside, Inside
<1>4. (Asking' <=> Asking) /\ (Awaiting' <=> Awaiting) BY DEF Asking, Awaiting, Asks, Awaits
<1> QED BY <1>1, <1>2, <1>3, <1>4

LEMMA AppendFact ==
  ASSUME NEW ws \in Seq(HtifWords), NEW w \in HtifWords, NEW vs, vs = Append(ws, w)
  PROVE  /\ vs \in Seq(HtifWords) /\ Len(vs) = Len(ws) + 1 /\ Len(ws) \in Nat
         /\ vs[Len(ws) + 1] = w /\ \A i \in 1..Len(ws) : vs[i] = ws[i]
OBVIOUS

\* what the host adds to its replies
LEMMA TakesFact ==
  ASSUME HtifTypes, HostTakes, IsRequest(tohost)
  PROVE  /\ host'.exited \in BOOLEAN
         /\ host'.reads = host.reads + One(tohost = ReadWord)
         /\ \/ host'.replies = host.replies /\ ~IsAsk(tohost)
            \/ host'.replies = Append(host.replies, Ack) /\ ~IsAsk(tohost)
            \/ host'.replies = Append(host.replies, Answer) /\ IsAsk(tohost)
         /\ host' = [reads |-> host'.reads, replies |-> host'.replies, exited |-> host'.exited]
<1> DEFINE more(ans) == CASE tohost.dev = 1 /\ tohost.cmd = 1 -> ans
                             [] tohost.dev = 0 /\ tohost # Exit -> <<Word(0, 0, 1)>>
                             [] OTHER -> <<>>
           some == IF tohost.dev = 1 /\ tohost.cmd = 0 THEN 1 ELSE 0
<1>1. tohost # Zero /\ tohost \in HtifWords /\ tohost # Exit
  <2>1. tohost # Zero /\ tohost \in HtifWords BY DEF HostTakes, HtifTypes
  <2>2. Exit = Answer BY DEF Exit, Answer
  <2>3. tohost # Exit BY <2>1, <2>2, WordFact DEF IsRequest, IsPut, IsAsk
  <2> QED BY <2>1, <2>3
<1>2. PICK ans \in {<<>>, <<Ack>>} :
        host' = [host EXCEPT !.exited = tohost = Exit, !.reads = @ + some,
                             !.replies = @ \o more(ans)]
  BY Zenon DEF HostTakes, Ack
<1>3. host \in [reads : Nat, replies : Seq(HtifWords), exited : BOOLEAN] BY DEF HtifTypes
<1>4. some = One(tohost = ReadWord)
  <2>1. tohost.dev = 1 /\ tohost.cmd = 0 <=> tohost = ReadWord BY <1>1, WordFact DEF IsRequest, IsPut, IsAsk
  <2> QED BY <2>1 DEF One
<1>5. \/ more(ans) = <<>> /\ ~IsAsk(tohost)
      \/ more(ans) = <<Ack>> /\ ~IsAsk(tohost)
      \/ more(ans) = <<Answer>> /\ IsAsk(tohost)
  <2>1. CASE IsPut(tohost) BY <2>1 DEF IsPut, IsAsk
  <2>2. CASE IsAsk(tohost) BY <2>2, <1>1 DEF IsAsk, Answer
  <2>3. CASE tohost = ReadWord BY <2>3, WordFact DEF IsAsk
  <2> QED BY <1>1, <2>1, <2>2, <2>3 DEF IsRequest
<1> HIDE DEF more, some
<1>6. /\ host'.reads = host.reads + some /\ host'.replies = host.replies \o more(ans)
      /\ host'.exited = (tohost = Exit)
      /\ host' = [reads |-> host'.reads, replies |-> host'.replies, exited |-> host'.exited]
  BY ONLY <1>2, <1>3
<1>7. /\ host.replies \o <<>> = host.replies
      /\ host.replies \o <<Ack>> = Append(host.replies, Ack)
      /\ host.replies \o <<Answer>> = Append(host.replies, Answer)
  <2>1. \A ws \in Seq(HtifWords), w \in HtifWords : ws \o <<>> = ws /\ ws \o <<w>> = Append(ws, w) OBVIOUS
  <2> QED BY <1>3, <2>1, WordFact
<1>8. host'.exited \in BOOLEAN BY <1>6, Zenon
<1>9. \/ host'.replies = host.replies /\ ~IsAsk(tohost)
      \/ host'.replies = Append(host.replies, Ack) /\ ~IsAsk(tohost)
      \/ host'.replies = Append(host.replies, Answer) /\ IsAsk(tohost)
  BY ONLY <1>5, <1>6, <1>7, Zenon
<1> QED BY ONLY <1>4, <1>6, <1>8, <1>9, Zenon

LEMMA HostTakesStep ==
  ASSUME HtifInv, ~Off, HostTakes
  PROVE  HtifInv' /\ ~Off'
<1>1. HtifTypes /\ Running /\ fifo = <<>> BY DEF HtifInv
<1>2. /\ tohost # Zero /\ tohost' = Zero /\ out' = out \o Text(tohost)
      /\ UNCHANGED <<cport, calls, hart, fromhost, console_buf, lock, fifo, sent, typed, got>>
  BY DEF HostTakes
<1>3. IsRequest(tohost) /\ WordsOk /\ KeyAsked /\ SyscallAsked /\ AllShown /\ KeysKept
  BY <1>1 DEF Running, WordsOk
<1>4. /\ host'.exited \in BOOLEAN
      /\ host'.reads = host.reads + One(tohost = ReadWord)
      /\ \/ host'.replies = host.replies /\ ~IsAsk(tohost)
         \/ host'.replies = Append(host.replies, Ack) /\ ~IsAsk(tohost)
         \/ host'.replies = Append(host.replies, Answer) /\ IsAsk(tohost)
      /\ host' = [reads |-> host'.reads, replies |-> host'.replies, exited |-> host'.exited]
  BY <1>1, <1>3, TakesFact
<1>5. ~Off' /\ Sure' /\ OneInside' /\ (Asking' <=> Asking) /\ (Awaiting' <=> Awaiting)
  BY <1>2, HostMoves
<1>6. host.replies \in Seq(HtifWords) /\ host.reads \in Nat /\ out \in Seq(Int) /\ Text(tohost) \in Seq(Int)
  BY <1>1, TextType DEF HtifTypes
<1> DEFINE ws == host.replies
           vs == host'.replies
<1>7. vs = ws \/ vs = Append(ws, Ack) \/ vs = Append(ws, Answer) BY <1>4
<1>8. vs \in Seq(HtifWords) 
  <2>1. \A w \in HtifWords : Append(ws, w) \in Seq(HtifWords) BY ONLY <1>6
  <2>2. Append(ws, Ack) \in Seq(HtifWords) /\ Append(ws, Answer) \in Seq(HtifWords)
    BY ONLY <2>1, WordFact, Zenon
  <2> QED BY ONLY <1>6, <1>7, <2>2, Zenon
<1>9. Keys(vs) = Keys(ws)
  <2>1. Keys(ws) \in Seq(Int) BY <1>6, KeysType
  <2>2. Keys(Append(ws, Ack)) = Keys(ws) \o <<>> /\ Keys(Append(ws, Answer)) = Keys(ws) \o <<>>
    BY <1>6, WordFact, KeysAppend
  <2> QED BY ONLY <1>7, <2>1, <2>2, Unit, Zenon
<1>10. One(tohost = ReadWord) \in Nat BY DEF One
<1>11. HtifTypes'
  <2>1. host' \in [reads : Nat, replies : Seq(HtifWords), exited : BOOLEAN]
    <3>1. host'.reads \in Nat BY <1>4, <1>6, <1>10
    <3> QED BY ONLY <3>1, <1>4, <1>8
  <2>2. out' \in Seq(Int) BY ONLY <1>2, <1>6
  <2> QED BY ONLY <1>1, <1>2, <2>1, <2>2, WordFact DEF HtifTypes
<1>12. WordsOk'
  <2>1. IsRequest(tohost)' BY ONLY <1>2 DEF IsRequest
  <2>2. (fromhost = Zero \/ IsReply(fromhost))' BY ONLY <1>2, <1>3 DEF WordsOk
  <2>3. ASSUME NEW i \in 1..Len(vs) PROVE IsReply(vs[i])
    <3>1. IsReply(Ack) /\ IsReply(Answer) BY DEF IsReply
    <3>2. \A j \in 1..Len(ws) : IsReply(ws[j]) BY <1>3 DEF WordsOk
    <3>3. CASE vs = ws BY <3>2, <3>3
    <3>4. ASSUME NEW w \in {Ack, Answer}, vs = Append(ws, w) PROVE IsReply(vs[i])
      <4>1. w \in HtifWords BY WordFact
      <4>2. /\ Len(vs) = Len(ws) + 1 /\ Len(ws) \in Nat
            /\ vs[Len(ws) + 1] = w /\ \A j \in 1..Len(ws) : vs[j] = ws[j]
        BY ONLY <1>6, <3>4, <4>1, AppendFact
      <4>3. i \in 1..Len(ws) \/ i = Len(ws) + 1 BY ONLY <4>2, i \in 1..Len(vs)
      <4> QED BY ONLY <3>1, <3>2, <4>2, <4>3, w \in {Ack, Answer}
    <3> QED BY <1>7, <3>3, <3>4
  <2>4. \A i \in 1..Len(host'.replies) : IsReply(host'.replies[i]) BY <2>3
  <2> HIDE DEF vs, ws
  <2> QED BY ONLY <2>1, <2>2, <2>4, Zenon DEF WordsOk
<1>13. KeyAsked'
  <2>1. One(tohost = ReadWord)' = 0 BY ONLY <1>2, WordFact DEF One
  <2>2. One(Asking)' = One(Asking) /\ One(Asking) \in Nat BY <1>5 DEF One
  <2>3. One(console_buf = -1)' = One(console_buf = -1) BY ONLY <1>2 DEF One
  <2>4. One(IsKey(fromhost))' = One(IsKey(fromhost)) /\ One(IsKey(fromhost)) \in Nat BY ONLY <1>2 DEF One, IsKey
  <2>5. Len(Keys(host.replies)) \in Nat BY <1>1, CountFact
  <2>6. Len(Keys(host'.replies)) = Len(Keys(host.replies)) BY <1>9
  <2>7. host'.reads = host.reads + One(tohost = ReadWord) BY <1>4
  <2> QED BY ONLY <2>1, <2>2, <2>3, <2>4, <2>5, <2>6, <2>7, <1>3, <1>6, <1>10 DEF KeyAsked, Reads
<1>14. SyscallAsked'
  <2>1. fromhost' = fromhost /\ ~IsAsk(tohost') BY <1>2, WordFact DEF IsAsk
  <2> DEFINE IsAt(us, i) == i \in 1..Len(us) /\ us[i] = Answer
  <2>2. /\ (\E i \in 1..Len(ws) : IsAt(ws, i)) => Awaiting /\ fromhost # Answer /\ ~IsAsk(tohost)
        /\ \A i, j \in 1..Len(ws) : IsAt(ws, i) /\ IsAt(ws, j) => i = j
        /\ IsAsk(tohost) => Awaiting /\ fromhost # Answer
        /\ fromhost = Answer => Awaiting
    BY ONLY <1>3 DEF SyscallAsked, Answering, AnswerAt
  <2>3. /\ (\E i \in 1..Len(vs) : IsAt(vs, i)) => Awaiting /\ fromhost # Answer
        /\ \A i, j \in 1..Len(vs) : IsAt(vs, i) /\ IsAt(vs, j) => i = j
    <3>1. CASE vs = ws BY ONLY <2>2, <3>1
    <3>2. ASSUME NEW w \in {Ack, Answer}, vs = Append(ws, w), w = Answer => IsAsk(tohost)
          PROVE /\ (\E i \in 1..Len(vs) : IsAt(vs, i)) => Awaiting /\ fromhost # Answer
                /\ \A i, j \in 1..Len(vs) : IsAt(vs, i) /\ IsAt(vs, j) => i = j
      <4>1. w \in HtifWords BY WordFact
      <4>2. /\ Len(vs) = Len(ws) + 1 /\ Len(ws) \in Nat
            /\ vs[Len(ws) + 1] = w /\ \A j \in 1..Len(ws) : vs[j] = ws[j]
        BY ONLY <1>6, <3>2, <4>1, AppendFact
      <4> HIDE DEF vs, ws
      <4>3. \A i \in 1..Len(vs) : i \in 1..Len(ws) \/ i = Len(ws) + 1 BY ONLY <4>2
      <4>4. \A i \in 1..Len(vs) : IsAt(vs, i) => IsAt(ws, i) \/ (i = Len(ws) + 1 /\ w = Answer)
        BY ONLY <4>2, <4>3
      <4>5. \A i \in 1..Len(ws) : IsAt(ws, i) => w # Answer BY ONLY <2>2, <3>2
      <4> QED BY ONLY <2>2, <3>2, <4>4, <4>5
    <3>3. Ack # Answer BY WordFact
    <3> QED BY ONLY <1>4, <3>1, <3>2, <3>3
  <2> HIDE DEF vs, ws
  <2>4. Answering' = \E i \in 1..Len(vs) : IsAt(vs, i) BY DEF Answering, AnswerAt, vs
  <2>5. \A i : AnswerAt(i)' = IsAt(vs, i) BY DEF AnswerAt, vs
  <2>6. vs = host'.replies BY DEF vs
  <2> HIDE DEF IsAt
  <2> QED BY ONLY <2>1, <2>2, <2>3, <2>4, <2>5, <2>6, <1>5 DEF SyscallAsked
<1>15. AllShown'
  <2>1. Text(tohost') = <<>> BY <1>2, WordFact
  <2>2. out' \in Seq(Int) /\ out' = sent 
    <3>1. out \o Text(tohost) \in Seq(Int) BY ONLY <1>6
    <3>2. out' = out \o Text(tohost) /\ out \o Text(tohost) = sent BY ONLY <1>2, <1>3, Zenon DEF AllShown
    <3> QED BY ONLY <3>1, <3>2, Zenon
  <2> QED BY ONLY <2>1, <2>2, <1>2, Unit, Zenon DEF AllShown
<1>16. KeysKept'
  <2>1. Keys(host'.replies) = Keys(host.replies) BY <1>9
  <2>2. Buffered' = Buffered BY ONLY <1>2 DEF Buffered
  <2> QED BY ONLY <1>2, <1>3, <2>1, <2>2, Zenon DEF KeysKept
<1>17. fifo' = <<>> BY <1>1, <1>2
<1> QED BY ONLY <1>5, <1>11, <1>12, <1>13, <1>14, <1>15, <1>16, <1>17, Zenon DEF HtifInv, Running

LEMMA KeyPressedStep ==
  ASSUME HtifInv, ~Off, KeyPressed
  PROVE  HtifInv' /\ ~Off'
<1>1. HtifTypes /\ Running /\ fifo = <<>> BY DEF HtifInv
<1> DEFINE ch == 1 + (Len(typed) % 255)
<1>2. /\ typed' = Append(typed, ch)
      /\ host' = [host EXCEPT !.reads = @ - 1, !.replies = Append(@, Word(1, 0, 256 + ch))]
  BY DEF KeyPressed
<1>3. /\ host.reads > 0
      /\ UNCHANGED <<cport, calls, hart, tohost, fromhost, console_buf, lock, fifo, sent, out, got>>
  BY DEF KeyPressed
<1>4. WordsOk /\ KeyAsked /\ SyscallAsked /\ AllShown /\ KeysKept BY <1>1 DEF Running
<1>5. ~Off' /\ Sure' /\ OneInside' /\ (Asking' <=> Asking) /\ (Awaiting' <=> Awaiting)
  BY <1>3, HostMoves
<1>6. /\ host \in [reads : Nat, replies : Seq(HtifWords), exited : BOOLEAN] /\ typed \in Seq(Int)
      /\ host.replies \in Seq(HtifWords) /\ host.reads \in Nat
      /\ got \in Seq(Int) /\ fromhost \in HtifWords /\ console_buf \in Int
  BY <1>1 DEF HtifTypes
<1>7. ch \in 1..255
  <2>1. Len(typed) \in Nat BY ONLY <1>6, LenNat, Zenon
  <2>2. \A n \in Nat : 1 + (n % 255) \in 1..255 BY Z3
  <2> QED BY ONLY <2>1, <2>2, ZenonT(60)
<1> HIDE DEF ch
<1> DEFINE w == Word(1, 0, 256 + ch)
           ws == host.replies
           vs == Append(ws, w)
<1>8. /\ w \in HtifWords /\ IsKey(w) /\ w # Answer /\ KeyOf(w) = <<ch>>
  <2>1. 256 + ch \in Nat /\ (256 + ch) % 256 = ch
    <3>1. \A n \in 1..255 : 256 + n \in Nat /\ (256 + n) % 256 = n BY Z3
    <3> QED BY ONLY <1>7, <3>1
  <2>2. w \in HtifWords /\ w.dev = 1 /\ w.cmd = 0 /\ w.data = 256 + ch BY <2>1 DEF Word, HtifWords
  <2> HIDE DEF w
  <2> QED BY ONLY <2>1, <2>2, WordFact DEF IsKey, KeyOf
<1>9. /\ host'.reads = host.reads - 1 /\ host'.replies = vs
      /\ host' = [reads |-> host.reads - 1, replies |-> vs, exited |-> host.exited]
  <2> HIDE DEF w
  <2> QED BY ONLY <1>2, <1>6 DEF w
<1> HIDE DEF w
<1>10. /\ vs \in Seq(HtifWords) /\ Len(vs) = Len(ws) + 1 /\ Len(ws) \in Nat
       /\ vs[Len(ws) + 1] = w /\ \A j \in 1..Len(ws) : vs[j] = ws[j]
  BY ONLY <1>6, <1>8, AppendFact
<1>11. Keys(vs) = Keys(ws) \o <<ch>> /\ Keys(ws) \in Seq(Int)
  BY ONLY <1>6, <1>8, KeysAppend, KeysType
<1>12. Append(typed, ch) = typed \o <<ch>> /\ <<ch>> \in Seq(Int) /\ Append(typed, ch) \in Seq(Int)
  <2>1. ch \in Int BY ONLY <1>7
  <2> QED BY ONLY <1>6, <2>1, AppendInt, Zenon
<1>13. Len(Keys(vs)) = Len(Keys(ws)) + 1 /\ Len(Keys(ws)) \in Nat
  BY ONLY <1>11, <1>12
<1> HIDE DEF vs, ws
<1>14. HtifTypes'
  <2>1. host' \in [reads : Nat, replies : Seq(HtifWords), exited : BOOLEAN]
    <3>1. host.reads - 1 \in Nat BY <1>3, <1>6
    <3>2. host.exited \in BOOLEAN BY <1>6
    <3> QED BY ONLY <1>9, <1>10, <3>1, <3>2
  <2>2. typed' \in Seq(Int) BY ONLY <1>2, <1>12
  <2> QED BY ONLY <1>1, <1>3, <2>1, <2>2 DEF HtifTypes
<1>15. WordsOk'
  <2>1. \A j \in 1..Len(ws) : IsReply(ws[j]) BY <1>4 DEF WordsOk, ws
  <2>2. \A i \in 1..Len(vs) : i \in 1..Len(ws) \/ i = Len(ws) + 1 BY ONLY <1>10
  <2>3. IsReply(w) BY <1>8 DEF IsReply
  <2>4. \A i \in 1..Len(vs) : IsReply(vs[i]) BY ONLY <1>10, <2>1, <2>2, <2>3
  <2> QED BY ONLY <1>3, <1>4, <1>9, <2>4 DEF WordsOk, IsRequest
<1>16. KeyAsked'
  <2>1. One(tohost = ReadWord)' = One(tohost = ReadWord) /\ One(tohost = ReadWord) \in Nat BY ONLY <1>3 DEF One
  <2>2. One(Asking)' = One(Asking) /\ One(Asking) \in Nat BY <1>5 DEF One
  <2>3. One(console_buf = -1)' = One(console_buf = -1) BY ONLY <1>3 DEF One
  <2>4. One(IsKey(fromhost))' = One(IsKey(fromhost)) /\ One(IsKey(fromhost)) \in Nat BY ONLY <1>3 DEF One, IsKey
  <2>5. host'.reads = host.reads - 1 /\ Len(Keys(host'.replies)) = Len(Keys(host.replies)) + 1
        /\ Len(Keys(host.replies)) \in Nat
    BY <1>9, <1>13 DEF ws
  <2> QED BY ONLY <2>1, <2>2, <2>3, <2>4, <2>5, <1>4, <1>6 DEF KeyAsked, Reads
<1>17. SyscallAsked'
  <2>1. tohost' = tohost /\ fromhost' = fromhost BY <1>3
  <2>2. \A i : AnswerAt(i)' <=> AnswerAt(i)
    <3>1. \A i : i \in 1..Len(vs) /\ vs[i] = Answer <=> i \in 1..Len(ws) /\ ws[i] = Answer
      <4>1. \A i \in 1..Len(vs) : i \in 1..Len(ws) \/ i = Len(ws) + 1 BY ONLY <1>10
      <4>2. \A i \in 1..Len(ws) : i \in 1..Len(vs) BY ONLY <1>10
      <4> QED BY ONLY <4>1, <4>2, <1>8, <1>10
    <3>2. vs = host'.replies /\ ws = host.replies BY <1>9 DEF ws
    <3> QED BY ONLY <3>1, <3>2 DEF AnswerAt
  <2>3. Answering' <=> Answering
    <3>1. Answering <=> \E i : AnswerAt(i) BY DEF Answering, AnswerAt
    <3>2. Answering' <=> \E i : AnswerAt(i)' BY DEF Answering, AnswerAt
    <3> QED BY ONLY <2>2, <3>1, <3>2, Zenon
  <2>4. \A i, j : AnswerAt(i) /\ AnswerAt(j) => i = j BY <1>4 DEF SyscallAsked, AnswerAt
  <2> QED BY ONLY <1>4, <1>5, <2>1, <2>2, <2>3, <2>4 DEF SyscallAsked
<1>18. AllShown' BY ONLY <1>3, <1>4 DEF AllShown
<1>19. KeysKept'
  <2> DEFINE a == (got \o Buffered) \o KeyOf(fromhost)
  <2>1. a \in Seq(Int)
    <3>1. Buffered \in Seq(Int)
      <4>1. console_buf - 1 \in Int BY ONLY <1>6
      <4> QED BY ONLY <4>1 DEF Buffered
    <3>2. KeyOf(fromhost) \in Seq(Int) BY <1>6, KeyOfType
    <3> QED BY ONLY <3>1, <3>2, <1>6
  <2>2. Buffered' = Buffered BY ONLY <1>3 DEF Buffered
  <2>3. a \o Keys(ws) = typed BY <1>4 DEF KeysKept, ws
  <2>4. ((got' \o Buffered') \o KeyOf(fromhost')) = a BY <1>3, <2>2
  <2> HIDE DEF a
  <2>5. a \o (Keys(ws) \o <<ch>>) = (a \o Keys(ws)) \o <<ch>> BY ONLY <2>1, <1>11, <1>12, Assoc, ZenonT(60)
  <2>6. a \o Keys(vs) = typed' BY ONLY <1>2, <1>11, <1>12, <2>3, <2>5, Zenon
  <2> QED BY ONLY <1>9, <2>4, <2>6, Zenon DEF KeysKept
<1>20. fifo' = <<>> BY <1>1, <1>3
<1> QED BY ONLY <1>5, <1>14, <1>15, <1>16, <1>17, <1>18, <1>19, <1>20, Zenon DEF HtifInv, Running

LEMMA HostRepliesStep ==
  ASSUME HtifInv, ~Off, HostReplies
  PROVE  HtifInv' /\ ~Off'
<1>1. HtifTypes /\ Running /\ fifo = <<>> BY DEF HtifInv
<1>2. /\ host.replies # <<>> /\ fromhost = Zero /\ fromhost' = Head(host.replies)
      /\ host' = [host EXCEPT !.replies = Tail(@)]
      /\ UNCHANGED <<cport, calls, hart, tohost, console_buf, lock, fifo, sent, out, typed, got>>
  BY DEF HostReplies
<1>3. WordsOk /\ KeyAsked /\ SyscallAsked /\ AllShown /\ KeysKept BY <1>1 DEF Running
<1>4. ~Off' /\ Sure' /\ OneInside' /\ (Asking' <=> Asking) /\ (Awaiting' <=> Awaiting)
  BY <1>2, HostMoves
<1>5. /\ host \in [reads : Nat, replies : Seq(HtifWords), exited : BOOLEAN]
      /\ host.replies \in Seq(HtifWords) /\ host.reads \in Nat /\ got \in Seq(Int) /\ console_buf \in Int
  BY <1>1 DEF HtifTypes
<1> DEFINE ws == host.replies
           vs == Tail(ws)
           w == Head(ws)
<1>6. /\ vs \in Seq(HtifWords) /\ w \in HtifWords /\ w = ws[1] /\ 1 \in 1..Len(ws)
      /\ Len(vs) = Len(ws) - 1 /\ Len(ws) \in Nat /\ Len(vs) \in Nat
      /\ \A i \in 1..Len(vs) : i + 1 \in 1..Len(ws) /\ vs[i] = ws[i + 1]
  BY ONLY <1>2, <1>5, HeadTailProperties
<1>7. Keys(ws) = KeyOf(w) \o Keys(vs) BY <1>2, <1>5, KeysTail
<1>8. KeyOf(w) \in Seq(Int) /\ Keys(vs) \in Seq(Int) BY ONLY <1>6, KeyOfType, KeysType
<1>9. /\ host'.reads = host.reads /\ host'.replies = vs
      /\ host' = [reads |-> host.reads, replies |-> vs, exited |-> host.exited]
  BY ONLY <1>2, <1>5
<1> HIDE DEF ws, vs, w
<1>10. fromhost' = w /\ ws = host.replies BY <1>2 DEF w, ws
<1>11. HtifTypes'
  <2>1. host' \in [reads : Nat, replies : Seq(HtifWords), exited : BOOLEAN]
    <3>1. host.exited \in BOOLEAN BY <1>5
    <3> QED BY ONLY <1>5, <1>6, <1>9, <3>1
  <2> QED BY ONLY <1>1, <1>2, <1>6, <1>10, <2>1 DEF HtifTypes
<1>12. WordsOk'
  <2>1. \A j \in 1..Len(ws) : IsReply(ws[j]) BY <1>3, <1>10 DEF WordsOk
  <2>2. \A i \in 1..Len(vs) : IsReply(vs[i]) BY ONLY <1>6, <2>1
  <2>3. IsReply(w) BY ONLY <1>6, <2>1
  <2> QED BY ONLY <1>2, <1>3, <1>9, <1>10, <2>2, <2>3 DEF WordsOk, IsRequest
<1>13. KeyAsked'
  <2>1. One(tohost = ReadWord)' = One(tohost = ReadWord) /\ One(tohost = ReadWord) \in Nat BY ONLY <1>2 DEF One
  <2>2. One(Asking)' = One(Asking) /\ One(Asking) \in Nat BY <1>4 DEF One
  <2>3. One(console_buf = -1)' = One(console_buf = -1) BY ONLY <1>2 DEF One
  <2>4. One(IsKey(fromhost)) = 0 BY ONLY <1>2, WordFact DEF One, IsKey
  <2>5. One(IsKey(fromhost))' = One(IsKey(w)) BY ONLY <1>10 DEF One, IsKey
  <2>6. Len(Keys(ws)) = One(IsKey(w)) + Len(Keys(vs))
    <3>1. Len(Keys(ws)) = Len(KeyOf(w)) + Len(Keys(vs)) BY ONLY <1>7, <1>8, ConcatProperties
    <3>2. Len(KeyOf(w)) = One(IsKey(w))
      <4>1. \A d : Len(<<d>>) = 1 OBVIOUS
      <4>2. Len(<<>>) = 0 OBVIOUS
      <4> QED BY ONLY <4>1, <4>2 DEF KeyOf, One, IsKey
    <3> QED BY ONLY <3>1, <3>2
  <2>7. Len(Keys(vs)) \in Nat /\ One(IsKey(w)) \in Nat BY <1>8 DEF One
  <2> QED BY ONLY <2>1, <2>2, <2>3, <2>4, <2>5, <2>6, <2>7, <1>3, <1>5, <1>9, <1>10 DEF KeyAsked, Reads
<1>14. SyscallAsked'
  <2>1. /\ (\E i \in 1..Len(ws) : ws[i] = Answer) => Awaiting /\ ~IsAsk(tohost)
        /\ \A i, j \in 1..Len(ws) : ws[i] = Answer /\ ws[j] = Answer => i = j
        /\ IsAsk(tohost) => Awaiting
    BY ONLY <1>3, <1>10 DEF SyscallAsked, Answering, AnswerAt
  <2>2. w = Answer => Awaiting /\ ~IsAsk(tohost) BY ONLY <1>6, <2>1
  <2>3. \A i \in 1..Len(vs) : vs[i] = Answer => Awaiting /\ ~IsAsk(tohost) /\ w # Answer
    <3> TAKE i \in 1..Len(vs)
    <3>1. i + 1 \in 1..Len(ws) /\ vs[i] = ws[i + 1] /\ i + 1 # 1 BY ONLY <1>6, i \in 1..Len(vs)
    <3> QED BY ONLY <3>1, <1>6, <2>1
  <2>4. \A i, j \in 1..Len(vs) : vs[i] = Answer /\ vs[j] = Answer => i = j
    <3> TAKE i, j \in 1..Len(vs)
    <3>1. i + 1 \in 1..Len(ws) /\ vs[i] = ws[i + 1] /\ j + 1 \in 1..Len(ws) /\ vs[j] = ws[j + 1]
      BY ONLY <1>6, i \in 1..Len(vs), j \in 1..Len(vs)
    <3>2. vs[i] = Answer /\ vs[j] = Answer => i + 1 = j + 1 BY ONLY <3>1, <2>1
    <3> QED BY ONLY <3>2, i \in 1..Len(vs), j \in 1..Len(vs)
  <2>5. IsAsk(tohost)' <=> IsAsk(tohost) BY ONLY <1>2 DEF IsAsk
  <2> QED BY ONLY <2>1, <2>2, <2>3, <2>4, <2>5, <1>4, <1>9, <1>10 DEF SyscallAsked, Answering, AnswerAt
<1>15. AllShown' BY ONLY <1>2, <1>3 DEF AllShown
<1>16. KeysKept'
  <2> DEFINE a == got \o Buffered
  <2>1. a \in Seq(Int)
    <3>1. Buffered \in Seq(Int)
      <4>1. console_buf - 1 \in Int BY ONLY <1>5
      <4> QED BY ONLY <4>1 DEF Buffered
    <3> QED BY ONLY <3>1, <1>5
  <2>2. Buffered' = Buffered BY ONLY <1>2 DEF Buffered
  <2>3. (a \o KeyOf(fromhost)) \o Keys(ws) = typed BY ONLY <1>3, <1>10 DEF KeysKept
  <2>4. KeyOf(fromhost) = <<>> BY <1>2, WordFact
  <2>5. got' \o Buffered' = a BY <1>2, <2>2
  <2> HIDE DEF a
  <2>6. a \o <<>> = a BY ONLY <2>1, Unit, Zenon
  <2>7. a \o (KeyOf(w) \o Keys(vs)) = (a \o KeyOf(w)) \o Keys(vs) BY ONLY <2>1, <1>8, Assoc, Zenon
  <2>8. (a \o KeyOf(w)) \o Keys(vs) = typed' BY ONLY <1>2, <1>7, <2>3, <2>4, <2>6, <2>7, Zenon
  <2> QED BY ONLY <1>9, <1>10, <2>5, <2>8, Zenon DEF KeysKept
<1>17. fifo' = <<>> BY <1>1, <1>2
<1> QED BY ONLY <1>4, <1>11, <1>12, <1>13, <1>14, <1>15, <1>16, <1>17, Zenon DEF HtifInv, Running

-----------------------------------------------------------------------------
(* HTIF: halt.                                                              *)

LEMMA HaltBegins ==
  ASSUME HtifInv, ~Off, NEW h \in Harts, htif_poweroff(h)
  PROVE  HtifInv' /\ Off'
<1>1. HtifTypes /\ Running /\ fifo = <<>> /\ Sure BY DEF HtifInv
<1>2. hart[h].at \notin {"off1", "off2"} BY DEF Off
<1>3. (\A g \in Harts : hart[g].at = "idle") /\ Goto(h, "off1") /\ SameLines BY <1>2 DEF htif_poweroff
<1>4. UNCHANGED Words /\ lock' = lock BY <1>3 DEF htif_poweroff, SameHost, SameLines, Words
<1>5. PICK f \in HtifFrames : /\ hart' = [hart EXCEPT ![h] = f]
             /\ f.at = "off1" /\ f.op = hart[h].op /\ f.msg = hart[h].msg /\ f.then = hart[h].then
  BY <1>1, <1>3, GotoFact DEF HtifPlaces, HtifAt
<1>6. hart \in [Harts -> HtifFrames] /\ lock' \in {-1, 0} BY <1>1, <1>4 DEF HtifTypes
<1>7. hart' \in [Harts -> HtifFrames] /\ hart'[h] = f /\ \A g \in Harts \ {h} : hart'[g] = hart[g]
  BY ONLY <1>5, <1>6, h \in Harts
<1>8. \A g \in Harts : hart'[g].at \in {"idle", "off1"} BY ONLY <1>3, <1>5, <1>7
<1>9. Off' BY ONLY <1>5, <1>7, h \in Harts DEF Off
<1>10. Sure' BY ONLY <1>8 DEF Sure, InCall, Stands, HtifAt
<1>11. OneInside' BY ONLY <1>8 DEF OneInside, Inside, HtifAt
<1>12. HtifTypes' BY <1>1, <1>4, <1>6, <1>7, SameTypes, Zenon
<1>13. LastLost(Text(tohost))'
  <2>1. tohost \in HtifWords /\ out \o Text(tohost) = sent BY <1>1 DEF HtifTypes, Running, AllShown
  <2>2. Text(tohost) \in Seq(Int) /\ Len(Text(tohost)) <= 1 BY <2>1, TextType
  <2>3. cport # "spike64" => Text(tohost) = <<>>
    <3>1. ~IsAsk(tohost)
      <4>1. ~Awaiting BY <1>3 DEF Awaiting, Awaits
      <4> QED BY <1>1, <4>1 DEF Running, SyscallAsked
    <3>2. IsRequest(tohost) BY <1>1 DEF Running, WordsOk
    <3> QED BY ONLY <3>1, <3>2, WordFact DEF IsRequest
  <2> QED BY ONLY <1>4, <2>1, <2>2, <2>3 DEF LastLost, Words
<1>14. Text(tohost)' \in Seq(Int)
  <2>1. tohost' = tohost /\ tohost \in HtifWords BY <1>1, <1>4 DEF HtifTypes, Words
  <2> QED BY <2>1, TextType
<1>15. Halting' 
  <2>1. \A g \in Harts : hart'[g].at \in {"idle", "off1", "off2"} BY <1>8
  <2> QED BY ONLY <1>13, <1>14, <2>1, Zenon DEF Halting
<1>16. fifo' = <<>> BY <1>1, <1>4 DEF Words
<1> QED BY ONLY <1>9, <1>10, <1>11, <1>12, <1>15, <1>16, Zenon DEF HtifInv

\* once it has begun, nothing is left that a step of the harts relies on
LEMMA HaltedKeeps ==
  ASSUME HtifInv, Off, HtifTypes', Off', \A h \in Harts : hart'[h].at \in {"idle", "off1", "off2"},
         fifo' = fifo, NEW c \in Seq(Int), LastLost(c)'
  PROVE  HtifInv'
<1>1. Sure' BY DEF Sure, InCall, Stands, HtifAt
<1>2. OneInside' BY DEF OneInside, Inside, HtifAt
<1>3. Halting' BY Zenon DEF Halting
<1>4. fifo' = <<>> BY DEF HtifInv
<1> QED BY ONLY <1>1, <1>2, <1>3, <1>4, HtifTypes', Off', Zenon DEF HtifInv

LEMMA HaltedStep ==
  ASSUME HtifInv, Off,
         (\E h \in Harts : htif_poweroff(h)) \/ HostTakes \/ KeyPressed \/ HostReplies
  PROVE  HtifInv' /\ Off'
<1>1. HtifTypes /\ Halting BY DEF HtifInv
<1>2. PICK c \in Seq(Int) : LastLost(c) BY <1>1 DEF Halting
<1>3. \A h \in Harts : hart[h].at \in {"idle", "off1", "off2"} BY <1>1 DEF Halting
<1>4. tohost \in HtifWords /\ fromhost \in HtifWords /\ hart \in [Harts -> HtifFrames]
      /\ host \in [reads : Nat, replies : Seq(HtifWords), exited : BOOLEAN]
      /\ host.replies \in Seq(HtifWords) /\ host.reads \in Nat /\ out \in Seq(Int) /\ typed \in Seq(Int)
  BY <1>1 DEF HtifTypes
<1>5. ASSUME NEW h \in Harts, htif_poweroff(h) PROVE HtifInv' /\ Off'
  <2>1. UNCHANGED <<cport, calls, console_buf, lock, fifo, sent, got>> /\ SameHost
    BY <1>5 DEF htif_poweroff
  <2>2. hart[h].at # "idle" \/ \E g \in Harts : hart[g].at # "idle" BY DEF Off
  <2>3. \/ /\ fromhost' = Zero /\ tohost' = tohost /\ Goto(h, "off2")
        \/ /\ tohost' = Exit /\ fromhost' = fromhost /\ Goto(h, "off1")
    BY <1>5, <2>2 DEF htif_poweroff
  <2>4. PICK f \in HtifFrames : hart' = [hart EXCEPT ![h] = f] /\ f.at \in {"off1", "off2"}
    BY <1>1, <2>3, GotoFact DEF HtifPlaces, HtifAt
  <2>5. hart' \in [Harts -> HtifFrames] /\ hart'[h] = f /\ \A g \in Harts \ {h} : hart'[g] = hart[g]
    BY ONLY <1>4, <2>4, h \in Harts
  <2>6. \A g \in Harts : hart'[g].at \in {"idle", "off1", "off2"} BY ONLY <1>3, <2>4, <2>5
  <2>7. Off' BY ONLY <2>4, <2>5, h \in Harts DEF Off
  <2>8. Exit = Answer BY DEF Exit, Answer
  <2>9. tohost' \in HtifWords /\ fromhost' \in HtifWords BY ONLY <1>4, <2>3, <2>8, WordFact
  <2>10. HtifTypes' BY ONLY <1>1, <2>1, <2>5, <2>9 DEF HtifTypes, SameHost
  <2>11. LastLost(c)'
    <3>1. Text(tohost') \in {<<>>, c} BY ONLY <1>2, <2>3, <2>8, WordFact DEF LastLost
    <3> QED BY ONLY <1>2, <2>1, <3>1 DEF LastLost, SameHost
  <2> QED BY <2>1, <2>6, <2>7, <2>10, <2>11, HaltedKeeps
<1>6. ASSUME HostTakes PROVE HtifInv' /\ Off'
  <2>1. /\ tohost' = Zero /\ out' = out \o Text(tohost)
        /\ UNCHANGED <<cport, calls, hart, fromhost, console_buf, lock, fifo, sent, typed, got>>
    BY <1>6 DEF HostTakes
  <2>2. host' \in [reads : Nat, replies : Seq(HtifWords), exited : BOOLEAN]
    <3> DEFINE more(ans) == CASE tohost.dev = 1 /\ tohost.cmd = 1 -> ans
                             [] tohost.dev = 0 /\ tohost # Exit -> <<Word(0, 0, 1)>>
                             [] OTHER -> <<>>
               some == IF tohost.dev = 1 /\ tohost.cmd = 0 THEN 1 ELSE 0
    <3>1. PICK ans \in {<<>>, <<Ack>>} :
            host' = [host EXCEPT !.exited = tohost = Exit, !.reads = @ + some,
                                 !.replies = @ \o more(ans)]
      BY <1>6, Zenon DEF HostTakes, Ack
    <3>2. some \in Nat OBVIOUS
    <3>3. more(ans) \in Seq(HtifWords)
      <4>1. <<>> \in Seq(HtifWords) /\ <<Ack>> \in Seq(HtifWords) /\ <<Answer>> \in Seq(HtifWords)
        <5>1. \A w \in HtifWords : <<w>> \in Seq(HtifWords) OBVIOUS
        <5>2. <<>> \in Seq(HtifWords) OBVIOUS
        <5> QED BY ONLY <5>1, <5>2, WordFact
      <4>2. more(ans) = ans \/ more(ans) = <<Answer>> \/ more(ans) = <<>>
        BY DEF Answer
      <4> HIDE DEF more
      <4> QED BY ONLY <4>1, <4>2, ans \in {<<>>, <<Ack>>}
    <3>4. (tohost = Exit) \in BOOLEAN BY Zenon
    <3> HIDE DEF some, more
    <3>5. host.replies \o more(ans) \in Seq(HtifWords) BY ONLY <1>4, <3>3
    <3>6. host.reads + some \in Nat BY ONLY <1>4, <3>2
    <3> QED BY ONLY <1>4, <3>1, <3>4, <3>5, <3>6
  <2>3. Text(tohost) \in Seq(Int) BY <1>4, TextType
  <2>4. HtifTypes'
    <3>1. out' \in Seq(Int) BY ONLY <1>4, <2>1, <2>3
    <3> QED BY ONLY <1>1, <2>1, <2>2, <3>1, WordFact DEF HtifTypes
  <2>5. Text(tohost') = <<>> BY <2>1, WordFact
  <2>6. Off' BY <2>1 DEF Off
  <2>7. CASE Text(tohost) = <<>>
    <3>1. out' = out BY ONLY <1>4, <2>1, <2>7, Unit, Zenon
    <3>2. LastLost(c)' BY ONLY <1>2, <2>1, <2>5, <3>1 DEF LastLost
    <3> QED BY <1>3, <2>1, <2>4, <2>6, <3>2, HaltedKeeps
  <2>8. CASE Text(tohost) = c
    <3>1. out' = sent BY ONLY <1>2, <2>1, <2>8, Zenon DEF LastLost
    <3>2. sent \in Seq(Int) BY <1>1 DEF HtifTypes
    <3>3. sent' = out' \o <<>> BY ONLY <2>1, <3>1, <3>2, Unit, Zenon
    <3>4. Len(<<>>) <= 1 OBVIOUS
    <3>5. LastLost(<<>>)' BY ONLY <2>5, <3>3, <3>4 DEF LastLost
    <3>6. <<>> \in Seq(Int) OBVIOUS
    <3> QED BY <1>3, <2>1, <2>4, <2>6, <3>5, <3>6, HaltedKeeps
  <2> QED BY <1>2, <2>7, <2>8 DEF LastLost
<1>7. ASSUME KeyPressed PROVE HtifInv' /\ Off'
  <2> DEFINE ch == 1 + (Len(typed) % 255)
  <2>1. /\ typed' = Append(typed, ch)
        /\ host' = [host EXCEPT !.reads = @ - 1, !.replies = Append(@, Word(1, 0, 256 + ch))]
    BY <1>7 DEF KeyPressed
  <2>2. /\ host.reads > 0
        /\ UNCHANGED <<cport, calls, hart, tohost, fromhost, console_buf, lock, fifo, sent, out, got>>
    BY <1>7 DEF KeyPressed
  <2>3. ch \in Nat
    <3>1. Len(typed) \in Nat BY ONLY <1>4, LenNat, Zenon
    <3> QED BY ONLY <3>1
  <2> HIDE DEF ch
  <2>4. Word(1, 0, 256 + ch) \in HtifWords
    <3>1. \A n \in Nat : Word(1, 0, 256 + n) \in HtifWords BY DEF Word, HtifWords
    <3> QED BY ONLY <2>3, <3>1
  <2>5. typed' \in Seq(Int)
    <3>1. ch \in Int BY ONLY <2>3
    <3> QED BY ONLY <1>4, <2>1, <3>1, AppendInt, Zenon
  <2>6. host' \in [reads : Nat, replies : Seq(HtifWords), exited : BOOLEAN]
    <3> DEFINE w == Word(1, 0, 256 + ch)
    <3>1. host' = [host EXCEPT !.reads = @ - 1, !.replies = Append(@, w)] BY ONLY <2>1
    <3>2. w \in HtifWords BY <2>4
    <3> HIDE DEF w
    <3>3. Append(host.replies, w) \in Seq(HtifWords) BY ONLY <1>4, <3>2
    <3>4. host.reads - 1 \in Nat BY ONLY <1>4, <2>2
    <3> QED BY ONLY <1>4, <3>1, <3>3, <3>4
  <2>7. HtifTypes' BY ONLY <1>1, <2>2, <2>5, <2>6 DEF HtifTypes
  <2>8. LastLost(c)' BY ONLY <1>2, <2>2 DEF LastLost
  <2>9. Off' BY <2>2 DEF Off
  <2> QED BY <1>3, <2>2, <2>7, <2>8, <2>9, HaltedKeeps
<1>8. ASSUME HostReplies PROVE HtifInv' /\ Off'
  <2>1. /\ host.replies # <<>> /\ fromhost' = Head(host.replies)
        /\ host' = [host EXCEPT !.replies = Tail(@)]
        /\ UNCHANGED <<cport, calls, hart, tohost, console_buf, lock, fifo, sent, out, typed, got>>
    BY <1>8 DEF HostReplies
  <2>2. Head(host.replies) \in HtifWords /\ Tail(host.replies) \in Seq(HtifWords)
    BY ONLY <1>4, <2>1, HeadTailProperties
  <2>3. host' \in [reads : Nat, replies : Seq(HtifWords), exited : BOOLEAN] BY ONLY <1>4, <2>1, <2>2
  <2>4. HtifTypes' BY ONLY <1>1, <2>1, <2>2, <2>3 DEF HtifTypes
  <2>5. LastLost(c)' BY ONLY <1>2, <2>1 DEF LastLost
  <2>6. Off' BY <2>1 DEF Off
  <2> QED BY <1>3, <2>1, <2>4, <2>5, <2>6, HaltedKeeps
<1> QED BY <1>5, <1>6, <1>7, <1>8

LEMMA HtifStep == ASSUME HtifInv, [ConsolesNext]_cvars PROVE HtifInv'
<1>1. CASE UNCHANGED cvars
  <2>1. UNCHANGED Words /\ hart' = hart /\ lock' = lock BY <1>1 DEF cvars, Words
  <2>2. HtifTypes /\ hart \in [Harts -> HtifFrames] /\ lock \in {-1, 0} BY DEF HtifInv, HtifTypes
  <2>3. HtifTypes' BY <2>1, <2>2, SameTypes
  <2>4. CASE Off
    <3>1. PICK c \in Seq(Int) : LastLost(c) BY <2>4 DEF HtifInv, Halting
    <3>2. LastLost(c)' BY ONLY <2>1, <3>1 DEF LastLost, Words
    <3>3. \A h \in Harts : hart'[h].at \in {"idle", "off1", "off2"} BY <2>1, <2>4 DEF HtifInv, Halting
    <3>4. Off' /\ fifo' = fifo BY <2>1, <2>4 DEF Off, Words
    <3> QED BY <2>3, <2>4, <3>2, <3>3, <3>4, HaltedKeeps
  <2>5. CASE ~Off
    <3>1. cport' = cport /\ tohost' = tohost /\ fromhost' = fromhost BY <2>1 DEF Words
    <3>2. ~Off' /\ Sure' /\ OneInside' /\ (Asking' <=> Asking) /\ (Awaiting' <=> Awaiting)
      BY <2>1, <2>5, <3>1, HostMoves
    <3>3. Running' BY <2>1, <2>5, <3>2, SameRunning DEF HtifInv
    <3>4. fifo' = <<>> BY <2>1 DEF HtifInv, Words
    <3> QED BY ONLY <2>3, <3>2, <3>3, <3>4, Zenon DEF HtifInv
  <2> QED BY <2>4, <2>5
<1>2. cport \in {"spike32", "spike64"} /\ fifo = <<>> BY DEF HtifInv, HtifTypes
<1>3. \A h \in Harts : hart[h].at \in HtifPlaces
  <2>1. hart \in [Harts -> HtifFrames] BY DEF HtifInv, HtifTypes
  <2> QED BY <2>1 DEF HtifFrames, HtifPlaces
<1>4. ASSUME NEW h \in Harts, NEW ch \in Chars, putch(h, ch) PROVE FALSE
  BY <1>2, <1>4 DEF putch, Spike
<1>5. ASSUME NEW h \in Harts, uart_putchar(h) PROVE FALSE
  BY <1>3, <1>5 DEF uart_putchar, HtifPlaces, HtifAt
<1>6. ASSUME Transmit PROVE FALSE BY <1>2, <1>6 DEF Transmit
<1>7. CASE Off
  <2>1. \A h \in Harts : hart[h].at \in {"idle", "off1", "off2"} BY <1>7 DEF HtifInv, Halting
  <2>2. ASSUME NEW h \in Harts, NEW ch \in Chars, htif_console_putchar(h, ch) \/ htif_syscall(h, ch)
        PROVE FALSE
    BY <1>7, <2>2 DEF htif_console_putchar, htif_syscall, Call
  <2>3. ASSUME NEW h \in Harts, htif_console_getchar(h) \/ spinlock_lock(h) \/ spinlock_unlock(h)
          \/ __check_fromhost(h) \/ getchar(h) \/ __set_tohost(h) \/ do_tohost_fromhost(h)
        PROVE FALSE
    BY <1>7, <2>1, <2>3 DEF htif_console_getchar, Call, spinlock_lock, spinlock_unlock,
       __check_fromhost, getchar, __set_tohost, do_tohost_fromhost
  <2> QED BY <1>1, <1>4, <1>5, <1>6, <1>7, <2>2, <2>3, HaltedStep DEF ConsolesNext
<1>8. CASE ~Off
  <2>1. ASSUME NEW h \in Harts, NEW ch \in Chars, htif_console_putchar(h, ch) \/ htif_syscall(h, ch)
        PROVE HtifInv'
    <3>1. ch \in 1..127 BY ConsolesAssumption
    <3>2. /\ Word(0, 0, 2 * ch) \in HtifWords /\ IsAsk(Word(0, 0, 2 * ch))
          /\ Word(1, 1, ch) \in HtifWords /\ IsPut(Word(1, 1, ch))
      <4>1. 2 * ch \in Nat /\ 2 * ch > 1 /\ ch \in Nat BY <3>1
      <4>2. \A n \in Nat : /\ Word(0, 0, n) \in HtifWords /\ (n > 1 => IsAsk(Word(0, 0, n)))
                           /\ Word(1, 1, n) \in HtifWords /\ IsPut(Word(1, 1, n))
        BY DEF Word, HtifWords, IsAsk, IsPut
      <4> QED BY ONLY <4>1, <4>2
    <3>3. \/ Call(h, "syscall", Word(0, 0, 2 * ch))
          \/ Call(h, "put", Word(1, 1, ch)) /\ cport = "spike64"
      BY <2>1 DEF htif_console_putchar, htif_syscall
    <3> QED BY ONLY <1>8, <3>2, <3>3, HtifInv, h \in Harts, CallBegins
  <2>2. ASSUME NEW h \in Harts, htif_console_getchar(h) PROVE HtifInv'
    <3>1. Call(h, "get", ReadWord) BY <2>2 DEF htif_console_getchar, ReadWord
    <3> QED BY <1>8, <3>1, WordFact, CallBegins
  <2>3. ASSUME NEW h \in Harts, spinlock_lock(h) \/ spinlock_unlock(h) PROVE HtifInv'
    BY <1>8, <2>3, SpinlockStep
  <2>4. ASSUME NEW h \in Harts, __check_fromhost(h) PROVE HtifInv'
    <3>1. hart[h].at = "check" \/ hart[h].at = "clear" BY <2>4 DEF __check_fromhost
    <3> QED BY <1>8, <2>4, <3>1, CheckStep, ClearStep
  <2>5. ASSUME NEW h \in Harts, getchar(h) PROVE HtifInv' BY <1>8, <2>5, TakeStep
  <2>6. ASSUME NEW h \in Harts, __set_tohost(h) PROVE HtifInv'
    <3>1. hart[h].at = "set" \/ hart[h].at = "store" BY <2>6 DEF __set_tohost
    <3> QED BY <1>8, <2>6, <3>1, SetStep, StoreStep
  <2>7. ASSUME NEW h \in Harts, do_tohost_fromhost(h) PROVE HtifInv' BY <1>8, <2>7, WaitStep
  <2>8. ASSUME NEW h \in Harts, htif_poweroff(h) PROVE HtifInv' BY <1>8, <2>8, HaltBegins
  <2>9. ASSUME HostTakes PROVE HtifInv' BY <1>8, <2>9, HostTakesStep
  <2>10. ASSUME KeyPressed PROVE HtifInv' BY <1>8, <2>10, KeyPressedStep
  <2>11. ASSUME HostReplies PROVE HtifInv' BY <1>8, <2>11, HostRepliesStep
  <2> QED BY <1>1, <1>4, <1>5, <1>6, <2>1, <2>2, <2>3, <2>4, <2>5, <2>6, <2>7, <2>8, <2>9, <2>10, <2>11
       DEF ConsolesNext
<1> QED BY <1>7, <1>8

-----------------------------------------------------------------------------
(* Both.                                                                    *)

LEMMA ConsoleInvInit == ConsolesInit => ConsoleInv
<1> SUFFICES ASSUME ConsolesInit PROVE ConsoleInv OBVIOUS
<1>1. /\ tohost = Zero /\ fromhost = Zero /\ console_buf = 0 /\ lock = 0
      /\ host = [reads |-> 0, replies |-> <<>>, exited |-> FALSE]
      /\ fifo = <<>> /\ sent = <<>> /\ out = <<>> /\ typed = <<>> /\ got = <<>>
      /\ hart = [h \in Harts |-> Idle] /\ cport \in {"spike32", "spike64", "ysyxsoc", "nutshell"}
  BY ConsolesAssumption DEF ConsolesInit
<1>2. <<>> \in Seq(Int) /\ <<>> \in Seq(HtifWords) /\ Len(<<>>) = 0 OBVIOUS
<1>3. <<>> \o <<>> = <<>> BY ONLY <1>2, Unit, Zenon
<1>4. CASE cport \in {"spike32", "spike64"}
  <2>1. Idle \in HtifFrames BY WordFact DEF Idle, HtifFrames
  <2>2. host.reads = 0 /\ host.replies = <<>> BY <1>1
  <2>3. HtifTypes
    <3>1. host \in [reads : Nat, replies : Seq(HtifWords), exited : BOOLEAN] BY ONLY <1>1, <1>2
    <3> QED BY ONLY <1>1, <1>2, <1>4, <2>1, <3>1, WordFact DEF HtifTypes
  <2>4. \A h \in Harts : hart[h].at = "idle" BY <1>1, IdleFact
  <2>5. Sure BY ONLY <2>4 DEF Sure, InCall, Stands, HtifAt
  <2>6. OneInside BY ONLY <2>4 DEF OneInside, Inside, HtifAt
  <2>7. ~Off BY ONLY <2>4 DEF Off
  <2>8. ~Asking /\ ~Awaiting BY ONLY <2>4 DEF Asking, Awaiting, Asks, Awaits
  <2>9. WordsOk BY ONLY <1>1, <1>2, <2>2 DEF WordsOk, IsRequest
  <2>10. KeyAsked
    <3>1. One(Asking) = 0 /\ One(tohost = ReadWord) = 0 /\ One(IsKey(fromhost)) = 0 /\ One(console_buf = -1) = 0
      BY ONLY <1>1, <2>8, WordFact DEF One, IsKey
    <3>2. Len(Keys(host.replies)) = 0 BY ONLY <1>2, <2>2, KeysEmpty
    <3> QED BY ONLY <2>2, <3>1, <3>2 DEF KeyAsked, Reads
  <2>11. SyscallAsked BY ONLY <1>1, <1>2, <2>2, WordFact DEF SyscallAsked, Answering, AnswerAt, IsAsk
  <2>12. AllShown BY ONLY <1>1, <1>3, WordFact DEF AllShown
  <2>13. KeysKept
    <3>1. Buffered = <<>> BY ONLY <1>1 DEF Buffered
    <3> QED BY ONLY <1>1, <1>3, <2>2, <3>1, KeysEmpty, WordFact DEF KeysKept
  <2>14. HtifInv BY ONLY <1>1, <2>3, <2>5, <2>6, <2>7, <2>9, <2>10, <2>11, <2>12, <2>13, Zenon DEF HtifInv, Running
  <2> QED BY <1>4, <2>14 DEF ConsoleInv
<1>5. CASE cport \notin {"spike32", "spike64"}
  <2>1. hart[Writer] = Idle BY <1>1, WriterFact
  <2>2. UartAt(hart[Writer]) BY ONLY <1>1, <1>3, <2>1 DEF UartAt
  <2>3. hart = [h \in Harts |-> IF h = Writer THEN hart[Writer] ELSE Idle] BY <1>1, <2>1
  <2>4. UartInv BY ONLY <1>1, <1>2, <1>5, <2>2, <2>3 DEF UartInv
  <2> QED BY <1>5, <2>4 DEF ConsoleInv
<1> QED BY <1>4, <1>5

LEMMA ConsoleInvStep == ASSUME ConsoleInv, [ConsolesNext]_cvars PROVE ConsoleInv'
<1>1. CASE cport \in {"spike32", "spike64"}
  <2>1. HtifInv' BY <1>1, HtifStep DEF ConsoleInv
  <2>2. cport' \in {"spike32", "spike64"} BY <2>1 DEF HtifInv, HtifTypes
  <2> QED BY <2>1, <2>2 DEF ConsoleInv
<1>2. CASE cport \notin {"spike32", "spike64"}
  <2>1. UartInv' BY <1>2, UartStep DEF ConsoleInv
  <2>2. cport' \notin {"spike32", "spike64"} BY <2>1 DEF UartInv
  <2> QED BY <2>1, <2>2 DEF ConsoleInv
<1> QED BY <1>1, <1>2

(* HTIF: the spin lock lets one hart in; a key is asked for exactly while     *)
(* console_buf is -1; a system call has one answer, which its caller waits    *)
(* for; whatever was stored and typed is on its way.  The UARTs: one writer,   *)
(* which stores no character in a full queue.                                *)
THEOREM ConsolesInvariant == ConsoleSpec => []ConsoleInv
<1>1. ConsoleInv /\ [ConsolesNext]_cvars => ConsoleInv' BY ConsoleInvStep
<1> QED BY ConsoleInvInit, <1>1, PTL DEF ConsoleSpec

LEMMA ConsoleInvFaithful == ASSUME ConsoleInv PROVE ConsoleFaithful
<1> DEFINE msgs == UNION {{hart[h].msg} : h \in {g \in Harts : hart[g].at \in {"poll", "tx"}}}
<1>1. CASE cport \in {"spike32", "spike64"}
  <2>1. HtifInv BY <1>1 DEF ConsoleInv
  <2>2. \A h \in Harts : hart[h].at \in HtifPlaces
    <3>1. hart \in [Harts -> HtifFrames] BY <2>1 DEF HtifInv, HtifTypes
    <3> QED BY <3>1 DEF HtifFrames, HtifPlaces
  <2>3. \A h \in Harts : hart[h].at \notin {"poll", "tx", "assert"} BY ONLY <2>2 DEF HtifPlaces, HtifAt
  <2>4. msgs = {} BY ONLY <2>3
  <2>5. out \in Seq(Int) /\ sent \in Seq(Int) /\ fifo = <<>> /\ got \in Seq(Int) /\ tohost \in HtifWords
    BY <2>1 DEF HtifInv, HtifTypes
  <2>6. CASE Off
    <3>1. PICK c \in Seq(Int) : LastLost(c) BY <2>1, <2>6 DEF HtifInv, Halting
    <3>2. sent = out \o c /\ Len(c) <= 1 /\ (cport # "spike64" => c = <<>>) BY <3>1 DEF LastLost
    <3>3. Len(sent) = Len(out) + Len(c) /\ Len(out) \in Nat /\ Len(c) \in Nat BY ONLY <2>5, <3>2
    <3>4. cport # "spike64" => Len(c) = 0 BY <3>2
    <3>5. Len(sent) - Len(out) \in 0..(IF cport = "spike64" THEN 1 ELSE 0) BY ONLY <3>2, <3>3, <3>4
    <3>6. out = SubSeq(sent, 1, Len(out)) BY ONLY <2>5, <3>2
    <3> QED BY <2>3, <2>6, <3>5, <3>6 DEF ConsoleFaithful
  <2>7. CASE ~Off
    <3>1. AllShown /\ KeysKept BY <2>1, <2>7 DEF HtifInv, Running
    <3>2. (out \o fifo) \o Text(tohost) = sent BY ONLY <2>5, <3>1, Unit, Zenon DEF AllShown
    <3>3. ((got \o (IF console_buf > 0 THEN <<console_buf - 1>> ELSE <<>>)) \o KeyOf(fromhost))
            \o Keys(host.replies) = typed BY <3>1 DEF KeysKept, Buffered
    <3> HIDE DEF msgs
    <3> QED BY ONLY <2>3, <2>4, <2>7, <3>2, <3>3 DEF ConsoleFaithful, msgs
  <2> QED BY <2>6, <2>7
<1>2. CASE cport \notin {"spike32", "spike64"}
  <2>1. UartInv BY <1>2 DEF ConsoleInv
  <2>2. \A h \in Harts : hart[h].at \in {"idle", "poll", "tx"} /\ (hart[h].at # "idle" => h = Writer)
    BY <2>1, UartPlace
  <2>3. ~Off /\ \A h \in Harts : hart[h].at # "assert" BY ONLY <2>2 DEF Off
  <2>4. /\ tohost = Zero /\ fromhost = Zero /\ console_buf = 0 /\ host.replies = <<>>
        /\ typed = <<>> /\ got = <<>> /\ out \in Seq(Int) /\ fifo \in Seq(Int) /\ UartAt(hart[Writer])
    BY <2>1 DEF UartInv
  <2>5. ((got \o (IF console_buf > 0 THEN <<console_buf - 1>> ELSE <<>>)) \o KeyOf(fromhost))
          \o Keys(host.replies) = typed
    <3>1. KeyOf(fromhost) = <<>> /\ Keys(host.replies) = <<>> BY <2>4, WordFact, KeysEmpty
    <3>2. <<>> \o <<>> = <<>>
      <4>1. <<>> \in Seq(Int) OBVIOUS
      <4> QED BY ONLY <4>1, Unit, Zenon
    <3>3. (IF console_buf > 0 THEN <<console_buf - 1>> ELSE <<>>) = <<>> BY <2>4
    <3> QED BY ONLY <2>4, <3>1, <3>2, <3>3, Zenon
  <2>6. (out \o fifo) \o Text(tohost) = out \o fifo
    <3>1. Text(tohost) = <<>> /\ out \o fifo \in Seq(Int) BY <2>4, WordFact
    <3> QED BY ONLY <3>1, Unit, Zenon
  <2>7. CASE hart[Writer].at = "idle"
    <3>1. out \o fifo = sent BY ONLY <2>4, <2>7, UartCase
    <3>2. msgs = {} BY ONLY <2>2, <2>7
    <3> HIDE DEF msgs
    <3> QED BY ONLY <2>3, <2>5, <2>6, <3>1, <3>2 DEF ConsoleFaithful, msgs
  <2>8. CASE hart[Writer].at # "idle"
    <3>1. (out \o fifo) \o hart[Writer].msg = sent
      <4>1. PICK rest \in Seq(Int) \ {<<>>}, at \in {"poll", "tx"} :
              hart[Writer].msg = rest /\ (out \o fifo) \o rest = sent
        BY ONLY <2>4, <2>8, UartCase, Zenon
      <4> QED BY ONLY <4>1, Zenon
    <3>2. hart[Writer].msg \in msgs BY ONLY <2>2, <2>8, WriterFact
    <3> HIDE DEF msgs
    <3>3. msgs # {} /\ \E rest \in msgs : ((out \o fifo) \o Text(tohost)) \o rest = sent
      BY ONLY <2>6, <3>1, <3>2, Zenon
    <3> QED BY ONLY <2>3, <2>5, <3>3 DEF ConsoleFaithful, msgs
  <2> QED BY <2>7, <2>8
<1> QED BY <1>1, <1>2

(* For any number of harts, any characters, calls and keys: what is written   *)
(* is shown, whole and in order, and every key is returned once, in order;     *)
(* the assertions of __check_fromhost hold; only poweroff may lose anything,   *)
(* and on spike64 alone, one character.                                       *)
THEOREM ConsolesFaithful == ConsoleSpec => []ConsoleFaithful
<1>1. ConsoleInv => ConsoleFaithful BY ConsoleInvFaithful
<1> QED BY ConsolesInvariant, <1>1, PTL
=============================================================================
