------------------------------- MODULE NemuAudio -------------------------------
(***************************************************************************)
(* The sound driver of the nemu platform and the device it shares a ring   *)
(* buffer and a COUNT register with.  am/src/platform/nemu/ioe: audio.c,   *)
(* ioe.c.  The device runs in a thread of the emulator, and both update    *)
(* COUNT without a lock, as a comment of the driver notes.                 *)
(***************************************************************************)
EXTENDS Integers, Sequences

CONSTANTS
    SbufSize,   \* the AUDIO_SBUF_SIZE register
    Word,       \* bytes per outl, 4 in the code
    Lens,       \* lengths of the buffers the application plays
    MaxPlay,    \* most bytes the speaker asks for at once
    K           \* bytes are numbered modulo K

\* the ring is a whole number of words
ASSUME SizeAssumption == /\ SbufSize \in Nat \ {0} /\ Word \in Nat \ {0}
                         /\ SbufSize % Word = 0
ASSUME LensAssumption == Lens \subseteq Nat \ {0} /\ MaxPlay \in Nat
ASSUME KAssumption == K \in Nat /\ K > 2 * SbufSize

VARIABLES
    pc,         \* where __am_audio_play is
    len, pos,   \* its len and its loop variable i
    size,       \* cfg_now.bufsize
    last_write,
    tmp,        \* what inl(AUDIO_COUNT_ADDR) returned
    count,      \* the COUNT register
    sbuf,       \* contents of the ring buffer: byte numbers, Junk for none
    rd,         \* where the device reads next
    wr,         \* number of the next byte the application submits
    head,       \* number of the next byte the device should play
    out,        \* the bytes the speaker got last
    slipped,    \* has COUNT ever gone wrong?
    drift       \* by how much: what COUNT has too much, modulo the ring

Junk == K
driver == <<pc, len, pos, size, last_write, tmp, wr>>
device == <<rd, head, out>>
slip == <<slipped, drift>>
vars == <<driver, device, count, sbuf, slip>>

Init ==
    /\ pc = "idle"
    /\ len = 0 /\ pos = 0 /\ size = 0 /\ last_write = 0 /\ tmp = 0
    /\ count = 0
    /\ sbuf = [a \in 0 .. SbufSize - 1 |-> 0]
    /\ rd = 0 /\ wr = 0 /\ head = 0 /\ out = <<>>
    /\ slipped = FALSE /\ drift = 0

(* __am_audio_init.  Nothing in the repository calls it; an application    *)
(* may, and nothing obliges it to.                                         *)
AudioInit ==
    /\ pc = "idle"
    /\ size' = SbufSize
    /\ UNCHANGED <<pc, len, pos, last_write, tmp, wr, device, count, sbuf, slip>>

-----------------------------------------------------------------------------
(* __am_audio_play *)
AudioPlay ==
    /\ pc = "idle"
    /\ len' \in Lens
    /\ pc' = "wait"
    /\ pos' = 0
    /\ UNCHANGED <<size, last_write, tmp, wr, device, count, sbuf, slip>>

(* for (; count + len > size; count = inl(AUDIO_COUNT_ADDR)); size is      *)
(* cfg_now.bufsize, 0 until __am_audio_init.                               *)
WaitFull ==            \* mutant: >= in place of >
    /\ pc = "wait" /\ count + len < size
    /\ pc' = "copy"
    /\ UNCHANGED <<len, pos, size, last_write, tmp, wr, device, count, sbuf, slip>>
Wait ==
    /\ pc = "wait" /\ count + len <= size
    /\ pc' = "copy"
    /\ UNCHANGED <<len, pos, size, last_write, tmp, wr, device, count, sbuf, slip>>

(* One outl of the copy loop: Word bytes at last_write, also beyond the    *)
(* end of the sound when that is not a whole number of words.              *)
Copy ==
    /\ pc = "copy" /\ pos < len
    /\ sbuf' = [a \in 0 .. SbufSize - 1 |->
                  IF a \in last_write .. last_write + Word - 1
                  THEN IF pos + (a - last_write) < len
                       THEN (wr + pos + (a - last_write)) % K ELSE Junk
                  ELSE sbuf[a]]
    /\ last_write' = (last_write + Word) % size
    /\ pos' = pos + Word
    /\ slipped' = (slipped \/ pos + Word > len)
    /\ UNCHANGED <<pc, len, size, tmp, wr, device, count, drift>>

(* inl(AUDIO_COUNT_ADDR) + len *)
ReadCountEarly ==      \* mutant: the loop ends one word early
    /\ pc = "copy" /\ pos + Word >= len
    /\ tmp' = count
    /\ pc' = "count"
    /\ UNCHANGED <<len, pos, size, last_write, wr, device, count, sbuf, slip>>
ReadCount ==
    /\ pc = "copy" /\ pos >= len
    /\ tmp' = count
    /\ pc' = "count"
    /\ UNCHANGED <<len, pos, size, last_write, wr, device, count, sbuf, slip>>

(* outl(AUDIO_COUNT_ADDR, ...).  COUNT falls behind last_write when that   *)
(* was moved by a whole number of words and COUNT was not.                 *)
WriteCount ==
    /\ pc = "count"
    /\ count' = tmp + len
    /\ wr' = (wr + len) % K
    /\ drift' = (drift + len - pos) % SbufSize
    /\ pc' = "idle"
    /\ UNCHANGED <<len, pos, size, last_write, tmp, device, sbuf, slipped>>

-----------------------------------------------------------------------------
(* The device: at most COUNT bytes go to the speaker, then silence.  What  *)
(* it subtracts from COUNT between the driver's read and its write is lost.*)
DevicePlay ==
    /\ \E want \in 1 .. MaxPlay :
         LET n == IF want < count THEN want ELSE count
         IN  /\ out' = [k \in 1 .. n |-> sbuf[(rd + k - 1) % SbufSize]]
             /\ rd' = (rd + n) % SbufSize
             /\ head' = (head + n) % K
             /\ count' = count - n
             /\ drift' = IF pc = "count" THEN (drift + n) % SbufSize ELSE drift
             /\ slipped' = (slipped \/ (pc = "count" /\ n > 0))
    /\ UNCHANGED <<driver, sbuf>>

PlayStep == Wait \/ Copy \/ ReadCount \/ WriteCount
Next == AudioInit \/ AudioPlay \/ PlayStep \/ DevicePlay

(* The CPU runs, and the speaker never stops asking for bytes. *)
Spec == Init /\ [][Next]_vars
FairSpec == Spec /\ WF_vars(PlayStep) /\ WF_vars(DevicePlay)

-----------------------------------------------------------------------------
(* Every variable has its type; COUNT never exceeds the buffer, whatever   *)
(* was lost.                                                               *)
TypeOK ==
    /\ pc \in {"idle", "wait", "copy", "count"}
    /\ len \in Lens \cup {0} /\ pos \in 0 .. SbufSize + Word
    /\ size \in {0, SbufSize} /\ last_write \in 0 .. SbufSize - 1
    /\ tmp \in 0 .. SbufSize /\ count \in 0 .. SbufSize
    /\ sbuf \in [0 .. SbufSize - 1 -> 0 .. K]
    /\ rd \in 0 .. SbufSize - 1 /\ {wr, head} \subseteq 0 .. K - 1
    /\ slipped \in BOOLEAN /\ drift \in 0 .. SbufSize - 1

(* COUNT, as the driver last saw it, is the distance from the device's     *)
(* place in the ring to the driver's, without what is copied and not yet   *)
(* counted, but for the drift.                                             *)
Counted == IF pc = "count" THEN tmp ELSE count
Uncounted == IF pc \in {"copy", "count"} THEN pos ELSE 0
CountLaw == (Counted + rd + Uncounted - last_write - drift) % SbufSize = 0

(* Until COUNT first goes wrong driver and device are a stream: what the   *)
(* speaker gets is what the application played, in order, without gaps or  *)
(* repetitions.  COUNT goes wrong in two ways and no other: the device     *)
(* plays while the driver updates it, or a sound is not a whole number of  *)
(* words; from then on it differs from the places in the ring by exactly   *)
(* the bytes of both kinds.  Even so it stays within the ring.             *)
Stream == INSTANCE AudioStream WITH MaxChunk <- SbufSize, queued <- count
StreamSpec ==
    /\ Stream!Init
    /\ [][~slipped' => Stream!Next]_<<head, count, out>>
    /\ [](TypeOK /\ CountLaw /\ (~slipped => drift = 0))

(* AM_AUDIO_PLAY returns exactly if the sound fits into what the driver    *)
(* takes for the device's buffer: nothing at all as long as nobody has     *)
(* called __am_audio_init.                                                 *)
PlayEnds ==
    /\ (pc = "wait" /\ len <= size) ~> pc = "idle"
    /\ [][pc = "wait" /\ len > size => pc' = "wait"]_vars
=============================================================================
