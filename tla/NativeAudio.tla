----------------------------- MODULE NativeAudio ------------------------------
(***************************************************************************)
(* Sound on native (native/ioe/audio.c): AM_AUDIO_PLAY writes to a pipe,   *)
(* SDL's audio thread calls audio_play, which reads it.  Both update count *)
(* without a lock, and audio_play reads it twice: drift adds up by how much *)
(* lost updates have moved it, spoilt counts the reads and writes that      *)
(* damage the sound.  Bytes are numbered modulo AudioK.                    *)
(***************************************************************************)
EXTENDS Integers, Sequences

CONSTANTS PipeSize, PIPE_BUF,   \* of the pipe; a write of up to PIPE_BUF is whole or fails
          PlayLens,             \* lengths of the application's buffers
          CallbackLens,         \* and of SDL's
          AudioK,
          MaxDrift, MaxSpoilt   \* a behaviour ends behind these

ASSUME NativeAudioAssumption ==
  /\ PipeSize \in Nat /\ PIPE_BUF \in 1..PipeSize /\ PlayLens \subseteq Nat \ {0} /\ CallbackLens \subseteq Nat \ {0}
  /\ AudioK \in Nat /\ AudioK > 2 * PipeSize /\ MaxDrift \in Nat /\ MaxSpoilt \in Nat

VARIABLES pipe, count,
          opened,        \* __am_audio_ctrl was called
          stranded,      \* how many bytes were in the pipe then
          play, cb,      \* the running calls of audio_write and audio_play
          stream,        \* SDL's buffer
          submitted, heard, headno,    \* the next byte to submit; what the speaker got last; the next to play
          drift, spoilt

avars == <<pipe, count, opened, stranded, play, cb, stream, submitted, heard, headno, drift, spoilt>>

Silence == -1
Stale == -2

NoPlay == [at |-> "idle", len |-> 0, nwrite |-> 0, n |-> 0, tmp |-> 0]
NoCallback == [at |-> "idle", len |-> 0, nread |-> 0, b |-> 0, tmp |-> 0]

NativeAudioInit ==
  /\ pipe = <<>> /\ count = 0 /\ opened = FALSE /\ stranded = 0
  /\ play = NoPlay /\ cb = NoCallback
  /\ stream = <<>> /\ submitted = 0 /\ heard = <<>> /\ headno = 0
  /\ drift = 0 /\ spoilt = 0

\* once, before or after the first sound
__am_audio_ctrl ==
  /\ ~opened /\ play.at = "idle" /\ opened' = TRUE
  /\ count' = 0 /\ stranded' = Len(pipe)
  /\ UNCHANGED <<pipe, play, cb, stream, submitted, heard, headno, drift, spoilt>>

__am_audio_play ==
  /\ play.at = "idle"
  /\ \E len \in PlayLens : play' = [NoPlay EXCEPT !.at = "write", !.len = len]
  /\ UNCHANGED <<pipe, count, opened, stranded, cb, stream, submitted, heard, headno, drift, spoilt>>

Write(len) == LET room == PipeSize - Len(pipe)
              IN IF len <= room THEN len ELSE IF len <= PIPE_BUF THEN 0 ELSE room

\* always from the start of the buffer
audio_write ==
  \/ /\ play.at = "write" /\ play.nwrite < play.len
     /\ LET n == Write(play.len)
        IN /\ pipe' = pipe \o [i \in 1..n |-> (submitted + i - 1) % AudioK]
           /\ play' = [play EXCEPT !.n = n, !.at = "load"]
           /\ spoilt' = IF play.nwrite > 0 /\ n > 0 THEN spoilt + 1 ELSE spoilt
     /\ UNCHANGED <<count, opened, stranded, cb, stream, submitted, heard, headno, drift>>
  \/ /\ play.at = "load" /\ play' = [play EXCEPT !.tmp = count, !.at = "store"]
     /\ UNCHANGED <<pipe, count, opened, stranded, cb, stream, submitted, heard, headno, drift, spoilt>>
  \/ /\ play.at = "store" /\ count' = play.tmp + play.n
     /\ play' = [play EXCEPT !.nwrite = @ + play.n, !.n = 0, !.tmp = 0, !.at = "write"]
     /\ drift' = drift + (play.tmp - count)
     /\ UNCHANGED <<pipe, opened, stranded, cb, stream, submitted, heard, headno, spoilt>>
  \/ /\ play.at = "write" /\ play.nwrite >= play.len
     /\ play' = NoPlay /\ submitted' = (submitted + play.len) % AudioK
     /\ UNCHANGED <<pipe, count, opened, stranded, cb, stream, heard, headno, drift, spoilt>>

Callback ==
  /\ opened /\ cb.at = "idle"
  /\ \E len \in CallbackLens :
       /\ cb' = [NoCallback EXCEPT !.at = "test", !.len = len, !.nread = len]
       /\ stream' = [i \in 1..len |-> Stale]
  /\ UNCHANGED <<pipe, count, opened, stranded, play, submitted, heard, headno, drift, spoilt>>

\* mutant: what is left of SDL's buffer is not cleared
memset_streamOff == stream

\* memset(stream + nread, 0, len - nread)
memset_stream == [i \in 1..Len(stream) |-> IF i > cb.nread THEN Silence ELSE stream[i]]

\* the bytes of s that are no silence
Sounds(s) == LET f[i \in 0..Len(s)] == IF i = 0 THEN <<>>
                                       ELSE IF s[i] = Silence THEN f[i-1] ELSE Append(f[i-1], s[i])
             IN f[Len(s)]

audio_play ==
  \/ /\ cb.at = "test" /\ cb' = [cb EXCEPT !.at = IF count < cb.len THEN "fetch" ELSE "read"]
     /\ UNCHANGED <<pipe, count, stream, heard, headno, drift, spoilt>>
  \/ /\ cb.at = "fetch" /\ cb' = [cb EXCEPT !.nread = count, !.at = "read"]
     /\ UNCHANGED <<pipe, count, stream, heard, headno, drift, spoilt>>
  \/ /\ cb.at = "read" /\ cb.b < cb.nread /\ pipe # <<>>     \* read() of an empty pipe fails
     /\ LET n == IF Len(pipe) < cb.nread THEN Len(pipe) ELSE cb.nread
            size == IF n > Len(stream) THEN n ELSE Len(stream)
        IN /\ stream' = [i \in 1..size |-> IF i <= n THEN pipe[i] ELSE stream[i]]
           /\ pipe' = SubSeq(pipe, n + 1, Len(pipe)) /\ cb' = [cb EXCEPT !.b = @ + n]
           /\ spoilt' = IF cb.b > 0 \/ n > Len(stream) THEN spoilt + 1 ELSE spoilt
     /\ UNCHANGED <<count, heard, headno, drift>>
  \/ /\ cb.at = "read" /\ cb.b >= cb.nread /\ cb' = [cb EXCEPT !.tmp = count, !.at = "store"]
     /\ UNCHANGED <<pipe, count, stream, heard, headno, drift, spoilt>>
  \/ /\ cb.at = "store" /\ count' = cb.tmp - cb.nread /\ cb' = [cb EXCEPT !.tmp = 0, !.at = "fill"]
     /\ drift' = drift + (cb.tmp - count) + (cb.b - cb.nread)
     /\ UNCHANGED <<pipe, stream, heard, headno, spoilt>>
  \/ /\ cb.at = "fill"
     /\ heard' = Sounds(memset_stream) /\ headno' = (headno + Len(heard')) % AudioK
     /\ cb' = NoCallback /\ stream' = <<>>
     /\ UNCHANGED <<pipe, count, drift, spoilt>>

\* what a program does that wrote behind SDL's buffer is not defined
NativeAudioNext ==
  /\ drift <= MaxDrift /\ spoilt <= MaxSpoilt /\ Len(stream) <= cb.len
  /\ \/ __am_audio_ctrl \/ __am_audio_play \/ audio_write \/ Callback
     \/ audio_play /\ UNCHANGED <<opened, stranded, play, submitted>>

-----------------------------------------------------------------------------
(* What AM_AUDIO_STATUS reports between two calls is what waits in the pipe,   *)
(* but for the bytes played before __am_audio_ctrl, which stay there for ever, *)
(* and for drift: what the two threads lost of each other's increments (< 0)   *)
(* and decrements (> 0), and what audio_play read beyond what it asked for.    *)
CountsPipe == play.at \in {"idle", "write"} /\ cb.at \in {"idle", "test", "fetch"}
                => count = Len(pipe) - stranded + drift

(* Sound is damaged for three reasons only.  audio_write begins again at the   *)
(* start of its buffer, but only if the buffer is longer than PIPE_BUF.        *)
(* audio_play begins again at the start of SDL's buffer, but only if lost      *)
(* decrements let it ask for more than the pipe has, what is stranded there    *)
(* included.  And it writes behind SDL's buffer, but only if count has grown   *)
(* between its test and its second look.                                       *)
Reasons ==
  /\ play.at # "idle" /\ play.nwrite \in 1..play.len-1 => play.len > PIPE_BUF
  /\ cb.at = "read" /\ cb.b \in 1..cb.nread-1 => drift > stranded
  /\ Len(stream) > cb.len => cb.nread > cb.len /\ spoilt > 0

(* The speaker plays every byte once, in the order they were submitted, and    *)
(* silence but no old sound between them, until one of these things happens.   *)
SoundStream == INSTANCE AudioStream WITH K <- AudioK, MaxChunk <- PipeSize,
                 head <- headno, queued <- Len(pipe) + cb.b, out <- heard
SoundPlayed ==
  /\ SoundStream!Init /\ [][SoundStream!Next \/ spoilt' > 0]_(<<headno, Len(pipe) + cb.b, heard>>)
  /\ [](CountsPipe /\ Reasons)
=============================================================================
