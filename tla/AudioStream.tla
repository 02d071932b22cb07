------------------------------ MODULE AudioStream ------------------------------
(***************************************************************************)
(* What a sound device promises to the application: the bytes it submits   *)
(* are played in the order of submission, each of them once.  Bytes are    *)
(* numbered modulo K in the order of submission.                           *)
(* AM_AUDIO_PLAY of am/include/amdev.h.                                    *)
(***************************************************************************)
EXTENDS Naturals, Sequences

CONSTANTS
    K,          \* byte numbers are 0 .. K - 1
    MaxChunk    \* largest submission, and largest request of the speaker

VARIABLES
    head,       \* number of the next byte to play
    queued,     \* how many bytes are submitted and not yet played
    out         \* the bytes the speaker got last (none: silence)

Init == head = 0 /\ queued = 0 /\ out = <<>>

Submit ==
    /\ \E n \in 1 .. MaxChunk : queued' = queued + n
    /\ UNCHANGED <<head, out>>

Play ==
    /\ \E n \in 0 .. MaxChunk :
         /\ n <= queued
         /\ out' = [k \in 1 .. n |-> (head + k - 1) % K]
         /\ head' = (head + n) % K
         /\ queued' = queued - n

Next == Submit \/ Play
Spec == Init /\ [][Next]_<<head, queued, out>>
=============================================================================
