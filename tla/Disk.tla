--------------------------------- MODULE Disk ---------------------------------
(***************************************************************************)
(* The ATA disk of x86-qemu (x86/qemu/ioe.c), driven by programmed I/O.    *)
(* The block number goes into four registers, here digits of base Q; while *)
(* the disk is busy it ignores what is written to its registers.           *)
(***************************************************************************)
EXTENDS Integers, Sequences, FiniteSets

CONSTANTS Q,            \* how many values a register has: 256
          BlockWords,   \* words in a block: 128
          MaxBlkio,     \* how often disk_blkio is called
          Blknos, Blkcnts

DiskSize == Q * Q * Q * Q
Block == 0..DiskSize-1
Word0 == 0..BlockWords-1

ASSUME DiskAssumption ==
  /\ Q \in Nat \ {0, 1} /\ BlockWords \in Nat \ {0} /\ Blknos \subseteq Block
  /\ Blkcnts \subseteq Nat /\ \E n \in Blkcnts : \A m \in Blkcnts : m <= n

VARIABLES disk,         \* the words on the disk
          ata,          \* its registers, and the state of the drive
          buf,          \* the caller's buffer
          bio, pc,      \* the call: its arguments, ptr, remain, blkno; where it is
          done,         \* how many calls were made
          want          \* the disk and the buffer the caller expects

dvars == <<disk, ata, buf, bio, pc, done, want>>

\* blkno >> 8k, as a register takes it
Digit(n, k) == (CASE k = 0 -> n [] k = 1 -> n \div Q [] k = 2 -> n \div (Q * Q)
                  [] k = 3 -> n \div (Q * Q * Q)) % Q
Lba(d) == d[0] + Q * (d[1] + Q * (d[2] + Q * d[3]))

MaxWords == BlockWords * (CHOOSE n \in Blkcnts : \A m \in Blkcnts : m <= n)
Buffer == 0..MaxWords-1

DiskInit ==
  /\ disk = [b \in Block |-> [i \in Word0 |-> -1 - (b * BlockWords + i)]]
  /\ ata = [count |-> 0, lba |-> [k \in 0..3 |-> 0], busy |-> FALSE, cmd |-> "none", at |-> 0]
  /\ buf = [i \in Buffer |-> 0] /\ done = 0 /\ pc = "idle"
  /\ bio = [write |-> FALSE, remain |-> 0, blkno |-> 0, ptr |-> 0]
  /\ want = [disk |-> disk, buf |-> buf]

\* the same call on native, where the disk is a file: what the caller expects, with a file that
\* is there and holds the blocks (else native does nothing, or its assertion fails)
__am_disk_blkio(write, blkno, n) ==
  IF write
  THEN [buf |-> buf', disk |-> [b \in Block |-> IF b \in blkno..blkno+n-1
          THEN [i \in Word0 |-> buf'[(b - blkno) * BlockWords + i]] ELSE want.disk[b]]]
  ELSE [want EXCEPT !.buf = [i \in Buffer |-> IF i < n * BlockWords
          THEN want.disk[blkno + (i \div BlockWords)][i % BlockWords] ELSE @[i]]]

\* the blocks exist: the code does not look
Call_blkio ==
  /\ pc = "idle" /\ done < MaxBlkio /\ done' = done + 1
  /\ \E write \in BOOLEAN, blkno \in Blknos, n \in Blkcnts :
       /\ blkno + n <= DiskSize
       /\ bio' = [write |-> write, remain |-> n, blkno |-> blkno, ptr |-> 0]
       /\ pc' = IF n = 0 THEN "idle" ELSE "wait"
       /\ buf' = IF write THEN [i \in Buffer |-> 100 * done' + i] ELSE buf
       /\ want' = __am_disk_blkio(write, blkno, n)
  /\ UNCHANGED <<disk, ata>>

After(at) == CASE at = "wait" -> "count" [] at = "count" -> "lba0" [] at = "lba0" -> "lba1"
               [] at = "lba1" -> "lba2" [] at = "lba2" -> "lba3" [] at = "lba3" -> "command"
               [] at = "command" -> "wait2" [] at = "wait2" -> "data"
Goes == pc' = After(pc) /\ UNCHANGED <<disk, buf, bio, done, want>>

\* mutant: only the data is waited for
wait_diskLate == pc \in {"wait", "wait2"} /\ (pc = "wait2" => ~ata.busy) /\ Goes /\ UNCHANGED ata

wait_disk == pc \in {"wait", "wait2"} /\ ~ata.busy /\ Goes /\ UNCHANGED ata

Outb(reg) == Goes /\ ata' = IF ata.busy THEN ata ELSE reg

\* the words of one block, then the next block
Data ==
  /\ pc = "data" /\ UNCHANGED <<done, want>>
  /\ LET b == Lba(ata.lba)  last == ata.at = BlockWords - 1
     IN /\ IF bio.write
           THEN disk' = (IF ata.busy THEN disk ELSE [disk EXCEPT ![b][ata.at] = buf[bio.ptr]]) /\ buf' = buf
           ELSE buf' = [buf EXCEPT ![bio.ptr] = IF ata.busy THEN 0 ELSE disk[b][ata.at]] /\ disk' = disk
        /\ ata' = [ata EXCEPT !.at = IF last THEN 0 ELSE @ + 1, !.busy = last /\ bio.write]
        /\ bio' = [bio EXCEPT !.ptr = @ + 1, !.remain = IF last THEN @ - 1 ELSE @,
                              !.blkno = IF last THEN @ + 1 ELSE @]
        /\ pc' = IF ~last THEN "data" ELSE IF bio.remain = 1 THEN "idle" ELSE "wait"

disk_blkio ==
  \/ wait_disk
  \/ pc = "count" /\ Outb([ata EXCEPT !.count = 1])
  \/ \E k \in 0..3 : pc = <<"lba0", "lba1", "lba2", "lba3">>[k+1]
                       /\ Outb([ata EXCEPT !.lba[k] = Digit(bio.blkno, k)])
  \/ pc = "command" /\ Outb([ata EXCEPT !.cmd = IF bio.write THEN "write" ELSE "read",
                                        !.busy = TRUE, !.at = 0])
  \/ Data

\* the drive is done with a command, or with storing a block
DriveReady == ata.busy /\ ata' = [ata EXCEPT !.busy = FALSE]
              /\ UNCHANGED <<disk, buf, bio, pc, done, want>>

DiskNext == Call_blkio \/ disk_blkio \/ DriveReady

-----------------------------------------------------------------------------
(* When disk_blkio returns, the blocks it names, and no other, hold what was   *)
(* in the buffer, or the buffer holds what is in the blocks and is as it was    *)
(* beyond them, however long the drive takes with each command; and the drive  *)
(* is asked for what the call is for.                                         *)
BlocksMoved ==
  /\ pc = "idle" => disk = want.disk /\ buf = want.buf
  /\ pc = "data" => /\ ata.cmd = IF bio.write THEN "write" ELSE "read"
                    /\ ata.count = 1 /\ Lba(ata.lba) = bio.blkno
=============================================================================
