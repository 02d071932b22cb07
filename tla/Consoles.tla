------------------------------- MODULE Consoles -------------------------------
(***************************************************************************)
(* putch on the RISC-V ports that must wait for their console: spike       *)
(* (riscv/spike/htif.c), where CPU and host pass each other messages in    *)
(* two words, tohost and fromhost; ysyxsoc (a 16550) and nutshell (a UART  *)
(* Lite), where a queue of Fifo characters is sent while the CPU goes on.  *)
(*                                                                         *)
(* HTIF is written for several harts, under a spin lock; Harts call it.    *)
(* The port has no MPE: more than one hart is more than it starts.         *)
(* A character is a small number.  The word a system call passes is the    *)
(* even address of magic_mem, here twice the character written there.      *)
(***************************************************************************)
EXTENDS Integers, Sequences, FiniteSets

CONSTANTS Harts, ConsolePorts, Fifo, Chars,
          MaxCalls,    \* how often putch and getchar are called
          MaxTyped     \* how many keys are pressed on the host

NL == 10
CR == 13

ASSUME ConsolesAssumption ==
  /\ ConsolePorts \subseteq {"spike32", "spike64", "ysyxsoc", "nutshell"}
  /\ Fifo \in Nat \ {0} /\ Chars \subseteq 1..127 /\ Harts # {}

VARIABLES cport, calls,
          hart,        \* where each hart is, and in which call
          tohost, fromhost, console_buf, lock,
          host,        \* the reads it owes, its replies, whether it was told to exit
          fifo,        \* the UART's queue
          sent, out,   \* what was written, and what can be read on the screen
          typed, got   \* the keys pressed, and those getchar returned

cvars == <<cport, calls, hart, tohost, fromhost, console_buf, lock, host, fifo, sent, out, typed, got>>

Word(dev, cmd, data) == [dev |-> dev, cmd |-> cmd, data |-> data]
Zero == Word(0, 0, 0)
Exit == Word(0, 0, 1)

Spike == cport \in {"spike32", "spike64"}

Idle == [at |-> "idle", op |-> "none", msg |-> Zero, then |-> "idle"]

ConsolesInit ==
  /\ cport \in ConsolePorts /\ calls = 0
  /\ hart = [h \in Harts |-> Idle]
  /\ tohost = Zero /\ fromhost = Zero /\ console_buf = 0 /\ lock = 0
  /\ host = [reads |-> 0, replies |-> <<>>, exited |-> FALSE]
  /\ fifo = <<>> /\ sent = <<>> /\ out = <<>> /\ typed = <<>> /\ got = <<>>

Goto(h, at) == hart' = [hart EXCEPT ![h].at = at]

\* halt was called, which never returns
Off == \E h \in Harts : hart[h].at \in {"off1", "off2"}

SameHost == UNCHANGED <<host, out, typed>>
SameLines == UNCHANGED <<tohost, fromhost>>

\* spike32 has no console device: its characters are system calls
Call(h, op, msg) ==
  /\ hart[h].at = "idle" /\ calls < MaxCalls /\ ~Off
  /\ calls' = calls + 1
  /\ hart' = [hart EXCEPT ![h] = [@ EXCEPT !.at = "spin", !.op = op, !.msg = msg]]
  /\ UNCHANGED <<cport, console_buf, lock, fifo, sent, got>> /\ SameHost /\ SameLines

htif_console_putchar(h, ch) ==
  CASE cport = "spike32" -> Call(h, "syscall", Word(0, 0, 2 * ch))
    [] cport = "spike64" -> Call(h, "put", Word(1, 1, ch))
    [] OTHER -> FALSE

htif_console_getchar(h) == cport = "spike64" /\ Call(h, "get", Word(1, 0, 0))
htif_syscall(h, ch) == cport = "spike64" /\ Call(h, "syscall", Word(0, 0, 2 * ch))

spinlock_lock(h) ==
  /\ \/ hart[h].at = "spin" /\ lock = 0 /\ Goto(h, "swap") /\ lock' = lock
     \/ /\ hart[h].at = "swap" /\ lock' = -1
        /\ Goto(h, IF lock # 0 THEN "spin" ELSE IF hart[h].op = "get" THEN "check" ELSE "set")
  /\ UNCHANGED <<cport, calls, console_buf, fifo, sent, got>> /\ SameHost /\ SameLines

spinlock_unlock(h) ==
  /\ hart[h].at = "unlock" /\ lock' = 0 /\ hart' = [hart EXCEPT ![h] = Idle]
  /\ UNCHANGED <<cport, calls, console_buf, fifo, sent, got>> /\ SameHost /\ SameLines

\* fromhost is read; then, if it holds a word, it is cleared and the word used
__check_fromhost(h) ==
  \/ /\ hart[h].at = "check"
     /\ hart' = [hart EXCEPT ![h].at = IF fromhost = Zero THEN "take" ELSE "clear", ![h].then = "take"]
     /\ UNCHANGED <<cport, calls, console_buf, lock, fifo, sent, got>> /\ SameHost /\ SameLines
  \/ /\ hart[h].at = "clear" /\ fromhost' = Zero
     /\ Goto(h, IF fromhost.dev = 1 /\ fromhost.cmd \in {0, 1} THEN hart[h].then ELSE "assert")
     /\ console_buf' = IF fromhost.dev = 1 /\ fromhost.cmd = 0 THEN 1 + (fromhost.data % 256)
                       ELSE console_buf
     /\ UNCHANGED <<cport, calls, tohost, lock, fifo, sent, got>> /\ SameHost

\* the rest of getchar, when what fromhost held is in console_buf; its result is ch - 1
getchar(h) ==
  /\ hart[h].at = "take"
  /\ IF console_buf >= 0
     THEN /\ console_buf' = -1 /\ Goto(h, "set")
          /\ got' = IF console_buf > 0 THEN Append(got, console_buf - 1) ELSE got
     ELSE Goto(h, "unlock") /\ UNCHANGED <<console_buf, got>>
  /\ UNCHANGED <<cport, calls, lock, fifo, sent>> /\ SameHost /\ SameLines

Text(msg) == CASE msg.dev = 1 /\ msg.cmd = 1 -> <<msg.data>>
               [] msg.dev = 0 /\ msg.data > 1 -> <<msg.data \div 2>>
               [] OTHER -> <<>>

\* mutant: tohost is not waited for
__set_tohostAtOnce(h) ==
  /\ hart[h].at = "set" /\ tohost' = hart[h].msg /\ sent' = sent \o Text(hart[h].msg)
  /\ Goto(h, IF hart[h].op = "syscall" THEN "wait" ELSE "unlock")
  /\ UNCHANGED <<cport, calls, fromhost, console_buf, lock, fifo, got>> /\ SameHost

\* while the host has not taken the last word, what it sends is taken
__set_tohost(h) ==
  \/ /\ hart[h].at = "set" /\ tohost # Zero /\ fromhost # Zero
     /\ hart' = [hart EXCEPT ![h].at = "clear", ![h].then = "set"]
     /\ UNCHANGED <<cport, calls, console_buf, lock, fifo, sent, got>> /\ SameHost /\ SameLines
  \/ /\ hart[h].at = "set" /\ tohost = Zero /\ Goto(h, "store")
     /\ UNCHANGED <<cport, calls, console_buf, lock, fifo, sent, got>> /\ SameHost /\ SameLines
  \/ /\ hart[h].at = "store" /\ tohost' = hart[h].msg /\ sent' = sent \o Text(hart[h].msg)
     /\ Goto(h, IF hart[h].op = "syscall" THEN "wait" ELSE "unlock")
     /\ UNCHANGED <<cport, calls, fromhost, console_buf, lock, fifo, got>> /\ SameHost

do_tohost_fromhost(h) ==
  /\ hart[h].at = "wait" /\ fromhost # Zero
  /\ IF fromhost.dev = hart[h].msg.dev /\ fromhost.cmd = hart[h].msg.cmd
     THEN fromhost' = Zero /\ Goto(h, "unlock")
     ELSE /\ hart' = [hart EXCEPT ![h].at = "clear", ![h].then = "wait"]
          /\ fromhost' = fromhost
  /\ UNCHANGED <<cport, calls, tohost, console_buf, lock, fifo, sent, got>> /\ SameHost

\* halt: nobody else is in a call, then or later.  The loop stores both words again and again, with no lock.
htif_poweroff(h) ==
  /\ \/ Spike /\ hart[h].at = "idle" /\ (\A g \in Harts : hart[g].at = "idle")
        /\ Goto(h, "off1") /\ SameLines
     \/ hart[h].at = "off1" /\ fromhost' = Zero /\ tohost' = tohost /\ Goto(h, "off2")
     \/ hart[h].at = "off2" /\ tohost' = Exit /\ fromhost' = fromhost /\ Goto(h, "off1")
  /\ UNCHANGED <<cport, calls, console_buf, lock, fifo, sent, got>> /\ SameHost

-----------------------------------------------------------------------------
(* The host.  It takes a word when it likes, writes fromhost only when that   *)
(* is zero, and may or may not answer the writes.                            *)

HostTakes ==
  /\ tohost # Zero /\ ~host.exited /\ tohost' = Zero
  /\ out' = out \o Text(tohost)
  /\ \E answer \in {<<>>, <<Word(1, 1, 0)>>} :
       host' = [host EXCEPT
         !.exited = tohost = Exit,
         !.reads = @ + (IF tohost.dev = 1 /\ tohost.cmd = 0 THEN 1 ELSE 0),
         !.replies = @ \o (CASE tohost.dev = 1 /\ tohost.cmd = 1 -> answer
                             [] tohost.dev = 0 /\ tohost # Exit -> <<Word(0, 0, 1)>>
                             [] OTHER -> <<>>)]
  /\ UNCHANGED <<cport, calls, hart, fromhost, console_buf, lock, fifo, sent, typed, got>>

KeyPressed ==
  /\ host.reads > 0 /\ Len(typed) < MaxTyped
  /\ \E ch \in {1 + (Len(typed) % 255)} :
       /\ typed' = Append(typed, ch)
       /\ host' = [host EXCEPT !.reads = @ - 1, !.replies = Append(@, Word(1, 0, 256 + ch))]
  /\ UNCHANGED <<cport, calls, hart, tohost, fromhost, console_buf, lock, fifo, sent, out, got>>

HostReplies ==
  /\ host.replies # <<>> /\ fromhost = Zero /\ ~host.exited
  /\ fromhost' = Head(host.replies) /\ host' = [host EXCEPT !.replies = Tail(@)]
  /\ UNCHANGED <<cport, calls, hart, tohost, console_buf, lock, fifo, sent, out, typed, got>>

-----------------------------------------------------------------------------
(* The UARTs.  A character stored in a full queue is lost.                    *)

\* the characters putch sends for ch
Sends(ch) == IF cport = "nutshell" /\ ch = NL THEN <<CR, NL>> ELSE <<ch>>

\* the bit of the status register that ends the loop of putch
MaySend == IF cport = "ysyxsoc" THEN fifo = <<>> ELSE Len(fifo) < Fifo

putch(h, ch) ==
  /\ ~Spike /\ h = CHOOSE g \in Harts : TRUE
  /\ hart[h].at = "idle" /\ calls < MaxCalls /\ calls' = calls + 1
  /\ hart' = [hart EXCEPT ![h].at = "poll", ![h].msg = Sends(ch)] /\ sent' = sent \o Sends(ch)
  /\ UNCHANGED <<cport, console_buf, lock, fifo, got>> /\ SameHost /\ SameLines

uart_putchar(h) ==
  \/ /\ hart[h].at = "poll" /\ MaySend /\ Goto(h, "tx")
     /\ UNCHANGED <<cport, calls, console_buf, lock, fifo, sent, got>> /\ SameHost /\ SameLines
  \/ /\ hart[h].at = "tx"
     /\ fifo' = IF Len(fifo) < Fifo THEN Append(fifo, Head(hart[h].msg)) ELSE fifo
     /\ hart' = IF Len(hart[h].msg) = 1 THEN [hart EXCEPT ![h] = Idle]
                ELSE [hart EXCEPT ![h].at = "poll", ![h].msg = Tail(@)]
     /\ UNCHANGED <<cport, calls, console_buf, lock, sent, got>> /\ SameHost /\ SameLines

Transmit ==
  /\ fifo # <<>> /\ fifo' = Tail(fifo) /\ out' = Append(out, Head(fifo))
  /\ UNCHANGED <<cport, calls, hart, console_buf, lock, sent, got, host, typed>> /\ SameLines

ConsolesNext ==
  \/ \E h \in Harts, ch \in Chars : htif_console_putchar(h, ch)
  \/ \E h \in Harts, ch \in Chars : htif_syscall(h, ch)
  \/ \E h \in Harts, ch \in Chars : putch(h, ch)
  \/ \E h \in Harts : \/ htif_console_getchar(h) \/ spinlock_lock(h) \/ spinlock_unlock(h)
                      \/ __check_fromhost(h) \/ getchar(h) \/ __set_tohost(h)
                      \/ do_tohost_fromhost(h) \/ htif_poweroff(h) \/ uart_putchar(h)
  \/ HostTakes \/ KeyPressed \/ HostReplies \/ Transmit

-----------------------------------------------------------------------------
\* the keys in what the host replies
KeyOf(w) == IF w.dev = 1 /\ w.cmd = 0 THEN <<w.data % 256>> ELSE <<>>
Keys(ws) == LET k[i \in 0..Len(ws)] == IF i = 0 THEN <<>> ELSE k[i-1] \o KeyOf(ws[i]) IN k[Len(ws)]

(* What was written reaches the screen, whole and in order, and every key     *)
(* pressed is returned by one getchar, in order, whatever order the two words  *)
(* are passed in and whoever calls.  A console word that arrives while a       *)
(* system call is waited for is not lost, and no reply reaches the wrong       *)
(* caller (the assertions of __check_fromhost).  poweroff waits for nothing:    *)
(* it may overwrite the last character of a spike64 build, and no more.        *)
ConsoleFaithful ==
  LET last == UNION {{hart[h].msg} : h \in {g \in Harts : hart[g].at \in {"poll", "tx"}}}
      coming == out \o fifo \o Text(tohost)
  IN /\ \A h \in Harts : hart[h].at # "assert"
     /\ IF Off
        THEN /\ Len(sent) - Len(out) \in 0..(IF cport = "spike64" THEN 1 ELSE 0)
             /\ out = SubSeq(sent, 1, Len(out))
        ELSE /\ IF last = {} THEN coming = sent ELSE \E rest \in last : coming \o rest = sent
             /\ got \o (IF console_buf > 0 THEN <<console_buf - 1>> ELSE <<>>)
                    \o KeyOf(fromhost) \o Keys(host.replies) = typed
=============================================================================
