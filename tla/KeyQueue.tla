------------------------------- MODULE KeyQueue -------------------------------
(***************************************************************************)
(* The keyboard of native: the event thread puts keys into a ring, the     *)
(* application takes them out.  Keys are numbered as they are pressed;     *)
(* every key is pressed, then released.  The kernel reads keys in its      *)
(* interrupt handler or polls; MasksWhilePolling says whether it masks     *)
(* interrupts around a poll.  The SDL mutex is recursive.                  *)
(***************************************************************************)
EXTENDS Integers, Sequences, FiniteSets

CONSTANTS KEY_QUEUE_LEN, MaxKeys, KEYDOWN_MASK, MasksWhilePolling

ASSUME KeyQueueAssumption ==
  /\ KEY_QUEUE_LEN \in Nat \ {0} /\ MaxKeys \in Nat
  /\ KEYDOWN_MASK \in Nat /\ MaxKeys < KEYDOWN_MASK

VARIABLES key_queue, key_f, key_r,
          owner,       \* of key_queue_lock: a thread and how often it took it
          event,       \* the event thread: where it is, and the key
          pressed,     \* how many keys were pressed or released
          intr,        \* an I/O interrupt is pending
          app,         \* the calls of keybrd of the application, the innermost last
          given          \* the keys it was given

kvars == <<key_queue, key_f, key_r, owner, event, pressed, intr, app, given>>

Free == [by |-> "none", n |-> 0]

KeyQueueInit ==
  /\ key_queue = [i \in 0..KEY_QUEUE_LEN-1 |-> 0] /\ key_f = 0 /\ key_r = 0
  /\ owner = Free /\ event = [at |-> "wait", code |-> 0] /\ pressed = 0
  /\ intr = FALSE /\ app = <<>> /\ given = <<>>

Down(n) == n % 2 = 1

Lock(t) == owner.by \in {"none", t} /\ owner' = [by |-> t, n |-> owner.n + 1]
Unlock == owner' = IF owner.n = 1 THEN Free ELSE [owner EXCEPT !.n = @ - 1]

\* keys without an AM code, which are passed over, have no number
KeyEvent ==
  /\ event.at = "wait" /\ pressed < MaxKeys /\ pressed' = pressed + 1
  /\ event' = [at |-> "lock", code |-> pressed' + (IF Down(pressed') THEN KEYDOWN_MASK ELSE 0)]
  /\ UNCHANGED <<key_queue, key_f, key_r, owner, intr, app, given>>

NextOf(i) == (i + 1) % KEY_QUEUE_LEN

event_thread ==
  \/ KeyEvent
  \/ /\ event.at = "lock" /\ Lock("event") /\ event' = [event EXCEPT !.at = "store"]
     /\ UNCHANGED <<key_queue, key_f, key_r, intr>> /\ UNCHANGED <<pressed, app, given>>
  \/ /\ event.at = "store" /\ key_queue' = [key_queue EXCEPT ![key_r] = event.code]
     /\ event' = [event EXCEPT !.at = "advance"]
     /\ UNCHANGED <<key_f, key_r, owner, intr>> /\ UNCHANGED <<pressed, app, given>>
  \/ /\ event.at = "advance" /\ key_r' = NextOf(key_r)
     /\ event' = [event EXCEPT !.at = "unlock"]
     /\ UNCHANGED <<key_queue, key_f, owner, intr>> /\ UNCHANGED <<pressed, app, given>>
  \/ /\ event.at = "unlock" /\ Unlock /\ event' = [event EXCEPT !.at = "interrupt"]
     /\ UNCHANGED <<key_queue, key_f, key_r, intr>> /\ UNCHANGED <<pressed, app, given>>
  \/ /\ event.at = "interrupt" /\ intr' = TRUE /\ event' = [event EXCEPT !.at = "wait"]
     /\ UNCHANGED <<key_queue, key_f, key_r, owner>> /\ UNCHANGED <<pressed, app, given>>

Top == app[Len(app)]
At(at) == app' = [app EXCEPT ![Len(app)].at = at]
Entry(by) == [by |-> by, at |-> "lock", k |-> 0]

Poll ==
  /\ app = <<>> /\ app' = <<Entry("poll")>>
  /\ UNCHANGED <<key_queue, key_f, key_r, owner, event, pressed, intr, given>>

\* An interrupt that hits SDL's code is dropped; elsewhere the handler reads a key,
\* with interrupts masked.
Interrupted ==
  /\ intr /\ intr' = FALSE
  /\ IF app = <<>> THEN app' = <<Entry("handler")>>
     ELSE /\ Top.by = "poll" /\ ~MasksWhilePolling
          /\ app' = IF Top.at \in {"lock", "unlock"} THEN app ELSE Append(app, Entry("handler"))
  /\ UNCHANGED <<key_queue, key_f, key_r, owner, event, pressed, given>>

\* mutant: a key is taken from an empty queue
__am_input_keybrdUnguarded ==
  /\ app # <<>>
  /\ \/ Top.at = "lock" /\ Lock("app") /\ At("test") /\ UNCHANGED <<key_f, given>>
     \/ Top.at = "test" /\ At("take") /\ UNCHANGED <<owner, key_f, given>>
     \/ /\ Top.at = "take" /\ UNCHANGED <<owner, key_f, given>>
        /\ app' = [app EXCEPT ![Len(app)] = [@ EXCEPT !.k = key_queue[key_f], !.at = "advance"]]
     \/ Top.at = "advance" /\ key_f' = NextOf(key_f) /\ At("unlock") /\ UNCHANGED <<owner, given>>
     \/ /\ Top.at = "unlock" /\ Unlock /\ app' = SubSeq(app, 1, Len(app) - 1)
        /\ given' = IF Top.k = 0 THEN given
                  ELSE Append(given, [keydown |-> Top.k \div KEYDOWN_MASK = 1,
                                    keycode |-> Top.k % KEYDOWN_MASK])
        /\ UNCHANGED key_f
  /\ UNCHANGED <<key_queue, key_r, event, pressed, intr>>

__am_input_keybrd ==
  /\ app # <<>>
  /\ \/ Top.at = "lock" /\ Lock("app") /\ At("test") /\ UNCHANGED <<key_f, given>>
     \/ /\ Top.at = "test" /\ At(IF key_f # key_r THEN "take" ELSE "unlock")
        /\ UNCHANGED <<owner, key_f, given>>
     \/ /\ Top.at = "take" /\ UNCHANGED <<owner, key_f, given>>
        /\ app' = [app EXCEPT ![Len(app)] = [@ EXCEPT !.k = key_queue[key_f], !.at = "advance"]]
     \/ Top.at = "advance" /\ key_f' = NextOf(key_f) /\ At("unlock") /\ UNCHANGED <<owner, given>>
     \/ /\ Top.at = "unlock" /\ Unlock /\ app' = SubSeq(app, 1, Len(app) - 1)
        /\ given' = IF Top.k = 0 THEN given
                  ELSE Append(given, [keydown |-> Top.k \div KEYDOWN_MASK = 1,
                                    keycode |-> Top.k % KEYDOWN_MASK])
        /\ UNCHANGED key_f
  /\ UNCHANGED <<key_queue, key_r, event, pressed, intr>>

KeyQueueNext == event_thread \/ Poll \/ Interrupted \/ __am_input_keybrd

-----------------------------------------------------------------------------
(* The application is given every key once, in the order they were pressed,    *)
(* up as up and down as down.  The ring has no test for being full, so that    *)
(* keys can be lost, but only KEY_QUEUE_LEN of them at a time, when that many  *)
(* wait; and whatever waits is what is left of those pressed.                 *)
KeysInOrder ==
  /\ \A i \in 1..Len(given) :
       LET n == given[i].keycode
       IN /\ given[i].keydown = Down(n) /\ n >= i /\ (n - i) % KEY_QUEUE_LEN = 0
          /\ i > 1 => n > given[i-1].keycode
  /\ app = <<>> /\ event.at \in {"wait", "interrupt"}
       => (key_r - key_f - (pressed - Len(given))) % KEY_QUEUE_LEN = 0
=============================================================================
