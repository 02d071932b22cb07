-------------------------------- MODULE Clocks --------------------------------
(***************************************************************************)
(* Clocks that are read piece by piece while they run: the CMOS clock of   *)
(* x86-qemu, six registers of two BCD digits, and the 64-bit counters of   *)
(* nemu, npc and ysyxsoc, two words.  These devices keep both words when   *)
(* the high one is read, as NEMU does.  The timer of spike runs on: there   *)
(* time is in ticks of its counter, ten to a microsecond.                  *)
(***************************************************************************)
EXTENDS Integers, Sequences

CONSTANTS Radix,      \* how many values a second, minute, ... have
          Starts,     \* when timer_rtc may be called
          MaxTicks,   \* how long is looked
          MaxReads,   \* and how often
          Half        \* how many values the low word of a counter has

ASSUME ClocksAssumption ==
  /\ Radix \in Seq(1..100) /\ Len(Radix) = 6 /\ Half \in Nat \ {0} /\ Starts \subseteq Nat

VARIABLES clock,      \* "rtc", "nemu", "npc" or "spike"
          now, ticks,
          call,       \* the running call: its next step, what it has read, when it began
          latch,      \* the words the counter keeps
          up,         \* the start of time of npc and spike
          reads,      \* results so far
          last        \* the latest result and the time it is for

tvars == <<clock, now, ticks, reads, call, latch, up, last>>

NoReading == <<-1, -1, -1, -1, -1, -1>>
Reset == [at |-> "idle", seen |-> NoReading, first |-> 0]
None == [of |-> "none", got |-> NoReading, first |-> 0, last |-> 0]

ClocksInit ==
  /\ clock \in {"rtc", "nemu", "npc", "spike"} /\ now \in Starts
  /\ call = Reset /\ latch = 0 /\ last = None
  /\ up = 0 /\ ticks = 0 /\ reads = 0

\* the registers of the CMOS clock at time t, in BCD
Below(i) == IF i = 1 THEN 1 ELSE Radix[1] * (IF i = 2 THEN 1 ELSE Radix[2])
              * (IF i <= 3 THEN 1 ELSE Radix[3]) * (IF i <= 4 THEN 1 ELSE Radix[4])
              * (IF i <= 5 THEN 1 ELSE Radix[5])
Field(t, i) == (t \div Below(i)) % Radix[i]
Cmos(t, i) == 16 * (Field(t, i) \div 10) + (Field(t, i) % 10)

read_rtc(t, i) == (Cmos(t, i) % 16) + 10 * (Cmos(t, i) \div 16)

Begin(c, at) ==
  /\ clock = c /\ call.at = "idle" /\ reads < MaxReads /\ call' = [Reset EXCEPT !.at = at, !.first = now]
  /\ UNCHANGED <<clock, now, ticks, reads, latch, up, last>>

End(of, got) ==
  /\ last' = [of |-> of, got |-> got, first |-> call.first, last |-> now]
  /\ call' = Reset /\ reads' = reads + 1

\* second, minute, hour, day, month, year; then the second again
Steps == <<"second", "minute", "hour", "day", "month", "year", "again">>

\* mutant: the first reading is taken as it is
timer_rtcOnce ==
  \/ Begin("rtc", "second")
  \/ \E i \in 1..6 :
       /\ call.at = Steps[i]
       /\ LET new == [call.seen EXCEPT ![i] = read_rtc(now, i)]
          IN IF i = 6 THEN End("date", new)
             ELSE /\ call' = [call EXCEPT !.seen = new, !.at = Steps[i+1]]
                  /\ UNCHANGED <<last, reads>>
       /\ UNCHANGED <<clock, now, ticks, latch, up>>

timer_rtc ==
  \/ Begin("rtc", "second")
  \/ \E i \in 1..6 :
       /\ call.at = Steps[i]
       /\ call' = [call EXCEPT !.seen[i] = read_rtc(now, i), !.at = Steps[i+1],
                               !.first = IF i = 1 THEN now ELSE @]
       /\ UNCHANGED <<clock, now, ticks, reads, latch, up, last>>
  \/ /\ call.at = "again"
     /\ IF read_rtc(now, 1) = call.seen[1] THEN End("date", call.seen)
        ELSE call' = [call EXCEPT !.at = "second"] /\ UNCHANGED <<last, reads>>
     /\ UNCHANGED <<clock, now, ticks, latch, up>>

\* the high word, then, from the latch, the low one
ReadHigh == call.at = "high" /\ latch' = now
            /\ call' = [call EXCEPT !.at = "low", !.seen[1] = now \div Half]
            /\ UNCHANGED <<clock, now, ticks, reads, up, last>>

\* spike: the low word, then the high one of that time
read_time == call.at = "time_lo"
             /\ call' = [call EXCEPT !.at = "time_hi", !.seen[1] = now % Half]
             /\ UNCHANGED <<clock, now, ticks, reads, latch, up, last>>

ReadWords == \/ clock # "rtc" /\ Begin(clock, IF clock = "spike" THEN "time_lo" ELSE "high")
             \/ ReadHigh \/ read_time

\* the second word is read, and the time is t
Time(t) == \/ call.at = "low" /\ t = call.seen[1] * Half + (latch % Half)
           \/ call.at = "time_hi" /\ t = (now \div Half) * Half + call.seen[1]

Pieces == {call.seen[1] * Half + (latch % Half), (now \div Half) * Half + call.seen[1]}

\* npc and spike note the time at start-up; nemu writes a zero that the device ignores
Started == clock = "nemu" \/ last.of # "none"

__am_timer_init ==
  /\ ~Started
  /\ \/ ReadWords
     \/ \E t \in Pieces : /\ Time(t) /\ up' = t /\ End("start", <<t, t, 0, 0, 0, 0>>)
                          /\ UNCHANGED <<clock, now, ticks, latch>>

__am_timer_uptime ==
  /\ Started
  /\ \/ ReadWords
     \/ \E t \in Pieces : /\ Time(t) /\ End("uptime", <<t, t - up, 0, 0, 0, 0>>)
                          /\ UNCHANGED <<clock, now, ticks, latch, up>>

\* a round of timer_rtc takes less than a minute, and no word wraps twice in a call
Tick ==
  /\ ticks < MaxTicks /\ ticks' = ticks + 1 /\ now' = now + 1
  /\ call.at # "idle" => now + 1 < call.first + (IF clock = "rtc" THEN Radix[1] ELSE Half)
  /\ UNCHANGED <<clock, call, reads, latch, up, last>>

ClocksNext == timer_rtc \/ __am_timer_init \/ __am_timer_uptime \/ Tick

-----------------------------------------------------------------------------
(* What is read in pieces is one moment's time, and a moment of the call: a    *)
(* date never mixes the minute before a carry with the hour after it (it is    *)
(* the time of the last look at the second), a counter never the words before  *)
(* and after.  The timer of spike is one high word ahead when its low word      *)
(* wraps between the two reads, and at no other time.                          *)
ClocksCoherent ==
  LET Torn(t) == /\ clock = "spike" /\ t - Half \in last.first..last.last
                 /\ last.first \div Half # last.last \div Half
  IN CASE last.of = "date" -> last.got = [i \in 1..6 |-> Field(last.last, i)]
       [] last.of \in {"uptime", "start"} ->
            /\ last.got[1] \in last.first..last.last \/ Torn(last.got[1])
            /\ last.of = "uptime" => /\ last.got[2] = last.got[1] - up
                                     /\ clock # "spike" => last.got[2] >= 0
       [] OTHER -> TRUE
=============================================================================
