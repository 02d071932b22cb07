--------------------------------- MODULE Ioe ---------------------------------
(***************************************************************************)
(* The registers of the I/O extension (amdev.h) and how a program reaches   *)
(* the code behind them: the table lut of each platform, ioe_init, which    *)
(* closes its holes, and io_read and io_write.  A handler is known by the   *)
(* fields it writes into the buffer, which io_read leaves uninitialised;    *)
(* of their values only those of a CONFIG register matter, a program goes   *)
(* by them.                                                                 *)
(***************************************************************************)
EXTENDS Integers, FiniteSets

CONSTANTS IoePorts

Platforms == {"native", "nemu", "npc", "ysyxsoc", "spike", "nutshell", "qemu"}
ASSUME IoeAssumption == IoePorts \subseteq Platforms

VARIABLES ioe_port,
          diskimg,    \* native was started with a disk image
          lut,        \* what each register calls: a handler, NULL or fail
          started,    \* the devices whose initialisation has run
          early,      \* those with one that were used before it
          fate,       \* "runs", "panic", or "lost" after a jump to NULL
          config,     \* the CONFIG registers the program has read, and what they said
          answer,        \* the last read: its register and the fields that were written
          careful     \* the program has kept the rules

ivars == <<ioe_port, diskimg, lut, started, early, fate, config, answer, careful>>

-----------------------------------------------------------------------------
(* The registers. *)

\* those that are read, with their fields, and those that are written
Readable ==
  [UART_CONFIG |-> {"present"}, UART_RX |-> {"data"},
   TIMER_CONFIG |-> {"present", "has_rtc"},
   TIMER_RTC |-> {"year", "month", "day", "hour", "minute", "second"}, TIMER_UPTIME |-> {"us"},
   INPUT_CONFIG |-> {"present"}, INPUT_KEYBRD |-> {"keydown", "keycode"},
   GPU_CONFIG |-> {"present", "has_accel", "width", "height", "vmemsz"}, GPU_STATUS |-> {"ready"},
   AUDIO_CONFIG |-> {"present", "bufsize"}, AUDIO_STATUS |-> {"count"},
   DISK_CONFIG |-> {"present", "blksz", "blkcnt"}, DISK_STATUS |-> {"ready"},
   NET_CONFIG |-> {"present"}, NET_STATUS |-> {"rx_len", "tx_len"}]
Writable == {"UART_TX", "GPU_FBDRAW", "GPU_MEMCPY", "GPU_RENDER", "AUDIO_CTRL", "AUDIO_PLAY",
             "DISK_BLKIO", "NET_TX", "NET_RX"}
AM_DEVREG == DOMAIN Readable \cup Writable

ConfigOf == [UART |-> "UART_CONFIG", TIMER |-> "TIMER_CONFIG", INPUT |-> "INPUT_CONFIG",
             GPU |-> "GPU_CONFIG", AUDIO |-> "AUDIO_CONFIG", DISK |-> "DISK_CONFIG", NET |-> "NET_CONFIG"]
Devs == DOMAIN ConfigOf
DevOf(reg) ==
  CASE reg \in {"UART_CONFIG", "UART_TX", "UART_RX"} -> "UART"
    [] reg \in {"TIMER_CONFIG", "TIMER_RTC", "TIMER_UPTIME"} -> "TIMER"
    [] reg \in {"INPUT_CONFIG", "INPUT_KEYBRD"} -> "INPUT"
    [] reg \in {"GPU_CONFIG", "GPU_STATUS", "GPU_FBDRAW", "GPU_MEMCPY", "GPU_RENDER"} -> "GPU"
    [] reg \in {"AUDIO_CONFIG", "AUDIO_CTRL", "AUDIO_STATUS", "AUDIO_PLAY"} -> "AUDIO"
    [] reg \in {"DISK_CONFIG", "DISK_STATUS", "DISK_BLKIO"} -> "DISK"
    [] OTHER -> "NET"

-----------------------------------------------------------------------------
(* The tables. *)

native_lut == AM_DEVREG \ {"GPU_MEMCPY", "GPU_RENDER", "NET_STATUS", "NET_TX", "NET_RX"}
nemu_lut == native_lut \ {"UART_TX", "UART_RX"}
qemu_lut == AM_DEVREG \ {"AUDIO_CTRL", "AUDIO_STATUS", "AUDIO_PLAY", "NET_STATUS", "NET_TX", "NET_RX"}
npc_lut == {"TIMER_CONFIG", "TIMER_RTC", "TIMER_UPTIME", "INPUT_CONFIG", "INPUT_KEYBRD", "UART_CONFIG"}
ysyxsoc_lut == npc_lut
spike_lut == {"TIMER_CONFIG", "TIMER_RTC", "TIMER_UPTIME"}
nutshell_lut == spike_lut

Tables == [native |-> native_lut, nemu |-> nemu_lut, qemu |-> qemu_lut, npc |-> npc_lut,
           ysyxsoc |-> ysyxsoc_lut, spike |-> spike_lut, nutshell |-> nutshell_lut]

\* mutant: the entry of the frame buffer is missing
TableNoDraw(p) == Tables[p] \ {"GPU_FBDRAW"}

Table(p) == Tables[p]

(* What the CONFIG handlers answer: the fields that a program goes by. *)

Present(flag, more) == [f \in {"present"} \cup more |-> f = "present" /\ flag]
WithRtc == [present |-> TRUE, has_rtc |-> TRUE]
Gpu == Present(TRUE, Readable["GPU_CONFIG"])      \* has_accel is false everywhere

native_gpu_config == Gpu
native_audio_config == Present(TRUE, {"bufsize"})
native_disk_config == Present(diskimg, {"blksz", "blkcnt"})
native_config(reg) ==
  CASE reg = "TIMER_CONFIG" -> WithRtc
    [] reg = "GPU_CONFIG" -> native_gpu_config
    [] reg = "DISK_CONFIG" -> native_disk_config
    [] reg = "AUDIO_CONFIG" -> native_audio_config
    [] OTHER -> Present(reg # "NET_CONFIG", {})

nemu_config(reg) ==
  CASE reg = "TIMER_CONFIG" -> WithRtc
    [] reg = "GPU_CONFIG" -> Gpu
    [] reg = "AUDIO_CONFIG" -> Present(TRUE, {"bufsize"})
    [] OTHER -> Present(reg = "INPUT_CONFIG", {})

qemu_config(reg) ==
  CASE reg = "TIMER_CONFIG" -> WithRtc
    [] reg = "GPU_CONFIG" -> Gpu
    [] reg = "DISK_CONFIG" -> Present(TRUE, {"blksz", "blkcnt"})
    [] OTHER -> Present(reg \notin {"AUDIO_CONFIG", "NET_CONFIG"}, {})

\* spike and nutshell have the first line only
npc_config(reg) == IF reg = "TIMER_CONFIG" THEN WithRtc ELSE Present(reg = "INPUT_CONFIG", {})

Config(p, reg) ==
  CASE p = "native" -> native_config(reg) [] p = "nemu" -> nemu_config(reg)
    [] p = "qemu" -> qemu_config(reg) [] OTHER -> npc_config(reg)

\* the fields a handler writes: all, but that of nemu's disk has an empty body
Fills(p, reg) ==
  IF \E d \in Devs : reg = ConfigOf[d] THEN DOMAIN Config(p, reg)
  ELSE IF p = "nemu" /\ reg = "DISK_STATUS" THEN {} ELSE Readable[reg]

-----------------------------------------------------------------------------
(* The calls. *)

closed == [r \in AM_DEVREG |-> IF lut[r] = "NULL" THEN "fail" ELSE lut[r]]

\* what is started: by native's first access, by qemu's ioe_init, and by that of the others
native_started == {"TIMER", "GPU", "INPUT", "UART", "AUDIO", "DISK"}
qemu_started == {"UART", "TIMER", "GPU"}
nemu_started == {"TIMER"}

\* what there is to start: nothing starts these two of nemu
WithInit(p) == CASE p = "native" -> native_started [] p = "qemu" -> qemu_started
                 [] p = "nemu" -> nemu_started \cup {"GPU", "AUDIO"} [] OTHER -> nemu_started

IoeInit ==
  /\ ioe_port \in IoePorts /\ diskimg \in BOOLEAN /\ (diskimg => ioe_port = "native")
  /\ lut = [r \in AM_DEVREG |-> IF r \in Table(ioe_port) THEN "handler" ELSE "NULL"]
  /\ started = {} /\ early = {} /\ fate = "runs" /\ config = <<>> /\ careful = TRUE
  /\ answer = [reg |-> "none", fields |-> {}]

native_ioe_init(cpu) ==
  /\ ioe_port = "native"
  /\ fate' = (IF cpu # 0 \/ started # {} THEN "panic" ELSE "runs") /\ UNCHANGED <<lut, started>>
qemu_ioe_init(cpu) ==
  /\ ioe_port = "qemu"
  /\ IF cpu # 0 THEN fate' = "panic" /\ UNCHANGED <<lut, started>>
     ELSE lut' = closed /\ started' = qemu_started /\ UNCHANGED fate
nemu_ioe_init ==
  /\ ioe_port \in {"nemu", "npc", "ysyxsoc", "spike"}
  /\ lut' = closed /\ started' = nemu_started /\ UNCHANGED fate
\* the holes of its table stay open
nutshell_ioe_init == ioe_port = "nutshell" /\ started' = nemu_started /\ UNCHANGED <<lut, fate>>

ioe_init(cpu) ==
  /\ fate = "runs" /\ careful' = (careful /\ cpu = 0 /\ started = {})
  /\ native_ioe_init(cpu) \/ qemu_ioe_init(cpu) \/ nemu_ioe_init \/ nutshell_ioe_init
  /\ UNCHANGED <<ioe_port, diskimg, early, config, answer>>

\* a program keeps the rules if it initialises first and uses what a CONFIG register promised;
\* the small ports have no CONFIG register for what they lack
Small == Platforms \ {"native", "nemu", "qemu"}
Promised(reg) ==
  LET c == ConfigOf[DevOf(reg)]
  IN IF reg = c THEN ioe_port \in Small => reg \in Table(ioe_port)
     ELSE /\ c \in DOMAIN config /\ config[c].present
          /\ reg = "TIMER_RTC" => config[c].has_rtc
          /\ reg \in {"GPU_MEMCPY", "GPU_RENDER"} => config[c].has_accel
Allowed(reg) == (ioe_port # "native" => started # {}) /\ Promised(reg)

\* native starts the devices at the first access, whoever makes it
Called(reg) == IF ioe_port = "native" /\ started = {} THEN closed[reg] ELSE lut[reg]
do_io(reg) ==
  /\ fate = "runs" /\ careful' = (careful /\ Allowed(reg))
  /\ IF ioe_port = "native" /\ started = {}
     THEN lut' = closed /\ started' = native_started ELSE UNCHANGED <<lut, started>>
  /\ fate' = (CASE Called(reg) = "handler" -> "runs" [] Called(reg) = "fail" -> "panic" [] OTHER -> "lost")
  /\ early' = (IF Called(reg) # "handler" \/ reg = ConfigOf[DevOf(reg)] THEN early
               ELSE early \cup ({DevOf(reg)} \cap (WithInit(ioe_port) \ started')))
  /\ UNCHANGED <<ioe_port, diskimg>>

io_read(reg) ==
  /\ do_io(reg)
  /\ IF Called(reg) = "handler"
     THEN /\ answer' = [reg |-> reg, fields |-> Fills(ioe_port, reg)]
          /\ config' = (IF reg # ConfigOf[DevOf(reg)] THEN config
                        ELSE [r \in DOMAIN config \cup {reg} |->
                                IF r = reg THEN Config(ioe_port, reg) ELSE config[r]])
     ELSE UNCHANGED <<answer, config>>

io_write(reg) == do_io(reg) /\ UNCHANGED <<answer, config>>

IoeNext ==
  \/ \E cpu \in {0, 1} : ioe_init(cpu)
  \/ \E reg \in DOMAIN Readable : io_read(reg)
  \/ \E reg \in Writable : io_write(reg)

-----------------------------------------------------------------------------
(* A program that initialises the devices once, on the boot processor, and    *)
(* uses of them what their CONFIG registers promise, ends in no panic and     *)
(* calls no NULL; what it reads has been written, and comes from a device     *)
(* that was initialised.  nemu's screen and sound are the exceptions to the   *)
(* last.                                                                     *)
Served ==
  careful =>
    /\ fate = "runs"
    /\ early \subseteq (IF ioe_port = "nemu" THEN {"GPU", "AUDIO"} ELSE {})
    /\ answer.reg # "none" =>
         \/ answer.fields = Readable[answer.reg]
         \/ answer.reg \in DOMAIN config /\ "present" \in answer.fields /\ ~config[answer.reg].present
=============================================================================
