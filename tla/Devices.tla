------------------------------- MODULE Devices --------------------------------
(***************************************************************************)
(* The devices behind the I/O extension and the registers in front of them, *)
(* the start-up of x86-qemu that finds and sets up its machine, and that of *)
(* native.  They share no state, and a driver is called by one CPU at a     *)
(* time: a behaviour looks at one of them, and the others rest in one of    *)
(* their initial states.                                                   *)
(***************************************************************************)
EXTENDS Consoles, Clocks, KeyQueue, Disk, Displays, NativeAudio, X86Boot, Ioe, NativePlatform

VARIABLE device

devvars == <<device, cvars, tvars, kvars, dvars, gvars, avars, bvars, ivars, pvars>>

Pick(S) == CHOOSE x \in S : TRUE

DevicesInit ==
  /\ device \in {"console", "clock", "keyboard", "disk", "display", "audio", "boot",
                "registers", "memory"}
  /\ ConsolesInit /\ (device # "console" => cport = Pick(ConsolePorts))
  /\ ClocksInit /\ (device # "clock" => clock = "rtc" /\ now = Pick(Starts))
  /\ DisplaysInit /\ (device # "display" => screen = "x86")
  /\ X86BootInit
  /\ device # "boot" => mach = Pick([arch : {"i386"}, kernel : Kernels, table : MPTables,
                                     mem : MemSizes, ver : {4}])
  /\ IoeInit /\ (device # "registers" => ioe_port = Pick(IoePorts) /\ ~diskimg)
  /\ KeyQueueInit /\ DiskInit /\ NativeAudioInit /\ NativePlatformInit

DevicesNext ==
  /\ UNCHANGED device
  /\ \/ /\ device = "console" /\ ConsolesNext
        /\ UNCHANGED <<tvars, kvars, dvars, gvars, avars, bvars, ivars, pvars>>
     \/ /\ device = "clock" /\ ClocksNext
        /\ UNCHANGED <<cvars, kvars, dvars, gvars, avars, bvars, ivars, pvars>>
     \/ /\ device = "keyboard" /\ KeyQueueNext
        /\ UNCHANGED <<cvars, tvars, dvars, gvars, avars, bvars, ivars, pvars>>
     \/ /\ device = "disk" /\ DiskNext
        /\ UNCHANGED <<cvars, tvars, kvars, gvars, avars, bvars, ivars, pvars>>
     \/ /\ device = "display" /\ DisplaysNext
        /\ UNCHANGED <<cvars, tvars, kvars, dvars, avars, bvars, ivars, pvars>>
     \/ /\ device = "audio" /\ NativeAudioNext
        /\ UNCHANGED <<cvars, tvars, kvars, dvars, gvars, bvars, ivars, pvars>>
     \/ /\ device = "boot" /\ X86BootNext
        /\ UNCHANGED <<cvars, tvars, kvars, dvars, gvars, avars, ivars, pvars>>
     \/ /\ device = "registers" /\ IoeNext
        /\ UNCHANGED <<cvars, tvars, kvars, dvars, gvars, avars, bvars, pvars>>
     \/ /\ device = "memory" /\ NativePlatformNext
        /\ UNCHANGED <<cvars, tvars, kvars, dvars, gvars, avars, bvars, ivars>>

Spec == DevicesInit /\ [][DevicesNext]_devvars
=============================================================================
