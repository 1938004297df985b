------------------------------ MODULE Startup -------------------------------
(***************************************************************************)
(* What the machine goes through when it starts: from the drives to the    *)
(* partition of the system, from the PCI bus to the drivers that are       *)
(* active, and through a fault that comes at any moment of it.  None of    *)
(* these reads what another one keeps, so one of them is chosen in the     *)
(* beginning and takes all the steps.                                      *)
(***************************************************************************)
EXTENDS Integers, Sequences

CONSTANTS
  Answers, Tables, Reserved, Wide, MaxFails, EarlyFail,        \* BootDisk
  Buses, DriverFiles, Exported, HeapStart,                     \* Drivers
  MapFiles, KernelStacks, UserStacks, UserTop, LowFrame,
  HighFrame, KernelFrames, UserFrames, FarAway, MaxResets      \* Panic

VARIABLES
  starting,  \* the component that runs
  drives, table, systems, step, drive, partitions, fails,      \* BootDisk
  bus, bgaFile, audioFile, stage, memory, heapEnd, modules,
  drivers, activated, display, mixer, handler,                 \* Drivers
  made, mapFile, symbolIndex, activeInstance, mode, panicked,
  stack, userStack, user, trace, resets                        \* Panic

-----------------------------------------------------------------------------
Disk == INSTANCE BootDisk
Drv == INSTANCE Drivers WITH Files <- DriverFiles
Pan == INSTANCE Panic

\* A disk has room for what comes before its first partition, and its sectors are
\* counted in a machine integer.
DisksUsable ==
  /\ Reserved \in Nat /\ Wide \in Nat
  /\ Answers \subseteq {<<"none", 0>>, <<"error", 0>>} \cup ({"disk"} \X (Reserved..(Wide - 1)))
  /\ Tables \subseteq Seq([type : {"none", "fat", "other"}, start : Nat, length : Nat])

\* The file of a driver is what the linker makes: symbols and relocations lie in its
\* sections, a word has one relocation, and no symbol's name goes on after that of the
\* entry. Sections that are not loaded are shorter than what lies below the heap.
ModuleSections == [alloc : BOOLEAN, words : Seq(Int)]
ModuleSymbols == [name : STRING, section : Nat, value : Int]
ModuleRelocations == [section : Nat, offset : Nat, symbol : Nat, type : {"relative", "absolute"}]
WellBuilt(f) ==
  /\ f.sections \in Seq(ModuleSections) /\ f.symbols \in Seq(ModuleSymbols)
  /\ f.relocations \in Seq(ModuleRelocations)
  /\ f.relocatable \in BOOLEAN
  /\ \A n \in DOMAIN f.symbols :
       f.symbols[n].section \in 0..Len(f.sections) /\ f.symbols[n].name # Drv!LongerName
  /\ \A r \in DOMAIN f.relocations :
       /\ f.relocations[r].section \in DOMAIN f.sections /\ f.relocations[r].symbol \in DOMAIN f.symbols
       /\ f.relocations[r].offset < Len(f.sections[f.relocations[r].section].words)
  /\ \A r, q \in DOMAIN f.relocations :
       f.relocations[r].section = f.relocations[q].section
         /\ f.relocations[r].offset = f.relocations[q].offset => r = q
  /\ \A s \in DOMAIN f.sections : f.sections[s].alloc \/ Len(f.sections[s].words) <= HeapStart
DriversUsable ==
  /\ HeapStart \in Nat /\ \A n \in DOMAIN Exported : Exported[n] \in Int
  /\ \A f \in DriverFiles : WellBuilt(f)

\* In the map a section that begins on a line of its own begins with a function; the
\* frames of the kernel's stack lead to frames of it or away from the kernel, and nothing
\* is mapped at address 0.
MapLines == [kind : {"header", "section", "wrapped section", "symbol"}, addr : Int, name : STRING]
FaultsUsable ==
  /\ LowFrame \in Int /\ HighFrame \in Int /\ UserTop \in Int /\ FarAway \in Int
  /\ KernelFrames \in Nat /\ UserFrames \in Nat
  /\ \A m \in MapFiles :
       /\ m \in Seq(MapLines)
       /\ \A i \in DOMAIN m : m[i].kind = "wrapped section" =>
            \E j \in DOMAIN m : i < j /\ m[j].kind = "symbol" /\ m[j].addr = m[i].addr
  /\ \A k \in KernelStacks :
       /\ 1 \in DOMAIN k
       /\ \A a \in DOMAIN k :
            /\ a \in Int /\ k[a] \in Int \X Int
            /\ k[a][1] \in LowFrame..(HighFrame - 1) => k[a][1] \in DOMAIN k
  /\ \A u \in UserStacks : 0 \notin DOMAIN u /\ \A a \in DOMAIN u : a \in Int /\ u[a] \in Int \X Int

ASSUME StartupAssumption == DisksUsable /\ DriversUsable /\ FaultsUsable

diskVars == <<drives, table, systems, step, drive, partitions, fails>>
driverVars ==
  <<bus, bgaFile, audioFile, stage, memory, heapEnd, modules, drivers,
    activated, display, mixer, handler>>
panicVars ==
  <<made, mapFile, symbolIndex, activeInstance, mode, panicked, stack,
    userStack, user, trace, resets>>
startupVars == <<starting, diskVars, driverVars, panicVars>>

StartupInit ==
  /\ IF starting = "disk" THEN Disk!Init
     ELSE /\ drives = <<>> /\ table = <<>> /\ systems = <<>>
          /\ step = "identify" /\ drive = 1 /\ partitions = <<>> /\ fails = 0
  /\ IF starting = "drivers" THEN Drv!Init
     ELSE /\ bus = <<>> /\ bgaFile = <<>> /\ audioFile = <<>> /\ stage = "display"
          /\ memory = <<>> /\ heapEnd = HeapStart /\ modules = <<>> /\ drivers = <<>>
          /\ activated = <<>> /\ display = 0 /\ mixer = 0 /\ handler = 0
  /\ IF starting = "panic" THEN Pan!Init
     ELSE /\ made = 0 /\ mapFile = <<>> /\ symbolIndex = <<>> /\ activeInstance = FALSE
          /\ mode = "boot" /\ panicked = 0 /\ stack = <<>> /\ userStack = <<>>
          /\ user = FALSE /\ trace = <<>> /\ resets = 0

StartupNext ==
  \/ starting = "disk" /\ Disk!Next /\ UNCHANGED <<starting, driverVars, panicVars>>
  \/ starting = "drivers" /\ Drv!Next /\ UNCHANGED <<starting, diskVars, panicVars>>
  \/ starting = "panic" /\ Pan!Next /\ UNCHANGED <<starting, diskVars, driverVars>>

StartupSpec == StartupInit /\ [][StartupNext]_startupVars

-----------------------------------------------------------------------------
\* The boot comes to a system that can be used: on the first disk, whatever it held
\* and wherever the power failed before, the setup of a blank disk excepted when
\* EarlyFail is FALSE; with drivers that are linked, activated
\* once and in their place; and a fault at any moment of it is reported with what is
\* there by then, or resets the machine.
BootRight ==
  /\ starting = "disk" => Disk!BootsFromFirst
  /\ starting = "drivers" => Drv!DriversReady
  /\ starting = "panic" => Pan!FaultReported
=============================================================================
