------------------------------ MODULE Drivers ------------------------------
(***************************************************************************)
(* Drivers that are loaded at boot: the search for a device on the PCI bus *)
(* (core/pci.cpp), the loader and linker of modules                        *)
(* (core/drivers/ModuleLoader.cpp, SymbolTable.cpp), their activation      *)
(* (core/driver.cpp, drivers/bga.cpp, drivers/ac97.cpp) and init_pci() in  *)
(* kernel.cpp, which puts them in place.                                   *)
(*                                                                         *)
(* A module is its sections, each a sequence of words, its symbols and its *)
(* relocations; section and symbol numbers begin with 1, and 0 is none.    *)
(***************************************************************************)
EXTENDS Integers, Sequences, FiniteSets

CONSTANTS
  Buses,       \* what the bus can hold: sequences of devices
  Files,       \* what the file of a driver can hold; one that is not there is not probed
  Exported,    \* from the names that the kernel exports to their addresses
  HeapStart    \* the address of the first area that kmalloc() returns

VARIABLES
  bus,         \* the devices, in the order of the scan
  bgaFile, audioFile,
  stage,       \* the part of the boot
  memory,      \* from an address that was written to its word
  heapEnd,     \* kmalloc() gives the next area from here on
  modules,     \* what was loaded: the file, its sections' addresses, the entry
  drivers,     \* the drivers in the manager: their kinds
  activated,   \* for each of them, how often Activate() was successful
  display,     \* the driver that g_GraphicsDriver is, or 0 for the one of the boot
  mixer,       \* the driver that g_AudioMixer plays on, or 0 for none
  handler      \* the driver whose handler the device's interrupt calls, or 0

place == <<memory, heapEnd, modules>>
manager == <<drivers, activated, display, mixer, handler>>
vars == <<bus, bgaFile, audioFile, stage, place, manager>>

Nothing == "nothing"
Bga == <<"qemu", "virtualbox", "vmware">>
Audio == "ac97"
EntryName == "CreateDriverInstance"
LongerName == "CreateDriverInstance2"

-----------------------------------------------------------------------------
\* FindHardwareDevice(): functions above 0 are looked at when the header of
\* function 0 says so; one that is not there reads as all ones.
FunctionsOf(device) == IF device.multi \/ device.ids[1] = Nothing THEN DOMAIN device.ids ELSE {1}
Found(id) ==
  {at \in (DOMAIN bus) \X (1..2) : at[2] \in FunctionsOf(bus[at[1]]) /\ bus[at[1]].ids[at[2]] = id}
FindHardwareDevice(id) == IF Found(id) = {} THEN Nothing ELSE id

\* The three graphics cards in turn.
FindDisplay ==
  LET there == {i \in DOMAIN Bga : FindHardwareDevice(Bga[i]) # Nothing}
  IN  IF there = {} THEN Nothing ELSE Bga[CHOOSE i \in there : \A j \in there : i <= j]

\* LoadMatchingDriver(): the list of devices in .driver_info ends with the first
\* empty slot.
Listed(devices, id) ==
  \E i \in DOMAIN devices : devices[i] = id /\ \A j \in 1..i : devices[j] # Nothing
Supports(file, id) == file.probed /\ Listed(file.devices, id)

-----------------------------------------------------------------------------
\* LoadDriver(): an area from kmalloc() for each section to be loaded, in order.
AddressesOf(file) ==
  LET a[i \in 0..Len(file.sections)] ==
        IF i = 0 THEN [next |-> heapEnd, at |-> <<>>]
        ELSE LET s == file.sections[i]
             IN  IF s.alloc
                   THEN [next |-> a[i - 1].next + Len(s.words), at |-> Append(a[i - 1].at, a[i - 1].next)]
                   ELSE [next |-> a[i - 1].next, at |-> Append(a[i - 1].at, 0)]
  IN  a[Len(file.sections)]

Image(file, at) ==
  LET inside(i) == {<<at[i] + w - 1, file.sections[i].words[w]>> : w \in DOMAIN file.sections[i].words}
      cells == UNION {inside(i) : i \in {j \in DOMAIN file.sections : file.sections[j].alloc}}
  IN  [p \in {c[1] : c \in cells} |-> (CHOOSE c \in cells : c[1] = p)[2]]

SymbolValue(file, at, n) ==
  LET symbol == file.symbols[n]
  IN  IF symbol.section = 0
        THEN (IF symbol.name \in DOMAIN Exported THEN Exported[symbol.name] ELSE 0)
      ELSE at[symbol.section] + symbol.value

Word(cells, address) == IF address \in DOMAIN cells THEN cells[address] ELSE 0

PatchedAbsolute(file, at, cells, r) ==
  LET target == at[r.section] + r.offset
  IN  [p \in DOMAIN cells \cup {target} |->
        IF p = target THEN Word(cells, p) + SymbolValue(file, at, r.symbol) ELSE Word(cells, p)]

\* A relocation adds to the word that is there.  The relocations of a section that
\* is not loaded add to the memory from address 0 on.
Patched(file, at, cells, r) ==
  LET target == at[r.section] + r.offset
      value  == SymbolValue(file, at, r.symbol) - (IF r.type = "relative" THEN target ELSE 0)
  IN  [p \in DOMAIN cells \cup {target} |->
        IF p = target THEN Word(cells, p) + value ELSE Word(cells, p)]

Linked(file, at) ==
  LET rels == file.relocations
      m[i \in 0..Len(rels)] ==
        IF i = 0
          THEN LET image == Image(file, at)
               IN  [p \in DOMAIN memory \cup DOMAIN image |->
                     IF p \in DOMAIN image THEN image[p] ELSE memory[p]]
        ELSE Patched(file, at, m[i - 1], rels[i])
  IN  m[Len(rels)]

\* The first defined symbol whose name begins with that of the entry.
EntryOf(file, at) ==
  LET named == {i \in DOMAIN file.symbols :
                  file.symbols[i].name \in {EntryName, LongerName} /\ file.symbols[i].section # 0}
  IN  IF named = {} THEN 0
      ELSE SymbolValue(file, at, CHOOSE i \in named : \A j \in named : i <= j)

LoadDriver(file) ==
  IF ~file.relocatable
    THEN UNCHANGED place
  ELSE LET areas == AddressesOf(file)
       IN  /\ memory' = Linked(file, areas.at)
           /\ heapEnd' = areas.next
           /\ modules' = Append(modules, [file |-> file, at |-> areas.at,
                                          entry |-> EntryOf(file, areas.at)])

-----------------------------------------------------------------------------
\* Activate() looks for the device again; one of the boot's own drivers is there.
HasDevice(kind) ==
  CASE kind = "display" -> FindDisplay # Nothing
    [] kind = "audio"   -> FindHardwareDevice(Audio) # Nothing
    [] OTHER            -> TRUE

\* The module is loaded, an instance made and activated, and given to the manager,
\* for a file that supports the device that was found.
Install(file) ==
  /\ LoadDriver(file)
  /\ IF ~file.relocatable \/ EntryOf(file, AddressesOf(file).at) = 0
       THEN UNCHANGED manager
     ELSE /\ drivers' = Append(drivers, file.kind)
          /\ activated' = Append(activated, IF HasDevice(file.kind) THEN 1 ELSE 0)
          /\ handler' = IF file.kind = "audio" /\ HasDevice(file.kind)
                          THEN Len(drivers) + 1 ELSE handler

\* init_pci(), first part: a driver that draws takes over the display.
LoadDisplay ==
  /\ stage = "display"
  /\ stage' = "audio"
  /\ IF FindDisplay # Nothing /\ Supports(bgaFile, FindDisplay)
       THEN /\ Install(bgaFile)
            /\ display' = IF drivers' # drivers /\ bgaFile.kind = "display"
                            THEN Len(drivers') ELSE display
            /\ UNCHANGED mixer
       ELSE UNCHANGED <<place, manager>>
  /\ UNCHANGED <<bus, bgaFile, audioFile>>

\* The second part: a driver of sound gets a mixer.
LoadAudio ==
  /\ stage = "audio"
  /\ stage' = "input"
  /\ IF FindHardwareDevice(Audio) # Nothing /\ Supports(audioFile, Audio)
       THEN /\ Install(audioFile)
            /\ mixer' = IF drivers' # drivers /\ audioFile.kind = "audio"
                          THEN Len(drivers') ELSE mixer
            /\ UNCHANGED display
       ELSE UNCHANGED <<place, manager>>
  /\ UNCHANGED <<bus, bgaFile, audioFile>>

\* The mouse and the keyboard, which kernelMain() adds next.
AddInput ==
  /\ stage = "input"
  /\ stage' = "activate"
  /\ drivers' = drivers \o <<"mouse", "keyboard">>
  /\ activated' = activated \o <<0, 0>>
  /\ UNCHANGED <<bus, bgaFile, audioFile, place, display, mixer, handler>>

AllDrivers == DOMAIN drivers

\* ActivateAll() leaves out the drivers that are active.
ToActivate == {i \in DOMAIN drivers : activated[i] = 0}
ActivateAll ==
  /\ stage = "activate"
  /\ stage' = "running"
  /\ activated' = [i \in DOMAIN drivers |->
       IF i \in ToActivate /\ HasDevice(drivers[i]) THEN activated[i] + 1 ELSE activated[i]]
  /\ UNCHANGED <<bus, bgaFile, audioFile, place, drivers, display, mixer, handler>>

-----------------------------------------------------------------------------
Init ==
  /\ bus \in Buses /\ bgaFile \in Files /\ audioFile \in Files
  /\ stage = "display"
  /\ memory = <<>> /\ heapEnd = HeapStart /\ modules = <<>>
  /\ drivers = <<>> /\ activated = <<>>
  /\ display = 0 /\ mixer = 0 /\ handler = 0

Next == LoadDisplay \/ LoadAudio \/ AddInput \/ ActivateAll

Spec == Init /\ [][Next]_vars

-----------------------------------------------------------------------------
\* A module in memory is whole: each of its words is the one of its file, and where
\* a relocation changed it, it leads to its symbol from wherever the section was
\* put; and the entry is the module's CreateDriverInstance() (LoadDriver()).  A
\* symbol that the kernel does not export leads nowhere.
ModuleWhole(m) ==
  LET home(n) == LET s == m.file.symbols[n] IN m.at[s.section] + s.value
      known(n) == m.file.symbols[n].section # 0 \/ m.file.symbols[n].name \in DOMAIN Exported
      aim(n) == IF m.file.symbols[n].section # 0 THEN home(n) ELSE Exported[m.file.symbols[n].name]
      here(s, w) == {r \in DOMAIN m.file.relocations :
                       m.file.relocations[r].section = s /\ m.file.relocations[r].offset = w - 1}
  IN  /\ \A s \in DOMAIN m.file.sections : m.file.sections[s].alloc =>
           \A w \in DOMAIN m.file.sections[s].words :
             LET word == m.file.sections[s].words[w]
                 target == m.at[s] + w - 1
             IN  /\ here(s, w) = {} => memory[target] = word
                 /\ \A r \in here(s, w) :
                      LET rel == m.file.relocations[r]
                      IN  known(rel.symbol) =>
                            memory[target] - word =
                              IF rel.type = "relative" THEN aim(rel.symbol) - target ELSE aim(rel.symbol)
      /\ m.entry # 0 => \E n \in DOMAIN m.file.symbols :
           m.file.symbols[n].name = EntryName /\ m.entry = home(n)

\* All of them are, whatever was loaded before or after.
ModulesWhole == \A i \in DOMAIN modules : ModuleWhole(modules[i])

\* When the machine runs, every driver whose device is there was activated, and
\* once only; the display and the mixer are on drivers of their kind for a device
\* that is there, and the interrupt of the sound reaches the driver that the
\* mixer plays on (init_pci(), AddDriver(), ActivateAll()).
DriversReady ==
  /\ ModulesWhole
  /\ stage = "running" =>
       /\ \A i \in DOMAIN drivers : activated[i] = IF HasDevice(drivers[i]) THEN 1 ELSE 0
       /\ display # 0 => drivers[display] = "display" /\ activated[display] = 1
       /\ mixer # 0 => drivers[mixer] = "audio" /\ activated[mixer] = 1 /\ handler = mixer
=============================================================================
