------------------------------ MODULE BootDisk ------------------------------
(***************************************************************************)
(* From the drives to the partition that the system boots from: Identify() *)
(* of core/drivers/ata.cpp, core/filesystem/msdospart.cpp and the part of  *)
(* kernelMain() that calls them.  The power may fail between any two steps *)
(* of it.                                                                  *)
(*                                                                         *)
(* Of a sector the model keeps what the boot looks at: the partition table *)
(* and whether a partition begins with a file system.                      *)
(***************************************************************************)
EXTENDS Integers, FiniteSets, Sequences

CONSTANTS
  Answers,    \* what a drive can be: <<"none", 0>>, <<"error", 0>>, <<"disk", sectors>>
  Tables,     \* what its first sector can hold: Blank, or a sequence of entries
  Reserved,   \* the sectors before the first partition
  Wide,       \* the number of unsigned machine integers
  MaxFails,   \* a bound: how often the power fails
  EarlyFail   \* whether it may while a blank disk is set up

VARIABLES
  drives,      \* what each of the four drives is
  table,       \* for each drive, its partition table
  systems,     \* for each drive, the sectors with which a file system begins
  step,        \* the step of the boot
  drive,       \* the drive it looks at, or has chosen
  partitions,  \* the mounted partitions: where each begins, and valid
  fails

disks == <<drives, table, systems>>
boot == <<step, drive, partitions>>
vars == <<disks, boot, fails>>

Blank == << >>
Entry(type, start, length) == [type |-> type, start |-> start, length |-> length]
Unused == Entry("none", 0, 0)

Sectors(d) == drives[d][2]

\* Identify(): a drive is there when its channel is not floating, it answers the
\* command and reports no error.
OnChannel(d) == {e \in 1..4 : (e - 1) \div 2 = (d - 1) \div 2}
Identify(d) ==
  IF \A e \in OnChannel(d) : drives[e][1] = "none" THEN 0
  ELSE IF drives[d][1] # "disk" THEN 0
  ELSE Sectors(d)

\* The loop in kernelMain(): the first drive found.
FindDrive ==
  /\ step = "identify"
  /\ IF Identify(drive) # 0
       THEN step' = "table" /\ UNCHANGED drive
     ELSE IF drive < 4
       THEN drive' = drive + 1 /\ UNCHANGED step
     ELSE step' = "halted" /\ UNCHANGED drive
  /\ UNCHANGED <<disks, partitions, fails>>

\* ReadPartitions(): a disk without a valid table is set up from nothing.
ReadPartitions ==
  /\ step = "table"
  /\ step' = IF table[drive] # Blank THEN "mount" ELSE "initialize"
  /\ UNCHANGED <<disks, drive, partitions, fails>>

HalvesOfAll(sectors) ==
  <<Entry("fat", Reserved, sectors \div 2),
    Entry("fat", Reserved + (sectors \div 2), sectors - (sectors \div 2)),
    Unused, Unused>>

\* Initialize(): half of the disk for each of two partitions.
Halves(sectors) ==
  LET available == (sectors - Reserved) % Wide
      p1_size   == available \div 2
  IN  <<Entry("fat", Reserved, p1_size),
        Entry("fat", (Reserved + p1_size) % Wide, (available - p1_size) % Wide),
        Unused, Unused>>

WriteTable ==
  /\ step = "initialize"
  /\ table' = [table EXCEPT ![drive] = Halves(Sectors(drive))]
  /\ step' = "format 1"
  /\ UNCHANGED <<drives, systems, drive, partitions, fails>>

\* FormatRaw() of each, and then the message to copy the files and hlt.
FormatPartition ==
  /\ step \in {"format 1", "format 2"}
  /\ LET n == IF step = "format 1" THEN 1 ELSE 2
     IN  systems' = [systems EXCEPT ![drive] = @ \cup {table[drive][n].start}]
  /\ step' = IF step = "format 1" THEN "format 2" ELSE "halted"
  /\ UNCHANGED <<drives, table, drive, partitions, fails>>

\* Every FAT32 entry is mounted; FAT32() looks at the signature in its first sector.
Mounted(t, d) ==
  LET m[i \in 0..Len(t)] ==
        IF i = 0 THEN <<>>
        ELSE IF t[i].type # "fat" THEN m[i - 1]
        ELSE Append(m[i - 1], [start |-> t[i].start, valid |-> t[i].start \in systems[d]])
  IN  m[Len(t)]

MountPartitions ==
  /\ step = "mount"
  /\ partitions' = Mounted(table[drive], drive)
  /\ step' = IF partitions' = <<>> THEN "halted" ELSE "booted"
  /\ UNCHANGED <<disks, drive, fails>>

\* The power fails, or someone restarts a machine that has halted.
Restart ==
  /\ fails < MaxFails
  /\ step = "halted" \/ EarlyFail \/ step \notin {"format 1", "format 2"}
  /\ fails' = fails + 1
  /\ step' = "identify" /\ drive' = 1 /\ partitions' = <<>>
  /\ UNCHANGED disks

\* A disk that has a table was made by "make hdd", or by Initialize() before.
Init ==
  /\ drives \in [1..4 -> Answers]
  /\ \E t \in Tables :
       /\ table = [d \in 1..4 |-> IF drives[d][1] = "disk" THEN t ELSE Blank]
       /\ systems = [d \in 1..4 |-> IF drives[d][1] # "disk" THEN {}
                                    ELSE {t[i].start : i \in {j \in DOMAIN t : t[j].type = "fat"}}]
  /\ step = "identify" /\ drive = 1 /\ partitions = <<>>
  /\ fails = 0

Next ==
  \/ FindDrive \/ ReadPartitions \/ WriteTable \/ FormatPartition \/ MountPartitions \/ Restart

Spec == Init /\ [][Next]_vars

\* Once a disk was set up, the next boot finds a file system on its first
\* partition, wherever the boot was stopped (but not within the setup of the disk,
\* when EarlyFail is FALSE); the partitions of a table written by Initialize() lie
\* in the disk, behind the table and apart from each other; and the machine boots
\* from the first disk there is, or halts because there is none with such a
\* partition (kernelMain(), ReadPartitions(), Initialize()).
BootsFromFirst ==
  LET present == {d \in 1..4 : drives[d][1] = "disk" /\ Sectors(d) # 0}
      sectors(e) == e.start..(e.start + e.length - 1)
  IN  /\ step = "booted" =>
           /\ partitions[1].valid
           /\ drive \in present /\ \A d \in present : drive <= d
      /\ \A d \in present : table[d] = Halves(Sectors(d)) =>
           /\ \A i \in {1, 2} : sectors(table[d][i]) \subseteq Reserved..(Sectors(d) - 1)
           /\ sectors(table[d][1]) \cap sectors(table[d][2]) = {}
      /\ (step = "halted" /\ drive = 4 /\ Identify(4) = 0) => present = {}
=============================================================================
