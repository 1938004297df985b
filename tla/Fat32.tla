-------------------------------- MODULE Fat32 --------------------------------
(***************************************************************************)
(* core/filesystem/FAT32.cpp and File.cpp: files and directories as chains *)
(* of clusters.  Each write of a sector is a step, and the machine may     *)
(* stop between any two of them.                                           *)
(*                                                                         *)
(* A cluster is one sector of Slots directory entries or ClusterSize       *)
(* bytes.  The first copy of the FAT is `fat'; the code reads and writes   *)
(* no other after formatting.                                              *)
(***************************************************************************)
EXTENDS Naturals, FiniteSets, SequencesExt

CONSTANTS
  LastCluster,  \* bound: the last cluster the FAT has an entry for
  Slots,        \* directory entries of a cluster
  ClusterSize,  \* bytes of a cluster
  NameLength,   \* characters of a stored name
  ExtLength,    \* characters of a stored extension
  Upper,        \* from the characters of paths to capitals
  Paths,        \* bound: the paths programs use, sequences of tokens
  Lengths,      \* bound: the lengths written
  FormatEnd,    \* last cluster whose FAT entry a format clears
  HostFiles     \* names of files put on a fresh disk from outside, without a cluster

VARIABLES
  fat,     \* the table, a link for each cluster
  data,    \* the clusters
  job,     \* the operation under way
  file,    \* the open file
  failed   \* whether an operation was stopped or gave up half way

vars == <<fat, data, job, file, failed>>

Root == 2
Free == 0
Eoc == LastCluster + 1         \* every value from 0x0FFFFFF8 on
Cluster == Root..LastCluster

-----------------------------------------------------------------------------
\* Names

\* A token's name and extension as a directory stores them, in capitals and cut.
StringToFatName(s) ==
  LET cap == [i \in DOMAIN s |-> Upper[s[i]]]
      dot == SelectInSeq(s, LAMBDA ch : ch = ".")
      stem == IF dot = 0 THEN Len(s) ELSE dot - 1
      lesser(a, b) == IF a < b THEN a ELSE b
  IN  <<SubSeq(cap, 1, lesser(stem, NameLength)),
        IF dot = 0 THEN <<>> ELSE SubSeq(cap, dot + 1, lesser(Len(s), dot + ExtLength))>>

Stored == [path \in Paths |-> [i \in DOMAIN path |-> StringToFatName(path[i])]]
FatPath(path) == Stored[path]

\* The names of the tokens of the paths.
Names == UNION {Range(Stored[p]) : p \in Paths}

ASSUME GeometryAssumption ==
  /\ LastCluster \in Nat /\ LastCluster >= Root
  /\ Slots \in Nat \ {0} /\ ClusterSize \in Nat \ {0}
  /\ Lengths \subseteq Nat /\ FormatEnd \in Nat

\* A capital is a dot only if the character is one, and a path has a token.
ASSUME NamesAssumption ==
  /\ \A ch \in DOMAIN Upper : Upper[ch] = "." => ch = "."
  /\ NameLength \in Nat /\ ExtLength \in Nat
  /\ Paths \subseteq Seq(Seq(DOMAIN Upper)) \ {<<>>}

\* What the host copied fits in one cluster of the root, under different names.
ASSUME HostAssumption ==
  HostFiles \in Seq(Names) /\ Len(HostFiles) <= Slots /\ IsInjective(HostFiles)

NoName == <<<<>>, <<>>>>
DotName(n) == <<[i \in 1..n |-> "."], <<>>>>

-----------------------------------------------------------------------------
\* Chains and directories

Slot == [kind : {"end", "deleted", "file", "dir", "dot"},
         name : {NoName, DotName(1), DotName(2)} \cup Names,
         first : 0..LastCluster, size : Lengths \cup {0}]

End == [kind |-> "end", name |-> NoName, first |-> 0, size |-> 0]
Deleted == [End EXCEPT !.kind = "deleted"]
Entry(kind, name, first) == [kind |-> kind, name |-> name, first |-> first, size |-> 0]
Dot(n, cluster) == Entry("dot", DotName(n), cluster)

Zeros == [slots |-> [i \in 1..Slots |-> End], of |-> <<>>, part |-> 0]
Bytes(path, part) == [slots |-> <<>>, of |-> path, part |-> part]
Junk == Bytes(<<>>, 0)  \* what was left by an owner before, which is never read

Live(slot) == slot.kind \in {"file", "dir"}

\* The clusters from c to the end of its chain, as the FAT links them.
Chain(c) ==
  LET follow[s \in Seq(0..LastCluster) \ {<<>>}] ==
        IF fat[Last(s)] = Eoc \/ Len(s) > LastCluster THEN s
        ELSE follow[Append(s, fat[Last(s)])]
  IN  follow[<<c>>]

\* All entries of a directory in the order they are scanned.
Directory(c) ==
  LET entries[s \in Seq(0..LastCluster)] ==
        IF s = <<>> THEN <<>> ELSE data[Head(s)].slots \o entries[Tail(s)]
  IN  entries[Chain(c)]

Place(c, n) == <<Chain(c)[((n - 1) \div Slots) + 1], ((n - 1) % Slots) + 1>>

\* The number of the entry with this name, 0 without one.  An end mark ends the search.
FindEntryInCluster(c, name) ==
  LET number[d \in Seq(Slot)] ==
        LET n == SelectInSeq(d, LAMBDA s : s.kind = "end" \/ (s.kind # "deleted" /\ s.name = name))
        IN  IF n # 0 /\ d[n].kind # "end" THEN n ELSE 0
  IN  number[Directory(c)]

\* The first entry that can be written, 0 if the directory has to grow.
FindFreeEntryInCluster(c) ==
  SelectInSeq(Directory(c), LAMBDA s : s.kind \in {"end", "deleted"})

IsFirstClusterEmpty(c) ==
  LET d == data[c].slots
      n == SelectInSeq(d, LAMBDA s : s.kind = "end" \/ Live(s))
  IN  n # 0 => d[n].kind = "end"

IsDirectoryEmpty(c) ==
  LET d == Directory(c)
      n == SelectInSeq(d, LAMBDA s : s.kind = "end" \/ Live(s))
  IN  n # 0 => d[n].kind = "end"

\* The entry with this name in directory c; End if there is no such directory or entry.
EntryIn(c, name) ==
  LET entry[n \in Nat] == IF n = 0 THEN End ELSE Directory(c)[n]
  IN  IF c = 0 THEN End ELSE entry[FindEntryInCluster(c, name)]

\* The cluster of the directory that holds the last name of a path; 0 if there is none.
ResolvePath(p) ==
  LET inside[e \in Slot] == IF e.kind # "dir" THEN 0 ELSE IF e.first = 0 THEN Root ELSE e.first
      walk[i \in 1..Len(p)] == IF i = 1 THEN Root ELSE inside[EntryIn(walk[i - 1], p[i - 1])]
  IN  walk[Len(p)]

EntryOf(p) == LET in[c \in 0..LastCluster] == EntryIn(c, Last(p)) IN in[ResolvePath(p)]
Found(p) == EntryOf(p).kind # "end"
PlaceOf(p) == Place(ResolvePath(p), FindEntryInCluster(ResolvePath(p), Last(p)))

-----------------------------------------------------------------------------
\* Allocation

HasFree == \E c \in Cluster : fat[c] = Free
FirstFree == CHOOSE c \in Cluster : fat[c] = Free /\ \A b \in Cluster : fat[b] = Free => c <= b

Idle == [op |-> "idle", path |-> <<>>, stage |-> "", fresh |-> 0, then |-> "",
         first |-> 0, at |-> 0, length |-> 0, done |-> 0]

NoFile == [first |-> 0, size |-> 0, position |-> 0, path |-> <<>>, got |-> <<>>]

ClaimUnmarked(j, next) ==
  /\ UNCHANGED fat
  /\ job' = [j EXCEPT !.fresh = FirstFree, !.stage = "zero", !.then = next]

\* AllocateCluster()'s first write, on the way of operation j.
Claim(j, next) ==
  /\ fat' = [fat EXCEPT ![FirstFree] = Eoc]
  /\ job' = [j EXCEPT !.fresh = FirstFree, !.stage = "zero", !.then = next]

\* Its other write, which clears the cluster.
Zero ==
  /\ job.stage = "zero"
  /\ data' = [data EXCEPT ![job.fresh] = Zeros]
  /\ job' = [job EXCEPT !.stage = job.then]
  /\ UNCHANGED <<fat, file, failed>>

\* bound: an open file is followed until the disk changes, as the kernel only
\* reads.  After that its first cluster and size may be another file's.
Outdate == file' = NoFile

WriteEntry(place, entry) == data' = [data EXCEPT ![place[1]].slots[place[2]] = entry]

-----------------------------------------------------------------------------
\* CreateFile() and MakeDirectory()

\* The new file's cluster comes first, its entry after it.
Create(op, path) ==
  /\ job = Idle
  /\ LET p == FatPath(path) IN
     /\ ResolvePath(p) # 0
     /\ ~Found(p)
     /\ HasFree
     /\ Claim([Idle EXCEPT !.op = op, !.path = p, !.first = FirstFree], "place")
  /\ Outdate
  /\ UNCHANGED <<data, failed>>

CreateFile(path) == Create("file", path)
MakeDirectory(path) == Create("dir", path)

\* The entry is written; a directory gets its dots after it.
EntryWritten(place) ==
  /\ WriteEntry(place, Entry(job.op, Last(job.path), job.first))
  /\ job' = IF job.op = "dir" THEN [job EXCEPT !.stage = "dots"] ELSE Idle
  /\ UNCHANGED <<fat, file, failed>>

\* In the first entry of its directory that can be written,
PlaceEntry ==
  /\ job.stage = "place"
  /\ LET dir == ResolvePath(job.path)
         n == FindFreeEntryInCluster(dir)
     IN  n # 0 /\ EntryWritten(Place(dir, n))

\* or else in a cluster the directory grows by.
GrowDirectory ==
  /\ job.stage = "place"
  /\ LET dir == ResolvePath(job.path) IN
     /\ FindFreeEntryInCluster(dir) = 0
     /\ HasFree
     /\ Claim([job EXCEPT !.at = Last(Chain(dir))], "link")
  /\ UNCHANGED <<data, file, failed>>

\* Without one the operation gives up, and the first cluster stays taken.
DirectoryFull ==
  /\ job.stage = "place"
  /\ FindFreeEntryInCluster(ResolvePath(job.path)) = 0
  /\ ~HasFree
  /\ job' = Idle
  /\ failed' = TRUE
  /\ UNCHANGED <<fat, data, file>>

\* SetFATEntry() puts a new cluster behind the chain it is for.
Link ==
  /\ job.stage = "link"
  /\ fat' = [fat EXCEPT ![job.at] = job.fresh]
  /\ job' = IF job.op = "write" THEN [job EXCEPT !.at = job.fresh, !.stage = "data"]
            ELSE [job EXCEPT !.stage = "entry"]
  /\ UNCHANGED <<data, file, failed>>

PlaceInGrown == job.stage = "entry" /\ EntryWritten(<<job.fresh, 1>>)

Dots ==
  /\ job.stage = "dots"
  /\ LET parent == ResolvePath(job.path)
         up == IF parent = Root THEN 0 ELSE parent
     IN  data' = [data EXCEPT ![job.first].slots =
                    [i \in 1..Slots |-> CASE i = 1 -> Dot(1, job.first)
                                          [] i = 2 -> Dot(2, up)
                                          [] OTHER -> End]]
  /\ job' = Idle
  /\ UNCHANGED <<fat, file, failed>>

-----------------------------------------------------------------------------
\* DeleteFile() and DeleteDirectory()

\* The entry is marked first; its chain goes after it.
MarkDeleted(p) ==
  /\ WriteEntry(PlaceOf(p), Deleted)
  /\ job' = IF EntryOf(p).first = 0 THEN Idle
            ELSE [Idle EXCEPT !.op = "delete", !.path = p, !.stage = "free", !.at = EntryOf(p).first]
  /\ Outdate
  /\ UNCHANGED <<fat, failed>>

DeleteFile(path) ==
  /\ job = Idle
  /\ Found(FatPath(path))
  /\ EntryOf(FatPath(path)).kind # "dir"
  /\ MarkDeleted(FatPath(path))

DeleteDirectory(path) ==
  /\ job = Idle
  /\ Found(FatPath(path))
  /\ EntryOf(FatPath(path)).kind = "dir"
  /\ IsDirectoryEmpty(EntryOf(FatPath(path)).first)
  /\ MarkDeleted(FatPath(path))

FreeChainHead ==
  /\ job.stage = "free"
  /\ fat' = [fat EXCEPT ![job.at] = Free]
  /\ job' = Idle
  /\ UNCHANGED <<data, file, failed>>

FreeChain ==
  /\ job.stage = "free"
  /\ fat' = [fat EXCEPT ![job.at] = Free]
  /\ data' = [data EXCEPT ![job.at] = Junk]
  /\ job' = IF fat[job.at] \in Cluster THEN [job EXCEPT !.at = fat[job.at]] ELSE Idle
  /\ UNCHANGED <<file, failed>>

-----------------------------------------------------------------------------
\* WriteFile()

\* A file that the host put there empty has no cluster, and gets one first.
WriteFile(path, length) ==
  /\ job = Idle
  /\ LET p == FatPath(path)
         j == [Idle EXCEPT !.op = "write", !.path = p, !.length = length]
     IN  /\ Found(p)
         /\ EntryOf(p).kind = "file"
         /\ IF EntryOf(p).first = 0
              THEN HasFree /\ Claim(j, "first")
              ELSE /\ job' = [j EXCEPT !.stage = "data", !.at = EntryOf(p).first]
                   /\ UNCHANGED fat
  /\ Outdate
  /\ UNCHANGED <<data, failed>>

\* The kind of the entry is not looked at: the bytes go over a directory's
\* entries, and nothing is said of the disk after it.
WriteDirectory(path) ==
  /\ job = Idle
  /\ Found(FatPath(path))
  /\ EntryOf(FatPath(path)).kind = "dir"
  /\ job' = [Idle EXCEPT !.op = "undefined"]
  /\ Outdate
  /\ UNCHANGED <<fat, data, failed>>

SetFirst ==
  /\ job.stage = "first"
  /\ WriteEntry(PlaceOf(job.path), [EntryOf(job.path) EXCEPT !.first = job.fresh])
  /\ job' = [job EXCEPT !.at = job.fresh, !.stage = "data"]
  /\ UNCHANGED <<fat, file, failed>>

WriteDataInPlace ==
  /\ job.stage = "data"
  /\ job.done * ClusterSize < job.length
  /\ data' = [data EXCEPT ![job.at] = Bytes(job.path, job.done)]
  /\ job' = LET j == [job EXCEPT !.done = @ + 1] IN
            IF j.done * ClusterSize >= j.length THEN [j EXCEPT !.stage = "size"]
            ELSE IF fat[j.at] # Eoc THEN j
            ELSE [j EXCEPT !.stage = "extend"]
  /\ UNCHANGED <<fat, file, failed>>

\* A cluster's bytes.  The next cluster is the chain's, or a new one behind it.
WriteData ==
  /\ job.stage = "data"
  /\ job.done * ClusterSize < job.length
  /\ data' = [data EXCEPT ![job.at] = Bytes(job.path, job.done)]
  /\ job' = LET j == [job EXCEPT !.done = @ + 1] IN
            IF j.done * ClusterSize >= j.length THEN [j EXCEPT !.stage = "size"]
            ELSE IF fat[j.at] # Eoc THEN [j EXCEPT !.at = fat[j.at]]
            ELSE [j EXCEPT !.stage = "extend"]
  /\ UNCHANGED <<fat, file, failed>>

WriteNothing ==
  /\ job.stage = "data"
  /\ job.length = 0
  /\ job' = [job EXCEPT !.stage = "size"]
  /\ UNCHANGED <<fat, data, file, failed>>

ExtendFile == job.stage = "extend" /\ HasFree /\ Claim(job, "link") /\ UNCHANGED <<data, file, failed>>

\* On a full disk the rest is dropped, and the size still says what was asked for.
DiskFull ==
  /\ job.stage = "extend"
  /\ ~HasFree
  /\ job' = [job EXCEPT !.stage = "size"]
  /\ failed' = TRUE
  /\ UNCHANGED <<fat, data, file>>

SetSize ==
  /\ job.stage = "size"
  /\ WriteEntry(PlaceOf(job.path), [EntryOf(job.path) EXCEPT !.size = job.length])
  /\ job' = Idle
  /\ UNCHANGED <<fat, file, failed>>

-----------------------------------------------------------------------------
\* Open(), File::Read() and Seek()

Open(path) ==
  /\ job = Idle
  /\ Found(FatPath(path))
  /\ LET e == EntryOf(FatPath(path)) IN
     /\ e.kind = "file"      \* bound: no program opens a directory
     /\ file' = [first |-> e.first, size |-> e.size, position |-> 0,
                 path |-> FatPath(path), got |-> <<>>]
  /\ UNCHANGED <<fat, data, job, failed>>

ReadStreamFromStart(first, position, length) ==
  LET lesser(m, n) == IF m < n THEN m ELSE n
      chain == Chain(first)
      from == position % ClusterSize
  IN  [b \in 1..lesser(length, (Len(chain) * ClusterSize) - from) |->
         <<chain[((from + b - 1) \div ClusterSize) + 1], ((from + b - 1) % ClusterSize) + 1>>]

\* The byte numbers ReadStream() delivers from a position on, as places on the
\* disk: it skips whole clusters along the chain, then bytes of the next one.
ReadStream(first, position, length) ==
  LET lesser(m, n) == IF m < n THEN m ELSE n
      chain == Chain(first)
      skipped == position \div ClusterSize
      from == position % ClusterSize
  IN  [b \in 1..lesser(length, (Len(chain) * ClusterSize) - position) |->
         <<chain[skipped + ((from + b - 1) \div ClusterSize) + 1],
           ((from + b - 1) % ClusterSize) + 1>>]

Read(length) ==
  /\ job = Idle
  /\ file.position < file.size
  /\ LET n == IF file.position + length > file.size THEN file.size - file.position ELSE length
         places == ReadStream(file.first, file.position, n)
     IN  file' = [file EXCEPT !.position = @ + n,
                    !.got = [i \in DOMAIN places |->
                               LET c == data[places[i][1]]
                               IN  <<c.of, (c.part * ClusterSize) + places[i][2]>>]]
  /\ UNCHANGED <<fat, data, job, failed>>

SeekBeyond(position) ==
  /\ job = Idle
  /\ file.path # <<>>
  /\ file' = [file EXCEPT !.position = position, !.got = <<>>]
  /\ UNCHANGED <<fat, data, job, failed>>

Seek(position) ==
  /\ job = Idle
  /\ file.path # <<>>
  /\ file' = [file EXCEPT !.position = IF position > file.size THEN file.size ELSE position,
                          !.got = <<>>]
  /\ UNCHANGED <<fat, data, job, failed>>

-----------------------------------------------------------------------------
\* Formatting, and the end of power

\* Format(): the first sectors of the FAT, then the root.  The rest of the FAT
\* stays as it is.
Format ==
  /\ job = Idle
  /\ fat' = [c \in 0..LastCluster |-> IF c <= Root THEN Eoc
                                      ELSE IF c <= FormatEnd THEN Free ELSE fat[c]]
  /\ data' = [c \in 0..LastCluster |-> IF c = Root THEN Zeros ELSE Junk]
  /\ failed' = (FormatEnd < LastCluster)
  /\ Outdate
  /\ UNCHANGED job

\* The machine stops, and starts again with what is on the disk.  bound: once,
\* and before any operation gave up.
PowerLoss ==
  /\ job # Idle
  /\ job.op # "undefined" /\ ~failed
  /\ job' = Idle
  /\ file' = NoFile
  /\ failed' = TRUE
  /\ UNCHANGED <<fat, data>>

\* A disk as FormatRaw() leaves it, with some of the empty files the host copied to it.
Init ==
  /\ \E n \in 0..Len(HostFiles) :
       data = [c \in 0..LastCluster |->
                 IF c # Root THEN Junk
                 ELSE [Zeros EXCEPT !.slots =
                         [i \in 1..Slots |-> IF i <= n THEN Entry("file", HostFiles[i], 0) ELSE End]]]
  /\ fat = [c \in 0..LastCluster |-> IF c <= Root THEN Eoc ELSE Free]
  /\ job = Idle
  /\ file = NoFile
  /\ failed = FALSE

Next ==
  \/ \E path \in Paths :
       \/ CreateFile(path)
       \/ MakeDirectory(path)
       \/ DeleteFile(path)
       \/ DeleteDirectory(path)
       \/ \E length \in Lengths : WriteFile(path, length)
       \/ WriteDirectory(path)
       \/ Open(path)
  \/ Zero \/ PlaceEntry \/ GrowDirectory \/ DirectoryFull \/ Link \/ PlaceInGrown \/ Dots
  \/ FreeChain
  \/ SetFirst \/ WriteData \/ WriteNothing \/ ExtendFile \/ DiskFull \/ SetSize
  \/ \E n \in 1..ClusterSize : Read(n) \/ Seek(n)
  \/ Format
  \/ PowerLoss

Spec == Init /\ [][Next]_vars

-----------------------------------------------------------------------------
\* What has to hold

FatPaths == {FatPath(path) : path \in Paths}
Size == Lengths \cup {0}

\* The numbers of the live entries that a search of this directory can meet.
Visible(c) ==
  LET d == Directory(c)
      end == SelectInSeq(d, LAMBDA s : s.kind = "end")
  IN  {n \in DOMAIN d : Live(d[n]) /\ (end # 0 => n < end)}

\* First clusters of the directories that can be reached from the root.
Directories ==
  LET inside(c) == LET d == Directory(c) IN
        {d[n].first : n \in {n \in Visible(c) : d[n].kind = "dir"}}
      reach[above \in SUBSET (0..LastCluster)] ==
        LET found == above \cup UNION {inside(c) : c \in above}
        IN  IF found = above THEN above ELSE reach[found]
  IN  reach[{Root}]

\* Each place in the tree that names a first cluster, with that cluster.
Heads ==
  UNION {LET d == Directory(c) IN {<<Place(c, n), d[n].first>> : n \in Visible(c)} : c \in Directories}

Used == Range(Chain(Root)) \cup UNION {Range(Chain(h[2])) : h \in {h \in Heads : h[2] # 0}}

TypeOK ==
  /\ fat \in [0..LastCluster -> 0..Eoc]
  /\ \A c \in 0..LastCluster :
       /\ data[c].slots \in Seq(Slot)
       /\ data[c].of \in FatPaths \cup {<<>>}
       /\ data[c].part \in 0..LastCluster
  /\ job.stage \in {"", "zero", "place", "link", "entry", "dots", "free", "first", "data",
                    "extend", "size"}
  /\ job.at \in 0..LastCluster /\ job.fresh \in 0..LastCluster /\ job.first \in 0..LastCluster
  /\ file.position \in 0..file.size
  /\ failed \in BOOLEAN

\* A cluster that is in use is marked so in the FAT, and has one owner, the entry
\* that begins its chain or the cluster before it: between any two writes and
\* after any stop (AllocateCluster, FreeChain and the order their callers write in).
OneOwner ==
  LET owners == {<<<<c, 0>>, fat[c]>> : c \in Used} \cup Heads \cup {<<<<0, 0>>, Root>>}
  IN  /\ \A c \in Used : c \in Cluster /\ fat[c] # Free
      /\ \A x \in Cluster : Cardinality({o \in owners : o[2] = x}) <= 1

\* As long as no operation was stopped or gave up, every cluster that is taken
\* belongs to a file or directory (DeleteFile frees whole chains).
NothingLeaks ==
  job = Idle /\ ~failed => {c \in Cluster : fat[c] # Free} \subseteq Used

\* The clusters of a file hold its own bytes, each in its place, however its
\* chain was built from clusters of other files; and as long as no operation
\* was stopped or gave up, there are as many as its size says (WriteFile).
ContentsKept ==
  \A p \in {p \in FatPaths : Found(p) /\ EntryOf(p).kind = "file"} :
    LET e == EntryOf(p)
        chain == IF e.first = 0 THEN <<>> ELSE Chain(e.first)
        parts == {k \in 0..LastCluster : k * ClusterSize < e.size}
    IN  /\ \A k \in parts : k < Len(chain) =>
             data[chain[k + 1]] \in {Bytes(p, k)} \cup (IF failed THEN {Zeros} ELSE {})
        /\ ~failed /\ job = Idle => \A k \in parts : k < Len(chain)

\* An open file delivers the bytes after its position, in order and as many as
\* it was moved by, until something changes on the disk (File::Read, ReadStream).
ReadsBack ==
  ~failed =>
    \A i \in DOMAIN file.got : file.got[i] = <<file.path, file.position - Len(file.got) + i>>

\* The tree as a search of each path finds it.
Tree ==
  LET node[e \in Slot] == [dir |-> e.kind = "dir", size |-> e.size]
  IN  [p \in {p \in FatPaths : Found(p)} |-> node[EntryOf(p)]]

FileTree == INSTANCE FileTree WITH Path <- FatPaths, Size <- Size, tree <- Tree

\* Every operation changes the tree in one write, so that a stop leaves it done
\* or not begun (the order of writes in FAT32.cpp).
ImplementsFileTree == FileTree!TreeSpec

=============================================================================
