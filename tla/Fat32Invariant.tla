--------------------------- MODULE Fat32Invariant ---------------------------
(***************************************************************************)
(* The inductive invariants of the file system, and what they are made of: *)
(* what the proofs say of a disk and of the operation that is under way.   *)
(*                                                                         *)
(* Inv: there is a table of the chains on the disk (Tidy), and the         *)
(* operation under way has prepared what its next write relies on (JobOK). *)
(* TreeInv adds that the table is a tree of the files and directories that *)
(* can be reached (Shape), and which chain is the only one outside of it   *)
(* (JobShape, Kept).                                                       *)
(***************************************************************************)
EXTENDS Fat32

(* What a cluster holds: directory entries, or a part of a file.           *)
Content == [slots : Seq(Slot), of : FatPaths \union {<<>>}, part : 0..LastCluster]

(* The values of the FAT.                                                  *)
Fats == [0..LastCluster -> 0..Eoc]

(* The values of the data area.                                            *)
Disks == [0..LastCluster -> Content]

(* The argument of the recursion of Chain: a chain as far as it has been   *)
(* followed.                                                               *)
Strings == Seq(0..LastCluster) \ {<<>>}

(* The recursion of Chain over the FAT f.                                  *)
Follow(f) ==
  CHOOSE follow : follow = [s \in Strings |->
    IF f[Last(s)] = Eoc \/ Len(s) > LastCluster THEN s
    ELSE follow[Append(s, f[Last(s)])]]

(* The chain from c in the FAT f.                                          *)
ChainAt(f, c) == Follow(f)[<<c>>]

(* q is a chain of f from h: it ends with the end mark, and no cluster     *)
(* comes twice.                                                            *)
Strung(q, h, f) ==
  /\ q \in Seq(Cluster) /\ q # <<>> /\ q[1] = h /\ f[q[Len(q)]] = Eoc
  /\ \A k \in 1..Len(q) - 1 : f[q[k]] = q[k + 1]
  /\ \A k, l \in 1..Len(q) : q[k] = q[l] => k = l

(* The recursion of Directory over the data area d.                        *)
Scan(d) ==
  CHOOSE entries : entries = [s \in Seq(0..LastCluster) |->
    IF s = <<>> THEN <<>> ELSE d[Head(s)].slots \o entries[Tail(s)]]

(* The entries of the directory at c, for the FAT f and the data area d.   *)
DirectoryAt(f, d, c) == Scan(d)[ChainAt(f, c)]

(* Every cluster of q holds a full cluster of slots.                       *)
Filled(d, q) == \A k \in 1..Len(q) : Len(d[q[k]].slots) = Slots

(* Scanning q yields the slots of its clusters, in order.                  *)
Scanned(d, q) ==
  /\ Len(Scan(d)[q]) = Slots * Len(q)
  /\ \A k \in 1..Len(q), i \in 1..Slots : Scan(d)[q][Slots * (k - 1) + i] = d[q[k]].slots[i]

(* FindEntryInCluster() stops at this slot.                                *)
Hit(s, name) == s.kind = "end" \/ (s.kind # "deleted" /\ s.name = name)

(* n is the entry of D with that name which the search returns, or 0.      *)
IsFind(D, name, n) ==
  IF n = 0 THEN \A m \in 1..Len(D) : Hit(D[m], name) => \E l \in 1..m : D[l].kind = "end"
  ELSE /\ n \in 1..Len(D) /\ D[n].kind # "end" /\ Hit(D[n], name)
       /\ \A m \in 1..n - 1 : ~Hit(D[m], name)

(* FindEntryInCluster over the entries D.                                  *)
FindAt(D, name) ==
  LET number[d \in Seq(Slot)] ==
        LET n == SelectInSeq(d, LAMBDA s : s.kind = "end" \/ (s.kind # "deleted" /\ s.name = name))
        IN  IF n # 0 /\ d[n].kind # "end" THEN n ELSE 0
  IN  number[D]

(* EntryIn for the FAT f and the data area d.                              *)
EntryInAt(f, d, c, name) ==
  LET entry[n \in Nat] == IF n = 0 THEN End ELSE DirectoryAt(f, d, c)[n]
  IN  IF c = 0 THEN End ELSE entry[FindAt(DirectoryAt(f, d, c), name)]

(* The directory that the next step of a walk is in, 0 for none.           *)
Inside == [e \in Slot |-> IF e.kind # "dir" THEN 0 ELSE IF e.first = 0 THEN Root ELSE e.first]

(* The recursion of ResolvePath: the directory of each part of p.          *)
Walk(f, d, p) ==
  CHOOSE walk : walk = [i \in 1..Len(p) |->
    IF i = 1 THEN Root ELSE Inside[EntryInAt(f, d, walk[i - 1], p[i - 1])]]

(* ResolvePath for the FAT f and the data area d.                          *)
ResolveAt(f, d, p) == Walk(f, d, p)[Len(p)]

(* A row of the table: a file or a directory, its path and its chain.      *)
Node == [kind : {"file", "dir"}, path : Seq(Names), chain : Seq(Cluster)]

(* The clusters of row h.                                                  *)
Of(t, h) == {t[h].chain[k] : k \in 1..Len(t[h].chain)}

(* The rows that are directories.                                          *)
Dirs(t) == {h \in DOMAIN t : t[h].kind = "dir"}

(* The clusters of directories.                                            *)
InDirs(t) == UNION {Of(t, h) : h \in Dirs(t)}

(* The clusters of all rows.                                               *)
Taken(t) == UNION {Of(t, h) : h \in DOMAIN t}

(* t is a table of the chains on the disk, one row for each first cluster: *)
(* every row's chain is strung in f, and no cluster is in two of them.     *)
Table(t, f) ==
  /\ DOMAIN t \subseteq Cluster
  /\ \A h \in DOMAIN t : t[h] \in Node
  /\ Root \in DOMAIN t /\ t[Root].kind = "dir" /\ t[Root].path = <<>>
  /\ \A h \in DOMAIN t : Strung(t[h].chain, h, f)
  /\ \A g, h \in DOMAIN t : \A c \in Of(t, g) : c \in Of(t, h) => g = h

(* A live entry of the directory with that path is empty or names a row of *)
(* its kind and path.                                                      *)
Named(t, path, e) ==
  \/ e.kind = "file" /\ e.first = 0 /\ e.size = 0
  \/ e.first \in DOMAIN t /\ t[e.first].kind = e.kind /\ t[e.first].path = Append(path, e.name)

(* A slot of the directory with that path.                                 *)
Proper(t, path, e) ==
  /\ Live(e) => Named(t, path, e)
  /\ e.kind = "dot" => e.name \notin Names

(* The directories of the table hold slots that name its rows, and no two  *)
(* slots name the same row.                                                *)
Listed(t, d) ==
  /\ \A h \in Dirs(t) : \A c \in Of(t, h) :
       Len(d[c].slots) = Slots /\ \A i \in 1..Slots : Proper(t, t[h].path, d[c].slots[i])
  /\ \A c, b \in InDirs(t), i, j \in 1..Slots :
       /\ Live(d[c].slots[i]) /\ Live(d[b].slots[j])
       /\ d[c].slots[i].first = d[b].slots[j].first /\ d[c].slots[i].first # 0
       => c = b /\ i = j

(* The clusters of row n hold what was written to that path up to size;    *)
(* after a power loss a cluster may still be zero.                         *)
Holds(n, size, d, cut) ==
  /\ \A k \in 1..Len(n.chain) : (k - 1) * ClusterSize < size =>
       d[n.chain[k]] = Bytes(n.path, k - 1) \/ (cut /\ d[n.chain[k]] = Zeros)
  /\ ~cut => size <= Len(n.chain) * ClusterSize

(* The files of the table hold what was written to them.                   *)
Held(t, d, cut) ==
  \A c \in InDirs(t), i \in 1..Slots :
    d[c].slots[i].kind = "file" /\ d[c].slots[i].first # 0 =>
      Holds(t[d[c].slots[i].first], d[c].slots[i].size, d, cut)

(* The cluster and the place there of entry n of the directory at c.       *)
PlaceAt(f, c, n) == <<ChainAt(f, c)[((n - 1) \div Slots) + 1], ((n - 1) % Slots) + 1>>

(* EntryOf for the FAT f and the data area d.                              *)
EntryAt(f, d, p) == EntryInAt(f, d, ResolveAt(f, d, p), Last(p))

(* PlaceOf for the FAT f and the data area d.                              *)
WhereAt(f, d, p) ==
  PlaceAt(f, ResolveAt(f, d, p), FindAt(DirectoryAt(f, d, ResolveAt(f, d, p)), Last(p)))

(* The slot at a place.                                                    *)
At(d, place) == d[place[1]].slots[place[2]]

(* place holds e, a live entry of the directory h with that name.          *)
Rests(t, d, h, name, place, e) ==
  /\ place = <<place[1], place[2]>> /\ place[1] \in Of(t, h) /\ place[2] \in 1..Slots
  /\ e = At(d, place) /\ e \in Slot /\ Live(e) /\ e.name = name /\ Named(t, t[h].path, e)

(* Before part i of p, a walk is nowhere or in the directory with the path *)
(* so far.                                                                 *)
Reaches(t, p, i, c) == c = 0 \/ (c \in Dirs(t) /\ t[c].path = SubSeq(p, 1, i - 1))

(* Slots that a search and a walk cannot tell apart.                       *)
SameName(a, b) == a.kind = b.kind /\ a.name = b.name /\ (a.kind = "dir" => a.first = b.first)

(* f2 and d2 hold the same directories as f and d, to a search.            *)
TreeKept(t, f, d, f2, d2) ==
  \A c \in InDirs(t) :
    /\ f2[c] = f[c] /\ Len(d2[c].slots) = Slots
    /\ \A i \in 1..Slots : SameName(d[c].slots[i], d2[c].slots[i])

(* FindFreeEntryInCluster over the entries D.                              *)
FreeAt(D) == SelectInSeq(D, LAMBDA s : s.kind \in {"end", "deleted"})

(* FirstFree for the FAT f.                                                *)
FirstIn(f) == CHOOSE c \in Cluster : f[c] = Free /\ \A b \in Cluster : f[b] = Free => c <= b

(* The part of the invariant about the disk: t is the table of what is on  *)
(* it.                                                                     *)
Tidy(t, f, d, cut) == f \in Fats /\ d \in Disks /\ Table(t, f) /\ Listed(t, d) /\ Held(t, d, cut)

(* A cluster that is marked as a chain of its own and that no row has.     *)
Loose(t, f, c) == c \in Cluster /\ c \notin Taken(t) /\ f[c] = Eoc

(* A loose cluster that has been zeroed.                                   *)
Blank(t, f, d, c) == Loose(t, f, c) /\ d[c] = Zeros

(* The data area after slot i of cluster c is written.                     *)
WriteSlot(d, c, i, x) == [d EXCEPT ![c].slots[i] = x]

(* A row of the table.                                                     *)
Row(kind, path, chain) == [kind |-> kind, path |-> path, chain |-> chain]

(* The table with the row n at h.                                          *)
Added(t, h, n) == [g \in DOMAIN t \union {h} |-> IF g = h THEN n ELSE t[g]]

(* u is the table with a row whose chain is h alone.                       *)
AddedTo(t, h, kind, path, u) ==
  /\ DOMAIN u = DOMAIN t \union {h} /\ u[h] = Row(kind, path, <<h>>)
  /\ u[h].kind = kind /\ u[h].path = path /\ u[h].chain = <<h>> /\ Of(u, h) = {h}
  /\ \A g \in DOMAIN t : u[g] = t[g] /\ Of(u, g) = Of(t, g)
  /\ Taken(u) = Taken(t) \union {h}
  /\ Dirs(u) = IF kind = "dir" THEN Dirs(t) \union {h} ELSE Dirs(t)
  /\ InDirs(u) = IF kind = "dir" THEN InDirs(t) \union {h} ELSE InDirs(t)

(* The table with c at the end of the chain of h.                          *)
Extended(t, h, c) ==
  [g \in DOMAIN t |-> IF g = h THEN Row(t[h].kind, t[h].path, Append(t[h].chain, c)) ELSE t[g]]

(* u is the table with that longer chain.                                  *)
ExtendedTo(t, h, c, u) ==
  /\ DOMAIN u = DOMAIN t
  /\ u[h].kind = t[h].kind /\ u[h].path = t[h].path /\ u[h].chain = Append(t[h].chain, c)
  /\ u[h] = Row(t[h].kind, t[h].path, Append(t[h].chain, c))
  /\ Len(u[h].chain) = Len(t[h].chain) + 1 /\ u[h].chain[Len(t[h].chain) + 1] = c
  /\ \A k \in 1..Len(t[h].chain) : u[h].chain[k] = t[h].chain[k]
  /\ Of(u, h) = Of(t, h) \union {c}
  /\ \A g \in DOMAIN t : g # h => u[g] = t[g] /\ Of(u, g) = Of(t, g)
  /\ \A g \in DOMAIN t : u[g].kind = t[g].kind /\ u[g].path = t[g].path
  /\ Taken(u) = Taken(t) \union {c}
  /\ Dirs(u) = Dirs(t)
  /\ InDirs(u) = IF t[h].kind = "dir" THEN InDirs(t) \union {c} ELSE InDirs(t)

(* The FAT with c linked to the last cluster of row h.                     *)
Linked(f, t, h, c) == [f EXCEPT ![Last(t[h].chain)] = c]

(* A slot that names nothing.                                              *)
Dead(e) == ~Live(e) /\ (e.kind = "dot" => e.name \notin Names)

(* x is the slot e, perhaps with a size that the contents of the file bear *)
(* out.                                                                    *)
Resized(t, d, cut, e, x) ==
  /\ x.kind = e.kind /\ x.name = e.name /\ x.first = e.first
  /\ \/ x.size = e.size
     \/ e.kind = "file" /\ e.first # 0 /\ Holds(t[e.first], x.size, d, cut)

(* The table without row h.                                                *)
Removed(t, h) == [g \in DOMAIN t \ {h} |-> t[g]]

(* u is the table without that row.                                        *)
RemovedFrom(t, h, u) ==
  /\ DOMAIN u = DOMAIN t \ {h}
  /\ \A g \in DOMAIN u : u[g] = t[g] /\ Of(u, g) = Of(t, g)
  /\ Taken(u) \subseteq Taken(t) /\ Dirs(u) \subseteq Dirs(t) /\ InDirs(u) \subseteq InDirs(t)
-----------------------------------------------------------------------------
(* The values of job.                                                      *)
Jobs == [op : {"idle", "file", "dir", "delete", "write", "undefined"}, path : FatPaths \union {<<>>},
         stage : {"", "zero", "place", "link", "entry", "dots", "free", "first", "data", "extend", "size"},
         fresh : 0..LastCluster, then : {"", "place", "link", "first"},
         first : 0..LastCluster, at : 0..LastCluster, length : Lengths \union {0}, done : Nat]

(* The values of file.                                                     *)
Opened(o) ==
  /\ o = [first |-> o.first, size |-> o.size, position |-> o.position, path |-> o.path, got |-> o.got]
  /\ o.size \in Nat /\ o.position \in 0..o.size

(* The job makes a file or a directory.                                    *)
Making(j) == j.op \in {"file", "dir"} /\ j.path \in FatPaths

(* The job writes a file.                                                  *)
Writing(j) == j.op = "write" /\ j.path \in FatPaths

(* The job is about to place an entry for the loose cluster first.         *)
Places(t, f, d, j) == Making(j) /\ Loose(t, f, j.first) /\ ResolveAt(f, d, j.path) # 0

(* The job is about to link a cluster to the directory that its entry goes *)
(* to.                                                                     *)
LinksDir(t, f, d, j) ==
  /\ Making(j) /\ Blank(t, f, d, j.first) /\ j.first # j.fresh
  /\ \E h \in Dirs(t) : t[h].path = Front(j.path) /\ j.at = Last(t[h].chain)

(* The job is about to write its entry to the cluster its directory has    *)
(* grown by.                                                               *)
Enters(t, f, d, j) ==
  /\ Making(j) /\ Blank(t, f, d, j.first) /\ d[j.fresh] = Zeros
  /\ \E h \in Dirs(t) : t[h].path = Front(j.path) /\ j.fresh \in Of(t, h)

(* The job is about to write the dot entries of its new directory.         *)
AddsDots(t, d, j) ==
  j.path \in FatPaths /\ j.first \in Dirs(t) /\ t[j.first].chain = <<j.first>> /\ d[j.first] = Zeros

(* The job is about to give an empty file its first cluster.               *)
GetsFirst(t, f, d, j) ==
  Writing(j) /\ EntryAt(f, d, j.path).kind = "file" /\ EntryAt(f, d, j.path).first = 0 /\ j.done = 0

(* Row h is the file of the job, and its first done clusters are written.  *)
Written(t, f, d, j, h) ==
  /\ h \in DOMAIN t /\ t[h].kind = "file" /\ t[h].path = j.path
  /\ EntryAt(f, d, j.path).kind = "file" /\ EntryAt(f, d, j.path).first = h
  /\ j.done \in 0..Len(t[h].chain)
  /\ \A k \in 1..j.done : d[t[h].chain[k]] = Bytes(j.path, k - 1)

(* The job is about to write the next cluster of its file.                 *)
Writes(t, f, d, j) ==
  Writing(j) /\ \E h \in DOMAIN t : Written(t, f, d, j, h) /\ j.done < Len(t[h].chain) /\ j.at = t[h].chain[j.done + 1]

(* The job is about to extend its file, which it has written to the end.   *)
Extends(t, f, d, j) ==
  /\ Writing(j) /\ j.done * ClusterSize < j.length
  /\ \E h \in DOMAIN t : Written(t, f, d, j, h) /\ j.done = Len(t[h].chain) /\ j.at = Last(t[h].chain)

(* The job is about to store the size of its file.                         *)
Sizes(t, f, d, j, cut) ==
  Writing(j) /\ \E h \in DOMAIN t : Written(t, f, d, j, h) /\ Holds(t[h], j.length, d, cut)

(* The job is about to free a chain that is no row's.                      *)
Frees(t, f, j) ==
  \E g : Strung(g, j.at, f) /\ \A k \in 1..Len(g) : g[k] \notin Taken(t)

(* The part of the invariant about the job: what holds before each of its  *)
(* stages.                                                                 *)
JobOK(t, f, d, j, cut) ==
  /\ j.stage = "zero" =>
       /\ Loose(t, f, j.fresh)
       /\ \/ j.then = "place" /\ Places(t, f, d, j) /\ j.first = j.fresh
          \/ j.then = "link" /\ LinksDir(t, f, d, j)
          \/ j.then = "link" /\ Extends(t, f, d, j)
          \/ j.then = "first" /\ GetsFirst(t, f, d, j)
  /\ j.stage = "place" => Places(t, f, d, j) /\ Blank(t, f, d, j.first)
  /\ j.stage = "link" => Blank(t, f, d, j.fresh) /\ (LinksDir(t, f, d, j) \/ Extends(t, f, d, j))
  /\ j.stage = "entry" => Enters(t, f, d, j)
  /\ j.stage = "dots" => AddsDots(t, d, j)
  /\ j.stage = "first" => Blank(t, f, d, j.fresh) /\ GetsFirst(t, f, d, j)
  /\ j.stage = "data" => Writes(t, f, d, j)
  /\ j.stage = "extend" => Extends(t, f, d, j)
  /\ j.stage = "size" => Sizes(t, f, d, j, cut)
  /\ j.stage = "free" => Frees(t, f, j)

(* Marking the first free cluster leaves the table as it is.               *)
Claimed(t, f, d, cut, f2) ==
  /\ Tidy(t, f2, d, cut) /\ TreeKept(t, f, d, f2, d)
  /\ Loose(t, f2, FirstIn(f)) /\ FirstIn(f) \in 0..LastCluster
  /\ \A c : Loose(t, f, c) => Loose(t, f2, c) /\ c # FirstIn(f)
  /\ \A c \in Taken(t) : f2[c] = f[c] /\ c # FirstIn(f)

(* The types of the variables other than the disk, which Tidy types.       *)
Typed == job \in Jobs /\ Opened(file) /\ failed \in BOOLEAN

(* t is the table of the present state.                                    *)
Now(t) == Tidy(t, fat, data, failed) /\ JobOK(t, fat, data, job, failed)

(* The table of a disk that has just been formatted.                       *)
Fresh == [h \in {Root} |-> Row("dir", <<>>, <<Root>>)]

(* The inductive invariant: there is a table of the present state.         *)
Inv == Typed /\ \E t : Now(t)

(* The root of a disk as the program finds it first.                       *)
Copied(d) ==
  \E n \in 0..Len(HostFiles) :
    \A i \in 1..Slots : d[Root].slots[i] = IF i <= n THEN Entry("file", HostFiles[i], 0) ELSE End

(* The directories that the directory at c lists.                          *)
InsideOf(c) == {Directory(c)[n].first : n \in {n \in Visible(c) : Directory(c)[n].kind = "dir"}}

(* Those that are reached in one more step.                                *)
StepOf(above) == above \union UNION {InsideOf(c) : c \in above}

(* The recursion of Directories.                                           *)
Reach ==
  CHOOSE reach : reach = [above \in SUBSET (0..LastCluster) |->
    IF StepOf(above) = above THEN above ELSE reach[StepOf(above)]]

(* The argument of the recursion of Directories.                           *)
Sets == SUBSET (0..LastCluster)

(* The recursion of Directories over the sets S: the clusters that a set   *)
(* has not found yet.                                                      *)
Unfound(S) == [s \in S |-> Cardinality((0..LastCluster) \ s)]

(* The sets that it ends with.                                             *)
Complete(S) == {s \in S : StepOf(s) = s}

(* How it goes on.                                                         *)
Onward(S) == [s \in S |-> StepOf(s)]

(* Byte number position + b lies in chunk k of a bytes, at place m % a +   *)
(* 1.                                                                      *)
Spots(position, b, chunks, a, m, k) ==
  /\ k \in Nat /\ k + 1 \in 1..chunks /\ k * a < position + b
  /\ (k * a) + ((m % a) + 1) = position + b

(* An open file is one that a search of its path still finds, and no       *)
(* operation is under way.                                                 *)
Follows ==
  \/ file = NoFile
  \/ /\ job.stage = "" /\ file.path \in FatPaths
     /\ EntryAt(fat, data, file.path).kind = "file"
     /\ EntryAt(fat, data, file.path).first = file.first
     /\ EntryAt(fat, data, file.path).size = file.size

(* The inductive invariant of reading.                                     *)
Reads == Inv /\ Follows /\ ReadsBack

(* Slot j of the l-th cluster of a chain comes after slot i of the k-th.   *)
After(k, i, l, j) == k < l \/ (k = l /\ i < j)

(* Only ends come after an end.                                            *)
InOrder(q, d) ==
  \A k, l \in 1..Len(q), i, j \in 1..Slots :
    After(k, i, l, j) /\ d[q[k]].slots[i].kind = "end" => d[q[l]].slots[j].kind = "end"

(* No end comes before slot j of the l-th cluster.                         *)
NoEndBefore(q, d, l, j) ==
  \A k \in 1..Len(q), i \in 1..Slots : After(k, i, l, j) => d[q[k]].slots[i].kind # "end"

(* Every row but the root is named by an entry.                            *)
Whole(t, d) ==
  \A h \in DOMAIN t : h # Root =>
    \E c \in InDirs(t), i \in 1..Slots : Live(d[c].slots[i]) /\ d[c].slots[i].first = h

(* The live entries of a directory have different names.                   *)
Distinct(t, d, h) ==
  \A b, c \in Of(t, h), i, j \in 1..Slots :
    Live(d[b].slots[i]) /\ Live(d[c].slots[j]) /\ d[b].slots[i].name = d[c].slots[j].name
      => b = c /\ i = j

(* The part of the invariant about the tree: the directories are in order  *)
(* and name their rows under one path each.                                *)
Shape(t, d) ==
  /\ \A h \in Dirs(t) : InOrder(t[h].chain, d) /\ Distinct(t, d, h)
  /\ Whole(t, d)
  /\ \A g, h \in DOMAIN t : t[g].path = t[h].path => g = h
  /\ \A h \in DOMAIN t : t[h].path \in FatPaths \union {<<>>}

(* No live entry of the directory h has the name.                          *)
NewName(t, d, h, name) == \A c \in Of(t, h), i \in 1..Slots : Live(d[c].slots[i]) => d[c].slots[i].name # name

(* Slot i of cluster c names nothing, and no other live entry of the       *)
(* directory h has the name.                                               *)
Vacant(t, d, h, c, i, name) ==
  /\ Live(d[c].slots[i]) => d[c].slots[i].first = 0
  /\ \A b \in Of(t, h), j \in 1..Slots :
       Live(d[b].slots[j]) /\ d[b].slots[j].name = name => b = c /\ j = i

(* Cluster c has no end.                                                   *)
Endless(d, c) == \A i \in 1..Slots : d[c].slots[i].kind # "end"

(* Nothing but slot j of the l-th cluster has changed its kind, and that   *)
(* is no end.                                                              *)
EntryAdded(q, d, d2, l, j) ==
  /\ \A k \in 1..Len(q), i \in 1..Slots :
       (k = l /\ i = j) \/ d2[q[k]].slots[i].kind = d[q[k]].slots[i].kind
  /\ d2[q[l]].slots[j].kind # "end"

(* Slots that name the same under the same name.                           *)
SameEntry(a, b) == a.kind = b.kind /\ a.name = b.name /\ a.first = b.first

(* The table after the entry e goes.                                       *)
Without(t, e) == IF e.first = 0 THEN t ELSE Removed(t, e.first)

(* The part of the invariant about the tree and the operation under way:   *)
(* what is made has a new name, and a directory that grows was full.       *)
JobShape(t, d, j) ==
  Making(j) /\ j.stage \in {"zero", "place", "link", "entry"} =>
    \A h \in Dirs(t) : t[h].path = Front(j.path) =>
      /\ NewName(t, d, h, Last(j.path))
      /\ j.stage \in {"zero", "link"} /\ j.first # j.fresh => \A c \in Of(t, h) : Endless(d, c)
      /\ j.stage = "entry" => /\ j.fresh = Last(t[h].chain)
                              /\ \A c \in Of(t, h) : c # j.fresh => Endless(d, c)

(* Cluster c belongs to the operation under way.                           *)
Underway(f, j, c) ==
  \/ j.stage \in {"zero", "link", "first"} /\ c = j.fresh
  \/ Making(j) /\ j.stage \in {"zero", "place", "link", "entry"} /\ c = j.first
  \/ j.stage = "free" /\ \E k \in 1..Len(ChainAt(f, j.at)) : c = ChainAt(f, j.at)[k]

(* Every cluster that is marked is a row's or the operation's.             *)
Kept(t, f, j, cut) ==
  ~cut => \A c \in Cluster : f[c] # Free => c \in Taken(t) \/ Underway(f, j, c)

(* The invariant of the tree.                                              *)
Full(t) == Shape(t, data) /\ JobShape(t, data, job) /\ Kept(t, fat, job, failed)

(* The new entry of the operation under way belongs in slot i of the       *)
(* cluster l of the directory h, and is written there.                     *)
Entering(t, h, l, i) ==
  /\ Making(job) /\ t[h].path = Front(job.path) /\ Blank(t, fat, data, job.first)
  /\ NewName(t, data, h, Last(job.path)) /\ NoEndBefore(t[h].chain, data, l, i)
  /\ ~Live(data[t[h].chain[l]].slots[i]) /\ job.stage \in {"place", "entry"}
  /\ EntryWritten(<<t[h].chain[l], i>>)

(* The first entry of D that is live or the end, as IsDirectoryEmpty finds *)
(* it.                                                                     *)
StopAt(D) == SelectInSeq(D, LAMBDA s : s.kind = "end" \/ Live(s))

(* The invariant of the tree: a table that accounts for every cluster.     *)
TreeInv == Typed /\ \E t : Now(t) /\ Full(t)

(* e is live in slot j of cluster b, in the directory with path q.         *)
Stands(t, d, q, b, j, e) ==
  \E h \in Dirs(t) : t[h].path = q /\ b \in Of(t, h) /\ j \in 1..Slots /\ e = d[b].slots[j] /\ Live(e)

(* The entry e is in the place that the path p names.                      *)
Lies(t, d, p, e) == e.name = Last(p) /\ \E b, j : Stands(t, d, Front(p), b, j, e)

(* The node that an entry makes.                                           *)
NodeOf(e) == [dir |-> e.kind = "dir", size |-> e.size]

(* The paths that are found.                                               *)
PathsAt(f, d) == {p \in FatPaths : EntryAt(f, d, p).kind # "end"}

(* The tree of the disk with the FAT f and the data area d.                *)
TreeAt(f, d) == [p \in PathsAt(f, d) |-> NodeOf(EntryAt(f, d, p))]

(* Nothing stands differently, but for slot i of cluster c.                *)
Elsewhere(t, d, u, d2, c, i) ==
  \A q, b, j, e : (b = c /\ j = i) \/ (Stands(t, d, q, b, j, e) <=> Stands(u, d2, q, b, j, e))

(* What stands there is the entry of a path of S.                          *)
OnlyOf(t, d, c, i, S) ==
  \A q, e : Stands(t, d, q, c, i, e) => \E p \in S : q = Front(p) /\ e.name = Last(p)

(* The same node of the tree.                                              *)
Alike(a, b) ==
  /\ a.kind = "end" <=> b.kind = "end"
  /\ a.kind # "end" => (a.kind = "dir" <=> b.kind = "dir") /\ a.size = b.size

(* The nodes of all paths outside S stay.                                  *)
OthersStay(f, d, f2, d2, S) == \A q \in FatPaths \ S : Alike(EntryAt(f, d, q), EntryAt(f2, d2, q))

(* T is the tree of the disk.                                              *)
IsTree(T, f, d) ==
  /\ DOMAIN T = PathsAt(f, d) /\ T = [p \in DOMAIN T |-> T[p]]
  /\ \A p \in PathsAt(f, d) : T[p] = NodeOf(EntryAt(f, d, p))

(* The trees are the same outside S.                                       *)
RestSame(T, T2, S) == DOMAIN T2 \ S = DOMAIN T \ S /\ \A q \in DOMAIN T \ S : T2[q] = T[q]

(* T2 is T with another path, where a node is.                             *)
WithNode(T, T2, p, node) ==
  /\ p \notin DOMAIN T /\ T2 # T
  /\ T2 = [q \in DOMAIN T \union {p} |-> IF q = p THEN node ELSE T[q]]

(* T2 is T without a path.                                                 *)
WithoutNode(T, T2, p) == p \in DOMAIN T /\ T2 # T /\ T2 = [q \in DOMAIN T \ {p} |-> T[q]]

(* The directories of t are in u, which has no other live slots, and no    *)
(* slot but slot i of cluster c differs there.                             *)
Grown(t, d, u, d2, c, i) ==
  /\ \A h \in Dirs(t) : h \in Dirs(u) /\ u[h].path = t[h].path /\ Of(t, h) \subseteq Of(u, h)
  /\ \A h \in Dirs(u) : \A b \in Of(u, h), j \in 1..Slots :
       Live(d2[b].slots[j]) => h \in Dirs(t) /\ b \in Of(t, h)
  /\ \A h \in Dirs(t) : \A b \in Of(t, h), j \in 1..Slots :
       \/ b = c /\ j = i
       \/ d2[b].slots[j] = d[b].slots[j]
       \/ ~Live(d2[b].slots[j]) /\ ~Live(d[b].slots[j])

(* Every live slot of the directories stays as it is.                      *)
SameSlots(t, d, d2) ==
  \A c \in InDirs(t), i \in 1..Slots :
    d2[c].slots[i] = d[c].slots[i] \/ (~Live(d2[c].slots[i]) /\ ~Live(d[c].slots[i]))

(* The path p is made.                                                     *)
Makes(f, d, f2, d2, p, isDir) ==
  /\ p \in FatPaths /\ OthersStay(f, d, f2, d2, {p}) /\ EntryAt(f, d, p).kind = "end"
  /\ EntryAt(f2, d2, p).kind = (IF isDir THEN "dir" ELSE "file") /\ EntryAt(f2, d2, p).size = 0
  /\ Len(p) > 1 => Front(p) \in FatPaths /\ EntryAt(f, d, Front(p)).kind = "dir"

(* The directories of u are those of t, but for empty ones.                *)
Fewer(t, d, u) ==
  /\ \A h \in Dirs(u) : h \in Dirs(t) /\ u[h].path = t[h].path /\ Of(u, h) = Of(t, h)
  /\ \A h \in Dirs(t) : h \in Dirs(u) \/ \A b \in Of(t, h), j \in 1..Slots : ~Live(d[b].slots[j])

(* What p finds is x, or nothing if x is not live.                         *)
NowFinds(f, d, p, x) ==
  /\ Live(x) => EntryAt(f, d, p) = x
  /\ ~Live(x) => EntryAt(f, d, p).kind = "end"

(* The file with path p gets another size.                                 *)
Resizes(f, d, f2, d2, p) ==
  /\ p \in FatPaths /\ OthersStay(f, d, f2, d2, {p})
  /\ EntryAt(f, d, p).kind = "file" /\ EntryAt(f2, d2, p).kind = "file"
  /\ EntryAt(f2, d2, p) \in Slot

(* The slot that a path names, in the state and as an operand.             *)
Slotted(t, p, g, c, i, e) ==
  /\ g \in Dirs(t) /\ c \in Of(t, g) /\ i \in 1..Slots
  /\ t[g].path = Front(p) /\ PlaceOf(p) = <<c, i>>
  /\ e = EntryOf(p) /\ e = EntryAt(fat, data, p) /\ e = data[c].slots[i]
  /\ e \in Slot /\ Live(e) /\ e.name = Last(p) /\ Named(t, t[g].path, e)

(* A live slot of the directory h.                                         *)
Occupied(t, d, h) == \E c \in Of(t, h), i \in 1..Slots : Live(d[c].slots[i])

(* Each beginning of the path q, shorter than q, is an occupied            *)
(* directory's.                                                            *)
Above(t, d, q) == \A k \in 0..Len(q) - 1 : \E h \in Dirs(t) : t[h].path = SubSeq(q, 1, k) /\ Occupied(t, d, h)

(* The path p is removed, and nothing lies under it.                       *)
Loses(f, d, f2, d2, p) ==
  /\ p \in FatPaths /\ OthersStay(f, d, f2, d2, {p})
  /\ EntryAt(f, d, p).kind # "end" /\ EntryAt(f2, d2, p).kind = "end"
  /\ \A q \in FatPaths : EntryAt(f, d, q).kind # "end" /\ Len(q) > Len(p) => SubSeq(q, 1, Len(p)) # p

(* Nothing is found.                                                       *)
Wipes(f, d) == \A q \in FatPaths : EntryAt(f, d, q).kind = "end"

(* What a step can do to the tree.                                         *)
Keeps(f, d, f2, d2) ==
  \/ OthersStay(f, d, f2, d2, {})
  \/ \E p \in FatPaths, isDir \in BOOLEAN : Makes(f, d, f2, d2, p, isDir)
  \/ \E p \in FatPaths : Loses(f, d, f2, d2, p)
  \/ \E p \in FatPaths : Resizes(f, d, f2, d2, p)
  \/ Wipes(f2, d2)
=============================================================================
