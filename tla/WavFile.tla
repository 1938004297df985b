------------------------------ MODULE WavFile ------------------------------
(***************************************************************************)
(* Wav::Load() of audio/wav.cpp: the chunks of a file are passed over      *)
(* until the one with the samples.  The file is a list of chunks, one      *)
(* after the other from position 0 and each padded to an even size; the    *)
(* loader only knows the position it has come to.                          *)
(***************************************************************************)
EXTENDS Naturals, Sequences

CONSTANTS
  Files,       \* lists of chunks, each an id, a size and whether it is PCM
  HeaderSize,  \* sizeof(ChunkHeader), even
  FormatSize   \* sizeof(WavFmt), even

VARIABLES
  file, position, fmtFound,
  loaded       \* what has come of it

vars == <<file, position, fmtFound, loaded>>

Parsing == <<"parsing">>
Invalid == <<"invalid">>
Plays(i) == <<"plays", i>>

Padded(size) == size + (size % 2)

\* Where chunk i of a file begins.
StartOf(f, k) ==
  LET start[i \in 1..k] ==
        IF i = 1 THEN 0 ELSE start[i - 1] + HeaderSize + Padded(f[i - 1].size)
  IN  start[k]

\* Chunks that begin at the position: one, unless the loader is inside a chunk.
ChunksAt(p) == {i \in DOMAIN file : StartOf(file, i) = p}

EndOfFile == StartOf(file, Len(file) + 1)

Finish(result) == loaded' = result /\ UNCHANGED <<file, position, fmtFound>>

SkippedUnpadded(c, start) ==
  IF c.id = "fmt " /\ c.size <= FormatSize THEN start + FormatSize ELSE start + c.size

\* The position after a chunk that is passed over.
Skipped(c, start) ==
  (IF c.id = "fmt " /\ c.size <= FormatSize THEN start + FormatSize ELSE start + c.size) + (c.size % 2)

Load ==
  /\ loaded = Parsing
  /\ IF position >= EndOfFile THEN Finish(Invalid)
     ELSE \E i \in ChunksAt(position) :
       LET c == file[i]
       IN  IF c.id = "fmt " /\ c.size < FormatSize THEN Finish(Invalid)
           ELSE IF c.id = "data"
             THEN Finish(IF fmtFound = {TRUE} THEN Plays(i) ELSE Invalid)
           ELSE /\ position' = Skipped(c, position + HeaderSize)
                /\ fmtFound' = IF c.id = "fmt " THEN {c.pcm} ELSE fmtFound
                /\ UNCHANGED <<file, loaded>>

Init ==
  /\ file \in Files
  /\ position = 0 /\ fmtFound = {} /\ loaded = Parsing

Next == Load

Spec == Init /\ [][Next]_vars

\* The chunks that a reader of the list would take: the first one with samples,
\* after a format that is PCM and long enough.
Wanted(f) ==
  {i \in DOMAIN f :
    /\ f[i].id = "data"
    /\ \A j \in 1..(i - 1) : f[j].id # "data" /\ ~(f[j].id = "fmt " /\ f[j].size < FormatSize)
    /\ \E j \in 1..(i - 1) : f[j].id = "fmt " /\ f[j].pcm /\ \A k \in (j + 1)..(i - 1) : f[k].id # "fmt "}

\* The loader is always at the beginning of a chunk or at the end, so that it never
\* takes the inside of one for a header, and plays exactly the wanted chunk
\* (Wav::Load, with its padding of odd chunks and formats of any size).
WavParsed ==
  /\ position = EndOfFile \/ ChunksAt(position) # {}
  /\ loaded # Parsing => (IF Wanted(file) = {} THEN {Invalid} ELSE {Plays(i) : i \in Wanted(file)}) = {loaded}
=============================================================================
