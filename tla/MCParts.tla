------------------------------- MODULE MCParts -------------------------------
(***************************************************************************)
(* The smaller components, each of which keeps state that no other one     *)
(* reads: one of them is chosen in the beginning and takes all the steps.  *)
(* The heap of a program, the transfers, the start and the displays are    *)
(* extended, so that their invariants are the ones that Parts_proofs and   *)
(* Desktop_proofs are about; the other ones are instances.                 *)
(***************************************************************************)
EXTENDS UserHeap, Transfers, Startup, Displays

VARIABLES
  call, result,                                                   \* Drawing
  drawn, image, sky, zBuffer, screen                              \* Renderer

-----------------------------------------------------------------------------
\* Values of the constants of Transfers.
MCMoves == {<<0, 0>>, <<1, -2>>, <<-4, 3>>}
MCLengths == <<3, 1, 4>>
Chunk(id, size, pcm) == [id |-> id, size |-> size, pcm |-> pcm]
MCChunks ==
  {Chunk("fmt ", 2, TRUE), Chunk("fmt ", 4, TRUE), Chunk("fmt ", 5, TRUE), Chunk("fmt ", 6, FALSE),
   Chunk("LIST", 1, TRUE), Chunk("LIST", 2, TRUE), Chunk("data", 3, TRUE)}
MCFiles == UNION {[1..n -> MCChunks] : n \in 0..4}
MCIntMin == -16
MCNumbers == {-16, -9, 0, 15}

\* Faces with two to five corners, with and without a normal.
Corners ==
  {<< <<1, 0>>, <<2, 1>> >>,
   << <<1, 1>>, <<2, 1>>, <<3, 0>> >>,
   << <<1, 1>>, <<2, 2>>, <<3, 0>>, <<1, 1>> >>,
   << <<1, 1>>, <<2, 2>>, <<3, 0>>, <<4, 1>>, <<1, 1>> >>}
MCLines ==
  [kind : {"v", "vn"}, corners : {<<>>}] \cup [kind : {"f"}, corners : Corners]
MCModels == UNION {[1..n -> MCLines] : n \in 0..4}

\* Characters that overlap, touch and stand apart; "?" is drawn for unknown ones.
Shape(columns, rows, left, topOffset, advance) ==
  [columns |-> columns, rows |-> rows, left |-> left, top |-> topOffset, advance |-> advance]
Font == [c \in {"a", "b", "?"} |->
  CASE c = "a" -> Shape(2, 3, 0, 0, 3)
    [] c = "b" -> Shape(3, 2, 1, 1, 3)
    [] c = "?" -> Shape(1, 2, 0, 0, 2)]
Pairs == [p \in {<<"a", "b">>, <<"b", "?">>} |-> IF p[1] = "a" THEN -1 ELSE 1]
Texts == UNION {[1..n -> {"a", "b", "newline", "other"}] : n \in 0..3}
Bitmaps ==
  [signature : BOOLEAN, w : 1..5, h : 1..3, bytes : {2, 3, 4}, topDown : BOOLEAN]
D == INSTANCE Drawing WITH Width <- 5, Height <- 4, Wide <- 1024, At <- -3..6,
       Sizes <- {0, 1, 3, 5}, Radii <- 0..3, Glyph <- Font, Kerning <- Pairs

\* Triangles in, across and outside the image, before and behind the eye.
Points == {<<-2, 0, 1>>, <<2, -2, 1>>, <<6, 4, 1>>}
Triangles ==
  Points \X (Points \cup {<<0, 4, 1>>, <<2, 4, 0>>, <<6, -2, 0>>}) \X {<<4, 6, 1>>, <<0, 2, 0>>}
R == INSTANCE Renderer WITH Width <- 4, Height <- 3, SkyWidth <- 2, SkyHeight <- 5,
       ScreenWidth <- 6, ScreenHeight <- 7, MaxDrawn <- 2

\* Drives with an odd and an even number of sectors; tables as "make hdd" and other
\* systems write them, and blank disks.
MCAnswers == {<<"none", 0>>, <<"error", 0>>, <<"disk", 7>>, <<"disk", 10>>}
Part(type, start, length) == [type |-> type, start |-> start, length |-> length]
Unused == Part("none", 0, 0)
MCTables ==
  {<<>>, <<Part("fat", 3, 4), Unused, Unused, Unused>>, <<Part("other", 3, 2), Unused, Unused, Unused>>,
   <<Part("other", 3, 2), Part("fat", 5, 2), Unused, Unused>>}

\* Devices with one function and with two, present and not; modules with references
\* within and between sections, to the kernel and to nothing, of both kinds, from a
\* section that is not loaded, and with and without an entry.
Device(multi, first, second) == [multi |-> multi, ids |-> <<first, second>>]
Devices ==
  {Device(FALSE, "other", "nothing"), Device(TRUE, "other", "qemu"), Device(FALSE, "other", "ac97"),
   Device(FALSE, "vmware", "nothing"), Device(TRUE, "other", "ac97"), Device(FALSE, "nothing", "nothing")}
MCBuses == Devices \X Devices
Section(alloc, words) == [alloc |-> alloc, words |-> words]
Sections == <<Section(TRUE, <<5, 6, 7>>), Section(FALSE, <<1, 2>>), Section(TRUE, <<0, 9>>)>>
Named(name, section, value) == [name |-> name, section |-> section, value |-> value]
SymbolsWith(entrySection) ==
  <<Named("printf", 0, 0), Named("data", 3, 1), Named("missing", 0, 0),
    Named("CreateDriverInstance", entrySection, 1), Named("text", 1, 0)>>
Rel(section, offset, symbol, type) ==
  [section |-> section, offset |-> offset, symbol |-> symbol, type |-> type]
Relocations ==
  {<<Rel(1, 0, 1, "relative"), Rel(1, 2, 2, "absolute"), Rel(2, 1, 5, "absolute"), Rel(3, 0, 5, "absolute")>>,
   <<Rel(3, 1, 3, "absolute"), Rel(3, 0, 4, "relative")>>}
ModuleFile(kind, devices, probed, relocatable, entrySection, relocations) ==
  [kind |-> kind, devices |-> devices, probed |-> probed, relocatable |-> relocatable,
   sections |-> Sections, symbols |-> SymbolsWith(entrySection), relocations |-> relocations]
MCDriverFiles ==
  {ModuleFile(k, d, TRUE, TRUE, e, r) : k \in {"display", "audio"},
     d \in {<<"qemu", "vmware">>, <<"ac97">>, <<"nothing", "qemu">>}, e \in {0, 1}, r \in Relocations}
  \cup {ModuleFile("display", <<"qemu">>, p, ~p, 1, <<>>) : p \in BOOLEAN}
MCExported == [n \in {"printf"} |-> 50]

\* Sections with a short and a long name, two functions at one address, and addresses
\* before, between and far after them; stacks that end, turn back, or lead away.
MapLine(kind, addr, name) == [kind |-> kind, addr |-> addr, name |-> name]
MCMapFiles ==
  {<<>>,
   <<MapLine("header", 0, ""), MapLine("wrapped section", 10, "size"), MapLine("symbol", 10, "f"),
     MapLine("symbol", 14, "g"), MapLine("section", 20, "size"), MapLine("symbol", 20, "h")>>,
   <<MapLine("wrapped section", 10, "size"), MapLine("symbol", 10, "f"),
     MapLine("wrapped section", 16, "size"), MapLine("symbol", 16, "g"), MapLine("symbol", 16, "h")>>}
Stack(first, frames) == [a \in first..(first + Len(frames) - 1) |-> frames[a - first + 1]]
MCKernelStacks ==
  {Stack(1, <<<<2, 11>>, <<3, 16>>, <<0, 60>>>>), Stack(1, <<<<2, 5>>, <<1, 21>>, <<0, 15>>>>),
   Stack(1, <<<<3, 10>>, <<2, 21>>, <<120, 15>>>>)}
MCUserStacks ==
  {Stack(150, <<<<151, 210>>, <<152, 220>>, <<0, 0>>>>), Stack(150, <<<<151, 210>>, <<150, 220>>>>),
   Stack(150, <<<<151, 210>>, <<155, 220>>>>), Stack(151, <<<<152, 210>>>>)}

-----------------------------------------------------------------------------
drawingVars ==
  <<call, result>>
rendererVars ==
  <<drawn, image, sky, zBuffer, screen>>

Parts ==
  {"input", "audio", "wav", "log", "drawing", "obj", "renderer", "heap", "boot", "display"}

PartsInit ==
  /\ part \in Parts
  /\ TransfersInit
  /\ IF part = "drawing" THEN D!Init
     ELSE call = <<"none">> /\ result = <<"none">>
  /\ R!Init
  /\ Init
  /\ starting \in IF part = "boot" THEN {"disk", "drivers", "panic"} ELSE {"none"}
  /\ StartupInit
  /\ showing \in IF part = "display" THEN {"screen", "console"} ELSE {"none"}
  /\ DisplaysInit

OthersRest(p) ==
  /\ IF p = "transfer" THEN TRUE ELSE UNCHANGED <<part, transferVars>>
  /\ IF p = "drawing" THEN TRUE ELSE UNCHANGED drawingVars
  /\ IF p = "renderer" THEN TRUE ELSE UNCHANGED rendererVars
  /\ IF p = "heap" THEN TRUE ELSE UNCHANGED vars
  /\ IF p = "boot" THEN TRUE ELSE UNCHANGED startupVars
  /\ IF p = "display" THEN TRUE ELSE UNCHANGED displayVars

PartsNext ==
  \/ TransfersNext /\ OthersRest("transfer")
  \/ part = "drawing" /\ D!Next /\ OthersRest("drawing")
  \/ part = "renderer" /\ R!Next /\ OthersRest("renderer")
  \/ part = "heap" /\ Next /\ OthersRest("heap")
  \/ part = "boot" /\ StartupNext /\ OthersRest("boot")
  \/ part = "display" /\ DisplaysNext /\ OthersRest("display")

-----------------------------------------------------------------------------
\* Pictures and numbers are what they should be.  A drawing operation colours every
\* pixel of its figure, picture or text in the buffer, none outside the buffer, and
\* no other one where its coordinates meet the conditions that Drawing names (not
\* left of the buffer or above it, in the main); a frame of the game shows the
\* nearest triangle in each pixel; and a number is printed as its digits.
PicturesRight ==
  /\ part = "drawing" => D!DrawnRight
  /\ part = "renderer" => R!FrameRight
  /\ part = "log" => L!NumberPrinted
=============================================================================
