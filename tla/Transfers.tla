------------------------------ MODULE Transfers ------------------------------
(***************************************************************************)
(* What comes into the kernel and what goes out of it: keys and the mouse, *)
(* the files of sounds and of models, the samples of a sound, and the log. *)
(* None of these components reads what another one keeps, so one of them   *)
(* is chosen in the beginning and takes all the steps.                     *)
(***************************************************************************)
EXTENDS Integers, Sequences

CONSTANTS
  Byte, Moves, MaxInputs, EarlyInput,              \* Input
  Lengths, Slots, Half, Entries, MergedInterrupts, \* Audio
  Files, HeaderSize, FormatSize,                   \* WavFile
  Size, IntMin, Numbers, Cells, Output, MaxLog,
  IdleInterrupted,                                 \* Log
  Models                                           \* ObjFile

\* A file of sound is a list of chunks, one of a model a list of lines, of which a face
\* has a list of corners.
Chunks == [id : {"fmt ", "data", "LIST"}, size : Nat, pcm : BOOLEAN]
ModelLines == [kind : {"v", "vn", "f"}, corners : Seq(Seq(Nat))]

\* A move fits into a signed byte; the ring of sound has two halves in turn; the ring of
\* the log has a place at least, and what it prints are machine integers.
ASSUME TransfersAssumption ==
  /\ Byte \in Nat \ {0}
  /\ Moves \subseteq {m \in Int \X Int : /\ - Byte <= 2 * m[1] /\ 2 * m[1] < Byte
                                         /\ - Byte <= 2 * m[2] /\ 2 * m[2] < Byte}
  /\ Lengths \in Seq(Nat) /\ Slots \in Nat /\ Half \in Nat \ {0}
  /\ Entries \in Nat \ {0} /\ Entries % 2 = 0
  /\ Files \subseteq Seq(Chunks) /\ HeaderSize \in Nat \ {0} /\ FormatSize \in Nat
  /\ Size \in Nat \ {0} /\ Output \in Nat \ {0}
  /\ IntMin \in Int /\ IntMin < 0 /\ Numbers \subseteq IntMin..(- IntMin)
  /\ Models \subseteq Seq(ModelLines)

\* What the kernel needs of its surroundings: nobody types before both drivers are
\* active, the end of each buffer of sound is handled before the next one ends, and
\* nobody prints while the idle task sends.
Undisturbed == EarlyInput = FALSE /\ MergedInterrupts = FALSE /\ IdleInterrupted = FALSE

VARIABLES
  part,   \* the component that runs
  booted, inputs, heldKeys, clicked, moved, keyLine, mouseLine,
  out, extended, keyStates, modifiers, capsLockActive, packet, buttons,
  accumulated, deskMoved, deskDown, polled,                       \* Input
  started, streams, filling, ram, bdl, sw_lvi, buffersOccupied,
  isPlaying, civ, lvi, device, pending, heard,                    \* Audio
  file, position, fmtFound, loaded,                               \* WavFile
  serialBuffer, readHead, writeHead, idle, taken, printed,
  accepted, sent,                                                 \* Log
  model, counts, line, vi, ni, tris                               \* ObjFile

-----------------------------------------------------------------------------
I == INSTANCE Input WITH held <- heldKeys
A == INSTANCE Audio
W == INSTANCE WavFile
L == INSTANCE Log
O == INSTANCE ObjFile

inputVars ==
  <<booted, inputs, heldKeys, clicked, moved, keyLine, mouseLine, out, extended,
    keyStates, modifiers, capsLockActive, packet, buttons, accumulated,
    deskMoved, deskDown, polled>>
audioVars ==
  <<started, streams, filling, ram, bdl, sw_lvi, buffersOccupied, isPlaying,
    civ, lvi, device, pending, heard>>
wavVars ==
  <<file, position, fmtFound, loaded>>
logVars ==
  <<serialBuffer, readHead, writeHead, idle, taken, printed, accepted, sent>>
objVars ==
  <<model, counts, line, vi, ni, tris>>
transferVars == <<inputVars, audioVars, wavVars, logVars, objVars>>

TransfersInit ==
  /\ I!Init
  /\ A!Init
  /\ IF part = "wav" THEN W!Init
     ELSE file = <<>> /\ position = 0 /\ fmtFound = {} /\ loaded = W!Parsing
  /\ L!Init
  /\ IF part = "obj" THEN O!Init
     ELSE model = <<>> /\ counts = O!NotCounted /\ line = 0 /\ vi = 1 /\ ni = 1 /\ tris = <<>>

TransfersNext ==
  \/ part = "input" /\ I!Next /\ UNCHANGED <<part, audioVars, wavVars, logVars, objVars>>
  \/ part = "audio" /\ A!Next /\ UNCHANGED <<part, inputVars, wavVars, logVars, objVars>>
  \/ part = "wav" /\ W!Next /\ UNCHANGED <<part, inputVars, audioVars, logVars, objVars>>
  \/ part = "log" /\ L!Next /\ UNCHANGED <<part, inputVars, audioVars, wavVars, objVars>>
  \/ part = "obj" /\ O!Next /\ UNCHANGED <<part, inputVars, audioVars, wavVars, logVars>>

TransfersSpec == TransfersInit /\ [][TransfersNext]_<<part, transferVars>>

-----------------------------------------------------------------------------
\* What comes in is taken for what it is, and what goes out arrives whole and in
\* order, whenever the interrupts come: which keys and buttons are down and how far
\* the mouse went, a file of sound or of a model, the samples of a sound through
\* the ring of the AC97 device, and the log through the ring that the idle task
\* empties.
TransfersWhole ==
  /\ part = "input" => I!InputTrue
  /\ part = "wav" => W!WavParsed
  /\ part = "obj" => O!MeshRight
  /\ part = "audio" => A!SoundWhole /\ A!RingExact
  /\ part = "log" => L!LogInOrder
=============================================================================
