------------------------------- MODULE Audio -------------------------------
(***************************************************************************)
(* The mixer (core/drivers/AudioMixer.cpp) and the AC97 driver             *)
(* (drivers/ac97.cpp): the timer's Update() fills two halves of a buffer   *)
(* in turn, and the device plays them through a ring of descriptors.       *)
(*                                                                         *)
(* A sound is its number and what is mixed is, for each sound, the samples *)
(* of it, by their index.  The device follows the AC97 specification as    *)
(* far as the driver uses it.                                              *)
(***************************************************************************)
EXTENDS Naturals, Sequences

CONSTANTS
  Lengths,          \* the length of each sound in samples
  Slots,            \* the number of streams
  Half,             \* the samples in half the buffer
  Entries,          \* AC97_BDL_ENTRIES
  MergedInterrupts  \* whether a buffer may end before the last one's interrupt

VARIABLES
  started,    \* how many sounds PlayBuffer() was called for
  streams,    \* the streams: a sound, or 0 when not active, and its position
  filling,    \* the step of the call that fills buffers, with interrupts off
  ram,        \* the two halves: for each sound, the samples in it
  bdl,        \* which half each descriptor names
  sw_lvi, buffersOccupied, isPlaying,
  civ, lvi,   \* the device's registers: current and last valid descriptor
  device,     \* "off", "playing" or "halted"
  pending,    \* whether its interrupt waits
  heard       \* for each sound, the samples that were played

mixer == <<started, streams, filling>>
driver == <<ram, bdl, sw_lvi, buffersOccupied, isPlaying>>
hardware == <<civ, lvi, device, pending>>
vars == <<mixer, driver, hardware, heard>>

Sounds == DOMAIN Lengths
Silence == [s \in Sounds |-> <<>>]
Least(a, b) == IF a < b THEN a ELSE b

-----------------------------------------------------------------------------
\* The mixer

\* PlayBuffer() takes the first free stream, or drops the sound.  Its one caller
\* is the boot, before interrupts are on.
PlayBuffer ==
  /\ filling = "no"
  /\ started < Len(Lengths)
  /\ started' = started + 1
  /\ LET free == {i \in 1..Slots : streams[i].sound = 0}
     IN  streams' = IF free = {} THEN streams
                    ELSE [streams EXCEPT ![CHOOSE i \in free : \A j \in free : i <= j] =
                            [sound |-> started + 1, position |-> 0]]
  /\ filling' = IF isPlaying THEN "no" ELSE "first"
  /\ UNCHANGED <<driver, hardware, heard>>

\* Update(), in every tenth timer interrupt.
Update ==
  /\ filling = "no"
  /\ filling' = "update"
  /\ UNCHANGED <<started, streams, driver, hardware, heard>>

IsReadyForThree == buffersOccupied < 3
IsReadyForData == buffersOccupied < 2

\* The samples that a stream adds to a buffer.
Taken(st) ==
  IF st.sound = 0 THEN <<>>
  ELSE [i \in 1..(Least(Lengths[st.sound], st.position + Half) - st.position) |-> st.position + i]

\* A stream that has ended is noticed when there is still room after it.
Advanced(st) ==
  IF st.sound = 0 THEN st
  ELSE IF Lengths[st.sound] < st.position + Half
    THEN [sound |-> 0, position |-> 0]
    ELSE [st EXCEPT !.position = @ + Half]

Mixed ==
  [s \in Sounds |->
    LET of == {i \in 1..Slots : streams[i].sound = s}
    IN  IF of = {} THEN <<>> ELSE Taken(streams[CHOOSE i \in of : TRUE])]

\* ProcessAudio() and WriteData(): the half that belongs to sw_lvi is overwritten,
\* and then the device is told of it.
ProcessAudio ==
  /\ filling \in {"first", "update"}
  /\ IsReadyForData
  /\ streams' = [i \in 1..Slots |-> Advanced(streams[i])]
  /\ ram' = [ram EXCEPT ![sw_lvi % 2] = Mixed]
  /\ filling' = IF filling = "first" THEN "first written" ELSE "update written"
  /\ UNCHANGED <<started, bdl, sw_lvi, buffersOccupied, isPlaying, hardware, heard>>

\* A device that is halted goes on when the last valid index moves.
WriteData ==
  /\ filling \in {"first written", "update written"}
  /\ bdl' = [bdl EXCEPT ![sw_lvi] = sw_lvi % 2]
  /\ lvi' = sw_lvi
  /\ sw_lvi' = (sw_lvi + 1) % Entries
  /\ buffersOccupied' = buffersOccupied + 1
  /\ IF device = "halted"
       THEN device' = "playing" /\ civ' = (civ + 1) % Entries
       ELSE UNCHANGED <<device, civ>>
  /\ filling' = IF filling = "first written" THEN "first" ELSE "update"
  /\ UNCHANGED <<started, streams, ram, isPlaying, pending, heard>>

Filled ==
  /\ filling \in {"first", "update"}
  /\ ~IsReadyForData
  /\ filling' = "no"
  /\ IF filling = "first"
       THEN isPlaying' = TRUE /\ device' = "playing"
       ELSE UNCHANGED <<isPlaying, device>>
  /\ UNCHANGED <<started, streams, ram, bdl, sw_lvi, buffersOccupied, civ, lvi, pending, heard>>

-----------------------------------------------------------------------------
\* The device

BufferPlayed ==
  /\ device = "playing"
  /\ ~pending \/ MergedInterrupts
  /\ heard' = [s \in Sounds |-> heard[s] \o ram[bdl[civ]][s]]
  /\ pending' = TRUE
  /\ IF civ = lvi
       THEN device' = "halted" /\ UNCHANGED civ
       ELSE civ' = (civ + 1) % Entries /\ UNCHANGED device
  /\ UNCHANGED <<mixer, driver, lvi>>

OnInterrupt ==
  /\ filling = "no"
  /\ pending
  /\ pending' = FALSE
  /\ buffersOccupied' = IF buffersOccupied > 0 THEN buffersOccupied - 1 ELSE 0
  /\ UNCHANGED <<mixer, ram, bdl, sw_lvi, isPlaying, civ, lvi, device, heard>>

-----------------------------------------------------------------------------
Init ==
  /\ started = 0
  /\ streams = [i \in 1..Slots |-> [sound |-> 0, position |-> 0]]
  /\ filling = "no"
  /\ ram = [h \in {0, 1} |-> Silence]
  /\ bdl = [e \in 0..(Entries - 1) |-> 0]
  /\ sw_lvi = 0 /\ buffersOccupied = 0 /\ isPlaying = FALSE
  /\ civ = 0 /\ lvi = 0 /\ device = "off" /\ pending = FALSE
  /\ heard = Silence

Next == PlayBuffer \/ Update \/ ProcessAudio \/ WriteData \/ Filled \/ BufferPlayed \/ OnInterrupt

Spec == Init /\ [][Next]_vars

-----------------------------------------------------------------------------
\* A sound is heard from its first sample on, in order, nothing twice and nothing
\* left out: no half is overwritten before it was played or while it is, whatever
\* the order of the timer, the end of a buffer and its interrupt (IsReadyForData,
\* WriteData, OnInterrupt).
SoundWhole == \A s \in Sounds : \A i \in 1..Len(heard[s]) : heard[s][i] = i

\* The driver counts the buffers that the device has yet to play, so that it
\* neither runs ahead of the device nor leaves it without a buffer for ever
\* (buffersOccupied of WriteData and OnInterrupt).
RingExact ==
  LET ahead == IF device = "halted" \/ buffersOccupied = 0 THEN 0 ELSE ((lvi + Entries - civ) % Entries) + 1
  IN  filling = "no" /\ isPlaying => buffersOccupied = ahead + (IF pending THEN 1 ELSE 0)
=============================================================================
