------------------------------- MODULE Input -------------------------------
(***************************************************************************)
(* The mouse and the keyboard: core/drivers/mouse.cpp, keyboard.cpp, and   *)
(* Hsys_getInput of core/syscalls.cpp, which a game polls.                 *)
(*                                                                         *)
(* Both devices send bytes through one controller, which holds one byte at *)
(* a time and interrupts for it.  A byte of the mouse has Byte values.     *)
(***************************************************************************)
EXTENDS Integers, FiniteSets, Sequences

CONSTANTS
  Byte,        \* the number of values of a byte, even
  Moves,       \* the moves of the mouse: pairs of right and up
  MaxInputs,   \* a bound: how often a key, a button or the mouse moves
  EarlyInput   \* whether they may before both drivers are active

VARIABLES
  booted,      \* how many of the two drivers are active
  inputs,      \* inputs so far
  held,        \* the keys that are held down
  clicked,     \* the buttons of the mouse that are down
  moved,       \* how far the mouse was moved, right and down
  keyLine, mouseLine,   \* bytes that the devices still have to send
  out,         \* the byte in the controller: <<device, byte>>, or none
  extended,    \* isExtendedScancode
  keyStates,   \* scancodes whose state is 1
  modifiers,   \* modifiers whose flag is set
  capsLockActive,
  packet, buttons, accumulated,   \* of the mouse driver; offset is Len(packet)
  deskMoved, deskDown,            \* what the desktop was told
  polled       \* the sum of the movements that games were told

boot == <<booted, inputs>>
world == <<held, clicked, moved>>
controller == <<keyLine, mouseLine, out>>
keyboard == <<extended, keyStates, modifiers, capsLockActive>>
mouse == <<packet, buttons, accumulated, deskMoved, deskDown>>
vars == <<boot, world, controller, keyboard, mouse, polled>>

\* A key is its scancode and whether a prefix comes before it.  The release of a
\* key has the highest bit set.
LeftShift == <<42, FALSE>>
CapsLock == <<58, FALSE>>
Letter == <<30, FALSE>>
LeftCtrl == <<29, FALSE>>
RightCtrl == <<29, TRUE>>
Keys == {LeftShift, CapsLock, Letter, LeftCtrl, RightCtrl}
Prefix == 224
Released == 128
Empty == <<"none", 0>>

Modifier(k) ==
  CASE k = LeftShift -> {"left shift"}
    [] k = LeftCtrl  -> {"left ctrl"}
    [] k = RightCtrl -> {"right ctrl"}
    [] OTHER         -> {}

Plus(p, q) == <<p[1] + q[1], p[2] + q[2]>>

-----------------------------------------------------------------------------
\* The devices

Input ==
  /\ inputs < MaxInputs
  /\ booted = 2 \/ (booted = 1 /\ EarlyInput)
  /\ inputs' = inputs + 1
  /\ UNCHANGED <<booted, out, keyboard, mouse, polled>>

Send(k, up) == (IF k[2] THEN <<Prefix>> ELSE <<>>) \o <<k[1] + (IF up THEN Released ELSE 0)>>

\* A key that is held down repeats itself.
PressKey(k) ==
  /\ Input
  /\ held' = held \cup {k}
  /\ keyLine' = keyLine \o Send(k, FALSE)
  /\ UNCHANGED <<clicked, moved, mouseLine, out>>

ReleaseKey(k) ==
  /\ Input
  /\ k \in held
  /\ held' = held \ {k}
  /\ keyLine' = keyLine \o Send(k, TRUE)
  /\ UNCHANGED <<clicked, moved, mouseLine, out>>

MoveMouse(m, down) ==
  /\ Input
  /\ clicked' = down
  /\ moved' = Plus(moved, <<m[1], - m[2]>>)
  /\ mouseLine' = mouseLine \o <<down, m[1] % Byte, m[2] % Byte>>
  /\ UNCHANGED <<held, keyLine, out>>

\* The controller takes the next byte when the last one was read.
Load(d) ==
  /\ out = Empty
  /\ \/ /\ d = "keyboard" /\ keyLine # <<>>
        /\ out' = <<d, Head(keyLine)>>
        /\ keyLine' = Tail(keyLine)
        /\ UNCHANGED mouseLine
     \/ /\ d = "mouse" /\ mouseLine # <<>>
        /\ out' = <<d, Head(mouseLine)>>
        /\ mouseLine' = Tail(mouseLine)
        /\ UNCHANGED keyLine
  /\ UNCHANGED <<boot, world, keyboard, mouse, polled>>

-----------------------------------------------------------------------------
\* ActivateAll(), with interrupts off: the mouse first, and then the keyboard,
\* which throws away whatever waits in the controller.
ActivateMouse ==
  /\ booted = 0
  /\ booted' = 1
  /\ UNCHANGED <<inputs, world, controller, keyboard, mouse, polled>>

ActivateKeyboard ==
  /\ booted = 1
  /\ booted' = 2
  /\ out' = Empty
  /\ UNCHANGED <<inputs, world, keyLine, mouseLine, keyboard, mouse, polled>>

-----------------------------------------------------------------------------
\* KeyboardDriver::HandleInterrupt()

\* A second byte: the right hand's modifiers.  keyStates is left alone.
ExtendedKey(key) ==
  /\ extended' = FALSE
  /\ modifiers' = CASE key = 29            -> modifiers \cup Modifier(RightCtrl)
                    [] key = 29 + Released -> modifiers \ Modifier(RightCtrl)
                    [] OTHER               -> modifiers
  /\ UNCHANGED <<keyStates, capsLockActive>>

KeyDown(key) ==
  /\ keyStates' = keyStates \cup {key}
  /\ modifiers' = modifiers \cup Modifier(<<key, FALSE>>)
  /\ capsLockActive' = (capsLockActive # (key = CapsLock[1]))
  /\ UNCHANGED extended

KeyUp(key) ==
  /\ keyStates' = keyStates \ {key - Released}
  /\ modifiers' = modifiers \ Modifier(<<key - Released, FALSE>>)
  /\ UNCHANGED <<extended, capsLockActive>>

KeyByteWithoutPrefix(key) ==
  IF key = Prefix
    THEN UNCHANGED <<extended, keyStates, modifiers, capsLockActive>>
  ELSE IF key < Released THEN KeyDown(key)
  ELSE KeyUp(key)

KeyByte(key) ==
  IF key = Prefix
    THEN extended' = TRUE /\ UNCHANGED <<keyStates, modifiers, capsLockActive>>
  ELSE IF extended THEN ExtendedKey(key)
  ELSE IF key < Released THEN KeyDown(key)
  ELSE KeyUp(key)

KeyboardInterrupt ==
  /\ booted = 2
  /\ out[1] = "keyboard"
  /\ out' = Empty
  /\ KeyByte(out[2])
  /\ UNCHANGED <<boot, world, keyLine, mouseLine, mouse, polled>>

-----------------------------------------------------------------------------
\* MouseDriver::HandleInterrupt()

\* (int8_t)
Signed(b) == IF 2 * b >= Byte THEN b - Byte ELSE b

\* The third byte ends a packet: one move, and an event for every button that
\* is not as it was.
PacketComplete(p) ==
  LET delta == <<Signed(p[2]), - Signed(p[3])>>
  IN  /\ packet' = <<>>
      /\ IF delta # <<0, 0>>
           THEN /\ accumulated' = Plus(accumulated, delta)
                /\ deskMoved' = Plus(deskMoved, delta)
           ELSE UNCHANGED <<accumulated, deskMoved>>
      /\ deskDown' = (deskDown \ (buttons \ p[1])) \cup (p[1] \ buttons)
      /\ buttons' = p[1]

MouseInterrupt ==
  /\ booted = 2
  /\ out[1] = "mouse"
  /\ out' = Empty
  /\ IF Len(packet) = 2
       THEN PacketComplete(Append(packet, out[2]))
       ELSE /\ packet' = Append(packet, out[2])
            /\ UNCHANGED <<buttons, accumulated, deskMoved, deskDown>>
  /\ UNCHANGED <<boot, world, keyLine, mouseLine, keyboard, polled>>

\* Hsys_getInput and GetMouseDelta(), inside the system call's interrupt.
GetInput ==
  /\ booted = 2
  /\ accumulated # <<0, 0>>
  /\ polled' = Plus(polled, accumulated)
  /\ accumulated' = <<0, 0>>
  /\ UNCHANGED <<boot, world, controller, keyboard, packet, buttons, deskMoved, deskDown>>

-----------------------------------------------------------------------------
Init ==
  /\ booted = 0 /\ inputs = 0
  /\ held = {} /\ clicked = {} /\ moved = <<0, 0>>
  /\ keyLine = <<>> /\ mouseLine = <<>> /\ out = Empty
  /\ extended = FALSE /\ keyStates = {} /\ modifiers = {} /\ capsLockActive = FALSE
  /\ packet = <<>> /\ buttons = {} /\ accumulated = <<0, 0>>
  /\ deskMoved = <<0, 0>> /\ deskDown = {}
  /\ polled = <<0, 0>>

Next ==
  \/ ActivateMouse \/ ActivateKeyboard
  \/ \E k \in Keys : PressKey(k) \/ ReleaseKey(k)
  \/ \E m \in Moves, down \in SUBSET {1, 2} : MoveMouse(m, down)
  \/ \E d \in {"keyboard", "mouse"} : Load(d)
  \/ KeyboardInterrupt \/ MouseInterrupt \/ GetInput

-----------------------------------------------------------------------------
KeysTrue ==
  /\ keyStates = {k[1] : k \in {q \in held : ~q[2]}}
  /\ modifiers = UNION {Modifier(k) : k \in held}

MouseTrue ==
  /\ Plus(polled, accumulated) = moved
  /\ deskMoved = moved
  /\ buttons = clicked /\ deskDown = clicked

\* When a device has nothing more to send, the driver, the desktop and the games
\* know the keys, the buttons and the movement as they are: no byte was taken for
\* one of the other device, of another key or of another place in its packet, and
\* a movement was told once (HandleInterrupt of both drivers, GetMouseDelta).
InputTrue ==
  /\ keyLine = <<>> /\ out[1] # "keyboard" => KeysTrue
  /\ mouseLine = <<>> /\ out[1] # "mouse" => MouseTrue
=============================================================================
