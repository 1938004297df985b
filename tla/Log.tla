-------------------------------- MODULE Log --------------------------------
(***************************************************************************)
(* The kernel log: printf() and the ring of serial output of debug.cpp,    *)
(* the idle task that drains it (core/scheduler.cpp), and the printf() of  *)
(* programs (user_prog/libhx86/Hx86/debug.cpp), which ends in the same     *)
(* ring.  A character is a digit, or Minus.  Machine integers lie between  *)
(* IntMin and -IntMin - 1.                                                 *)
(***************************************************************************)
EXTENDS Integers, Sequences

CONSTANTS
  Size,      \* SERIAL_BUFFER_SIZE
  IntMin,    \* the least machine integer
  Numbers,   \* the numbers that are printed
  Cells,     \* the size of the buffer for the digits of a number
  Output,    \* the size of the buffer of a program's printf()
  MaxLog,    \* a bound: how much is logged
  IdleInterrupted  \* whether a printf() may come within the idle task's FlushSerial()

VARIABLES
  serialBuffer, readHead, writeHead,
  idle,      \* the idle task: "hlt", "test", "read", "out", "advance"
  taken,     \* the character it has read
  printed,   \* the last number that was printed, and its text
  accepted,  \* what was put into the ring
  sent       \* what was sent

ring == <<serialBuffer, readHead, writeHead>>
vars == <<ring, idle, taken, printed, accepted, sent>>

Minus == 16
Following(head) == (head + 1) % Size

\* The ring from the head up to writeHead.
From(head) ==
  [i \in 1..((writeHead + Size - head) % Size) |-> serialBuffer[(head + i - 1) % Size]]

-----------------------------------------------------------------------------
\* Numbers

Digits(n, base) ==
  LET d[k \in 0..n] == IF k = 0 THEN <<>> ELSE Append(d[k \div base], k % base)
  IN  IF n = 0 THEN <<0>> ELSE d[n]

\* num = -num
Negated(n) == IF n = IntMin THEN IntMin ELSE - n

\* %d of the kernel, which has the least integer as a string, and %u and %x.
Signed(n) ==
  IF n = IntMin THEN <<Minus>> \o Digits(- n, 10)
  ELSE IF n < 0 THEN <<Minus>> \o Digits(Negated(n), 10) ELSE Digits(n, 10)

Unsigned(n) == Digits(n, 10)
Hexadecimal(n) == Digits(n, 16)

\* %d of a program: digits are written while the number is positive.
ProgramSigned(n) ==
  LET magnitude == IF n < 0 THEN Negated(n) ELSE n
      digits    == IF magnitude < 0 THEN <<>> ELSE Digits(magnitude, 10)
      text      == (IF n < 0 THEN <<Minus>> ELSE <<>>) \o digits
  IN  IF Len(text) < Output THEN text ELSE SubSeq(text, 1, Output - 1)

-----------------------------------------------------------------------------
PushOverwriting(r, c) ==
  [r EXCEPT !.buffer[r.writeHead] = c,
            !.writeHead = Following(r.writeHead),
            !.accepted = Append(r.accepted, c)]

\* SerialPush(): a character that does not fit is dropped.
Push(r, c) ==
  IF Following(r.writeHead) = r.readHead THEN r
  ELSE [r EXCEPT !.buffer[r.writeHead] = c,
                 !.writeHead = Following(r.writeHead),
                 !.accepted = Append(r.accepted, c)]

\* FlushSerial() by who interrupted nobody, or has interrupts off.
Flush(r, ready) ==
  IF ~ready THEN r
  ELSE [r EXCEPT !.readHead = r.writeHead,
                 !.sent = r.sent \o
                   [i \in 1..((r.writeHead + Size - r.readHead) % Size) |->
                      r.buffer[(r.readHead + i - 1) % Size]]]

SerialPrint(text, ready) ==
  LET after[i \in 0..Len(text)] ==
        IF i = 0
          THEN [buffer |-> serialBuffer, readHead |-> readHead, writeHead |-> writeHead,
                accepted |-> accepted, sent |-> sent]
          ELSE Flush(Push(after[i - 1], text[i]), ready)
  IN  after[Len(text)]

\* printf(), with interrupts off: an interrupt handler's or a thread's.
Printf(text, ready) ==
  /\ Len(accepted) < MaxLog
  /\ idle = "hlt" \/ IdleInterrupted
  /\ LET r == SerialPrint(text, ready)
     IN  /\ serialBuffer' = r.buffer
         /\ readHead' = r.readHead
         /\ writeHead' = r.writeHead
         /\ accepted' = r.accepted
         /\ sent' = r.sent
  /\ UNCHANGED <<idle, taken>>

KernelPrints(n, ready) ==
  \/ Printf(Signed(n), ready) /\ printed' = [number |-> n, text |-> Signed(n), of |-> "%d"]
  \/ n >= 0 /\ Printf(Unsigned(n), ready) /\ printed' = [number |-> n, text |-> Unsigned(n), of |-> "%u"]
  \/ n >= 0 /\ Printf(Hexadecimal(n), ready) /\ printed' = [number |-> n, text |-> Hexadecimal(n), of |-> "%x"]

ProgramPrints(n, ready) ==
  /\ Printf(ProgramSigned(n), ready)
  /\ printed' = [number |-> n, text |-> ProgramSigned(n), of |-> "program"]

\* The idle task, with interrupts on.
IdleTask ==
  /\ \/ /\ idle = "hlt"
        /\ idle' = "test"
        /\ UNCHANGED <<taken, readHead, sent>>
     \/ /\ idle = "test"      \* and IsSerialReady()
        /\ idle' = "hlt" \/ (readHead # writeHead /\ idle' = "read")
        /\ UNCHANGED <<taken, readHead, sent>>
     \/ /\ idle = "read"
        /\ idle' = "out"
        /\ taken' = serialBuffer[readHead]
        /\ UNCHANGED <<readHead, sent>>
     \/ /\ idle = "out"
        /\ idle' = "advance"
        /\ sent' = Append(sent, taken)
        /\ UNCHANGED <<taken, readHead>>
     \/ /\ idle = "advance"
        /\ idle' = "test"
        /\ readHead' = Following(readHead)
        /\ UNCHANGED <<taken, sent>>
  /\ UNCHANGED <<serialBuffer, writeHead, printed, accepted>>

-----------------------------------------------------------------------------
Init ==
  /\ serialBuffer = [i \in 0..(Size - 1) |-> 0]
  /\ readHead = 0 /\ writeHead = 0
  /\ idle = "hlt" /\ taken = 0
  /\ printed = [number |-> 0, text |-> <<0>>, of |-> "%d"]
  /\ accepted = <<>> /\ sent = <<>>

Next ==
  \/ \E n \in Numbers, ready \in BOOLEAN : KernelPrints(n, ready) \/ ProgramPrints(n, ready)
  \/ IdleTask

Spec == Init /\ [][Next]_vars

-----------------------------------------------------------------------------
\* What is sent is what was put into the ring, in order, nothing lost or repeated:
\* what a full ring drops is dropped at the end (SerialPush, FlushSerial).
LogInOrder ==
  accepted = sent \o From(IF idle = "advance" THEN Following(readHead) ELSE readHead)

\* The number that a text stands for.
Value(text, base) ==
  LET v[i \in 0..Len(text)] ==
        IF i = 0 THEN 0
        ELSE IF text[i] = Minus THEN v[i - 1] ELSE base * v[i - 1] + text[i]
  IN  IF text[1] = Minus THEN - v[Len(text)] ELSE v[Len(text)]

\* A number is printed as itself, and its text and the end mark fit the buffer in
\* which the digits are put together from the end; programs' printf() leaves the
\* digits of the least integer out (vprintf of debug.cpp and of the library).
NumberPrinted ==
  /\ \/ printed.of = "program" /\ printed.number = IntMin
     \/ Value(printed.text, IF printed.of = "%x" THEN 16 ELSE 10) = printed.number
  /\ Len(printed.text) < Cells
=============================================================================
