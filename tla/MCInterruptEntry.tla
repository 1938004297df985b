-------------------------- MODULE MCInterruptEntry --------------------------
(* Bounds for TLC: two user threads and the idle thread; the timer, 0x20,  *)
(* the mouse, 0x2C, and int 0x80, which the stubs number 0xA0.             *)
EXTENDS InterruptEntry, TLC

CONSTANTS idle, a, b

MCThread == {idle, a, b}
MCIrq == {32, 44}
Users == Permutations({a, b})
=============================================================================
