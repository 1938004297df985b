SPECIFICATION Spec
CONSTANTS
  idle = idle
  a = a
  b = b
  Thread <- MCThread
  Idle <- idle
  Irq <- MCIrq
  Timer = 32
  Syscall = 160
  EntryWindow = FALSE
SYMMETRY Users
INVARIANT SyscallsInterruptible
