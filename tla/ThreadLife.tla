----------------------------- MODULE ThreadLife -----------------------------
(***************************************************************************)
(* What the scheduler of Hashx86 promises about processes and threads,     *)
(* with its queues, its timer and its address spaces left out:             *)
(*   - a thread is born into one process and belongs to it until it exits; *)
(*   - only the thread that owns the CPU exits, and it never comes back;   *)
(*   - a process ends together with its last thread, never before, and its *)
(*     identity is not used again;                                         *)
(*   - the CPU is given only to threads that have been born and have not   *)
(*     exited, or to the idle thread.                                      *)
(* Scheduler.tla is shown to implement this specification.                 *)
(***************************************************************************)
EXTENDS Integers

CONSTANTS
  Threads,   (* identities of thread control blocks               *)
  Processes, (* identities of process control blocks              *)
  Kernel,    (* the process that exists at boot                   *)
  Desktop,   (* the only thread of Kernel at boot                 *)
  IdleTask,  (* the idle thread: it belongs to no process         *)
  Nobody     (* no thread owns the CPU                            *)

VARIABLES
  alive,    (* the processes that exist                           *)
  ended,    (* the processes that have ended                      *)
  members,  (* the threads of each process                        *)
  exited,   (* the threads that are gone                          *)
  cpu       (* the owner of the CPU                               *)

lifeVars == <<alive, ended, members, exited, cpu>>

Unborn == Threads \ (exited \union UNION {members[p] : p \in Processes})

Unused == Processes \ (alive \union ended)

LifeInit ==
  /\ alive = {Kernel}
  /\ ended = {}
  /\ members = [p \in Processes |-> IF p = Kernel THEN {Desktop} ELSE {}]
  /\ exited = {}
  /\ cpu = Nobody

(* A program is started: its process appears with its main thread, or      *)
(* empty when there was no memory for the thread.                          *)
StartProcess(p, t) ==
  /\ p \in Unused
  /\ t \in Unborn
  /\ alive' = alive \union {p}
  /\ \/ members' = [members EXCEPT ![p] = {t}] /\ UNCHANGED exited
     \/ exited' = exited \union {t} /\ UNCHANGED members
  /\ UNCHANGED <<ended, cpu>>

(* The owner of the CPU adds a thread to its own process, or fails to.     *)
StartThread(p, t) ==
  /\ p \in alive
  /\ cpu \in members[p]
  /\ t \in Unborn
  /\ \/ members' = [members EXCEPT ![p] = @ \union {t}] /\ UNCHANGED exited
     \/ exited' = exited \union {t} /\ UNCHANGED members
  /\ UNCHANGED <<alive, ended, cpu>>

(* The CPU changes hands. *)
SwitchTo(t) ==
  /\ t = IdleTask \/ \E p \in alive : t \in members[p]
  /\ cpu' = t
  /\ UNCHANGED <<alive, ended, members, exited>>

(* The owner of the CPU exits; with it its process, if it was the last.    *)
Exit(p) ==
  /\ p \in alive
  /\ cpu \in members[p]
  /\ members' = [members EXCEPT ![p] = @ \ {cpu}]
  /\ exited' = exited \union {cpu}
  /\ cpu' = Nobody
  /\ IF members[p] = {cpu}
     THEN alive' = alive \ {p} /\ ended' = ended \union {p}
     ELSE UNCHANGED <<alive, ended>>

LifeNext ==
  \/ \E p \in Processes, t \in Threads : StartProcess(p, t) \/ StartThread(p, t)
  \/ \E t \in Threads \union {IdleTask} : SwitchTo(t)
  \/ \E p \in Processes : Exit(p)

LifeSpec == LifeInit /\ [][LifeNext]_lifeVars
=============================================================================
