------------------------------- MODULE Sched -------------------------------
(***************************************************************************)
(* The process table, the round-robin queue and the context switch of the  *)
(* trunix kernel: kernel/proc.c, kernel/switch.S, the timer and system     *)
(* call entries of kernel/interrupt.S, and the part of sys_open            *)
(* (kernel/fs.c) that writes into struct proc.                             *)
(*                                                                         *)
(* A process is named by its pid; 0 names the idle thread, on whose behalf *)
(* scheduler() runs.  Every gate of gate.S that reaches this code is an    *)
(* interrupt gate (the trap gates, 0x01 and 0x03, do not), so kernel code  *)
(* runs with interrupts off and a handler is one step: interrupts arrive   *)
(* in user mode and in the idle loop only.                                 *)
(* What a process does with its memory is abstracted to the outcomes the   *)
(* scheduler sees: a call succeeds, returns -1, or stops the machine.      *)
(***************************************************************************)
EXTENDS Integers, SequencesExt

CONSTANTS
    MaxPid,     \* bound: pids handed out (memtab of proc.c has 128 slots)
    MAXFILES,   \* entries of struct proc's ofile array (proc.h)
    MaxPd       \* bound: page directories copykvm() may allocate

ASSUME MaxPidAssumption == MaxPid \in 1..128
ASSUME MaxFilesAssumption == MAXFILES \in Nat /\ MAXFILES >= 3
ASSUME MaxPdAssumption == MaxPd \in Nat /\ MaxPd >= 1

VARIABLES
    state,      \* struct proc's state; "none": no such process yet
    queue,      \* the TAILQ of processes that do not have the CPU
    curthread,  \* the thread that was dispatched last
    cpu,        \* where the processor is executing
    idlectx,    \* idle->context: "fresh", "saved" (valid) or "popped" (stale)
    pid,        \* the next pid to hand out
    nfiles,     \* entries of ofile in use, counted from the front
    cr3,        \* each process's page directory; 0 is the kernel's
    curcr3,     \* the page directory loaded in the cr3 register
    esp0,       \* tss.esp0: whose kernel stack a trap from user mode uses
    nextpd      \* the next page directory copykvm() returns

vars == <<state, queue, curthread, cpu, idlectx, pid, nfiles, cr3, curcr3,
          esp0, nextpd>>

Idle == 0
Procs == 1..MaxPid
Threads == 0..MaxPid

(***************************************************************************)
(* "FILE" is a state word overwritten by a struct file pointer: ofile is   *)
(* followed by state in struct proc.  SLEEPING and BLOCKED are never       *)
(* assigned.                                                               *)
(***************************************************************************)
States == {"none", "READY", "RUNNING", "DEAD", "FILE"}

(***************************************************************************)
(* "scheduler": at the head of scheduler()'s loop.  "user": in the code of *)
(* curthread.  "idle": in the sti/hlt loop.  "panic": stopped by panic(),  *)
(* an assertion or a fatal exception.  "wild": executing through a stack   *)
(* frame that no longer exists, or writing outside struct proc.            *)
(***************************************************************************)
CpuModes == {"scheduler", "user", "idle", "panic", "wild"}

(***************************************************************************)
(* initsys() has built init, opened the console three times and queued it; *)
(* init_sched() has built the idle thread and calls scheduler().           *)
(***************************************************************************)
Init ==
    /\ state = [t \in Threads |-> IF t \in {Idle, 1} THEN "READY" ELSE "none"]
    /\ queue = <<1>>
    /\ curthread = Idle
    /\ cpu = "scheduler"
    /\ idlectx = "fresh"
    /\ pid = 2
    /\ nfiles = [t \in Threads |-> IF t = 1 THEN 3 ELSE 0]
    /\ cr3 = [t \in Threads |-> IF t = 1 THEN 1 ELSE 0]
    /\ curcr3 = 0
    /\ esp0 = Idle
    /\ nextpd = 2

(***************************************************************************)
(* switch_to(&idle->context, p->context) in scheduler(): idle's frame is   *)
(* saved, and p, whose context is forkret's or a yield() made from user    *)
(* mode, is back in user mode.                                             *)
(***************************************************************************)
SwitchToProc ==
    /\ idlectx' = "saved"
    /\ cpu' = "user"

(***************************************************************************)
(* The TAILQ_FOREACH of scheduler() stops at the first READY process.      *)
(***************************************************************************)
LastReady(i) ==     \* mutant: scan from the tail
    /\ state[queue[i]] = "READY"
    /\ \A j \in (i + 1)..Len(queue) : state[queue[j]] # "READY"

FirstQueued(i) == i = 1     \* mutant: the state is not tested

FirstReady(i) ==
    /\ state[queue[i]] = "READY"
    /\ \A j \in 1..(i - 1) : state[queue[j]] # "READY"

(***************************************************************************)
(* write_cr3() and the assignment to tss.esp0.                             *)
(***************************************************************************)
LoadStackOnly(p) == esp0' = p /\ UNCHANGED curcr3     \* mutant: no write_cr3

LoadAddressSpace(p) == esp0' = p /\ curcr3' = cr3[p]

(***************************************************************************)
(* scheduler(): take the first READY process out of the queue and run it.  *)
(***************************************************************************)
SchedulerRun(i) ==
    LET p == queue[i] IN
    /\ cpu = "scheduler"
    /\ FirstReady(i)
    /\ curthread' = p
    /\ queue' = RemoveAt(queue, i)
    /\ state' = [state EXCEPT ![p] = "RUNNING"]
    /\ LoadAddressSpace(p)
    /\ SwitchToProc
    /\ UNCHANGED <<pid, nfiles, cr3, nextpd>>

(***************************************************************************)
(* scheduler(): nobody is READY; the inner loop halts with interrupts on   *)
(* and never looks at the queue again.                                     *)
(***************************************************************************)
SchedulerIdle ==
    /\ cpu = "scheduler"
    /\ \A i \in DOMAIN queue : state[queue[i]] # "READY"
    /\ cpu' = "idle"
    /\ UNCHANGED <<state, queue, curthread, idlectx, pid, nfiles, cr3, curcr3,
                   esp0, nextpd>>

Scheduler == SchedulerIdle \/ \E i \in DOMAIN queue : SchedulerRun(i)

(***************************************************************************)
(* The TAILQ_INSERT_TAIL with which scheduler() goes on after its          *)
(* switch_to; its local p is still curthread.                              *)
(***************************************************************************)
RequeueNothing == UNCHANGED queue                       \* mutant: not queued
RequeueAtHead == queue' = <<curthread>> \o queue        \* mutant: INSERT_HEAD

Requeue == queue' = Append(queue, curthread)

(***************************************************************************)
(* switch_to(&curthread->context, idle->context) in yield().  A saved idle *)
(* context resumes scheduler() after its own switch_to, where it queues    *)
(* the process it had dispatched and starts over; the frame is consumed.   *)
(* Without one the processor returns through whatever the stack holds.     *)
(***************************************************************************)
SwitchToIdle ==
    \/ /\ idlectx = "saved"
       /\ Requeue
       /\ idlectx' = "popped"
       /\ cpu' = "scheduler"
    \/ /\ idlectx # "saved"
       /\ cpu' = "wild"
       /\ UNCHANGED <<queue, idlectx>>

(***************************************************************************)
(* yield(), called when the state words are s.                             *)
(***************************************************************************)
YieldKeepsRunning(s) ==     \* mutant: RUNNING is not taken back
    /\ state' = s
    /\ SwitchToIdle

Yield(s) ==
    /\ state' = [s EXCEPT ![curthread] = IF @ = "RUNNING" THEN "READY" ELSE @]
    /\ SwitchToIdle

(***************************************************************************)
(* The gates clear the interrupt flag; iret to user mode and the idle      *)
(* loop's sti set it.                                                      *)
(***************************************************************************)
InterruptsAlways ==         \* mutant: the kernel runs with interrupts on
    cpu \in {"user", "idle", "scheduler"}

InterruptsEnabled == cpu \in {"user", "idle"}

(***************************************************************************)
(* INT_0x20: the timer calls yield() on behalf of whoever it interrupted.  *)
(***************************************************************************)
TimerTick ==
    /\ InterruptsEnabled
    /\ Yield(state)
    /\ UNCHANGED <<curthread, pid, nfiles, cr3, curcr3, esp0, nextpd>>

(***************************************************************************)
(* A panic(), a failed assertion, or an exception whose handler halts.     *)
(***************************************************************************)
Panic ==
    /\ cpu' = "panic"
    /\ UNCHANGED <<state, queue, curthread, idlectx, pid, nfiles, cr3, curcr3,
                   esp0, nextpd>>

(***************************************************************************)
(* The running process faults, or a system call of it fails an assertion   *)
(* or dereferences the NULL of an allocation it did not check.             *)
(***************************************************************************)
Trap ==
    /\ cpu = "user"
    /\ Panic

(***************************************************************************)
(* sys_exit(): init may not exit.  Nothing of the process is released and  *)
(* its struct stays in the queue.                                          *)
(***************************************************************************)
SysExit ==
    /\ cpu = "user"
    /\ \/ /\ curthread = 1
          /\ Panic
       \/ /\ curthread # 1
          /\ Yield([state EXCEPT ![curthread] = "DEAD"])
          /\ UNCHANGED <<curthread, pid, nfiles, cr3, curcr3, esp0, nextpd>>

(***************************************************************************)
(* sys_fork() to its end.  The loop that copies the open files follows     *)
(* ofile up to the first NULL: with the parent's state word overwritten it *)
(* copies that word too, over the child's READY.                           *)
(***************************************************************************)
ForkChild ==
    /\ nextpd <= MaxPd
    /\ pid' = pid + 1
    /\ nextpd' = nextpd + 1
    /\ cr3' = [cr3 EXCEPT ![pid] = nextpd]
    /\ nfiles' = [nfiles EXCEPT ![pid] = nfiles[curthread]]
    /\ state' = [state EXCEPT ![pid] =
                     IF nfiles[curthread] > MAXFILES THEN "FILE" ELSE "READY"]
    /\ queue' = Append(queue, pid)
    /\ UNCHANGED <<curthread, cpu, idlectx, curcr3, esp0>>

(***************************************************************************)
(* sys_fork() returns -1 when alloc_pages cannot give the child its user   *)
(* memory; the pid is spent and the child's kernel stack is not freed.     *)
(***************************************************************************)
ForkNoMemory ==
    /\ pid' = pid + 1
    /\ UNCHANGED <<state, queue, curthread, cpu, idlectx, nfiles, cr3, curcr3,
                   esp0, nextpd>>

(***************************************************************************)
(* The copy loop of a process whose state word is overwritten goes on into *)
(* parent (NULL for init only), the queue links and the next page.         *)
(***************************************************************************)
ForkOverrun ==
    /\ nfiles[curthread] > MAXFILES
    /\ curthread # 1
    /\ cpu' = "wild"
    /\ pid' = pid + 1
    /\ UNCHANGED <<state, queue, curthread, idlectx, nfiles, cr3, curcr3,
                   esp0, nextpd>>

SysFork ==
    /\ cpu = "user"
    /\ pid <= MaxPid
    /\ ForkChild \/ ForkNoMemory \/ ForkOverrun

(***************************************************************************)
(* sys_execve(): a loadelf() that succeeds gives the process a new page    *)
(* directory, which only the scheduler loads: hence the yield() at the     *)
(* end.  One that fails returns -1 and leaves struct proc as it was.       *)
(***************************************************************************)
SysExecve ==
    /\ cpu = "user"
    /\ nextpd <= MaxPd
    /\ cr3' = [cr3 EXCEPT ![curthread] = nextpd]
    /\ nextpd' = nextpd + 1
    /\ Yield(state)
    /\ UNCHANGED <<curthread, pid, nfiles, curcr3, esp0>>

(***************************************************************************)
(* The bound of sys_open() is tested in the body of the loop that looks    *)
(* for a NULL entry, so it is not tested when the loop ends: with ofile    *)
(* full, the word behind it is state, and RUNNING is 0.  Once that word is *)
(* overwritten too the loop does meet the bound.                           *)
(***************************************************************************)
TableFull == nfiles[curthread] > MAXFILES

(***************************************************************************)
(* sys_open() of a path that exists; of one that does not, or with the     *)
(* table full, it returns -1 and changes nothing.                          *)
(***************************************************************************)
SysOpen ==
    /\ cpu = "user"
    /\ ~TableFull
    /\ nfiles' = [nfiles EXCEPT ![curthread] = @ + 1]
    /\ state' = IF nfiles[curthread] = MAXFILES
                THEN [state EXCEPT ![curthread] = "FILE"]
                ELSE state
    /\ UNCHANGED <<queue, curthread, cpu, idlectx, pid, cr3, curcr3, esp0,
                   nextpd>>

(***************************************************************************)
(* A stopped or derailed processor is not followed any further.            *)
(***************************************************************************)
Halted ==
    /\ cpu \in {"panic", "wild"}
    /\ UNCHANGED vars

Next ==
    \/ Scheduler
    \/ TimerTick
    \/ Trap
    \/ SysExit
    \/ SysFork
    \/ SysExecve
    \/ SysOpen
    \/ Halted

(***************************************************************************)
(* The PIT interrupts a hundred times a second and scheduler() is straight *)
(* code; nothing forces a process to make a system call.                   *)
(***************************************************************************)
Fairness == WF_vars(Scheduler) /\ WF_vars(TimerTick)

Spec == Init /\ [][Next]_vars /\ Fairness

-----------------------------------------------------------------------------
(***************************************************************************)
(* Properties                                                              *)
(***************************************************************************)

(***************************************************************************)
(* Every variable keeps its type; a process is created with pid 1..MaxPid  *)
(* and the file table is overrun by at most the state word.                *)
(***************************************************************************)
TypeOK ==
    /\ state \in [Threads -> States]
    /\ queue \in Seq(Procs)
    /\ curthread \in Threads
    /\ cpu \in CpuModes
    /\ idlectx \in {"fresh", "saved", "popped"}
    /\ pid \in 2..(MaxPid + 1)
    /\ nfiles \in [Threads -> 0..(MAXFILES + 1)]
    /\ cr3 \in [Threads -> 0..MaxPd]
    /\ curcr3 \in 0..MaxPd
    /\ esp0 \in Threads
    /\ nextpd \in 2..(MaxPd + 1)

(***************************************************************************)
(* A process holds the CPU exactly while scheduler() waits inside its      *)
(* switch_to, i.e. while idle's context is saved.                          *)
(***************************************************************************)
Dispatched == IF idlectx = "saved" THEN {curthread} ELSE {}

(***************************************************************************)
(* The queue and the CPU together account for every process once: whatever *)
(* the order of forks, exits, ticks and execs, scheduler() finds each      *)
(* created process in the TAILQ exactly once unless it is the one that     *)
(* runs, so a TAILQ_REMOVE never unlinks an element that is not linked     *)
(* and no process is lost.                                                 *)
(***************************************************************************)
QueueInv ==
    /\ IsInjective(queue)
    /\ ToSet(queue) = {p \in Procs : state[p] # "none"} \ Dispatched

(***************************************************************************)
(* The state words agree with the processor: only the dispatched process   *)
(* can be RUNNING, and user code is never that of a DEAD, READY or absent  *)
(* process or of the idle thread.                                          *)
(***************************************************************************)
RunningIsCurrent ==
    /\ \A p \in Procs : state[p] = "RUNNING" => p \in Dispatched
    /\ cpu = "user" => /\ curthread \in Dispatched \cap Procs
                       /\ state[curthread] \in {"RUNNING", "FILE"}

(***************************************************************************)
(* User code runs in its own address space: the loaded page directory is   *)
(* the one execve or fork gave the process, no other process has it, and a *)
(* trap will use this process's kernel stack.                              *)
(***************************************************************************)
OwnAddressSpace ==
    cpu = "user" =>
        /\ curcr3 = cr3[curthread]
        /\ esp0 = curthread
        /\ \A p \in Threads \ {curthread} : cr3[p] # curcr3

(***************************************************************************)
(* Some process has opened one file more than ofile has entries.           *)
(***************************************************************************)
FilesOverrun == \E p \in Procs : nfiles[p] > MAXFILES

(***************************************************************************)
(* While no process overruns its file table, scheduler() always finds a    *)
(* READY process: the idle loop, which never rescans the queue, and a      *)
(* switch into a context that was already consumed, are unreachable.       *)
(***************************************************************************)
NeverIdle == ~FilesOverrun => cpu \notin {"idle", "wild"}

(***************************************************************************)
(* ofile has MAXFILES entries and sys_open gives up when fd reaches        *)
(* MAXFILES: no process ever holds more files.                             *)
(***************************************************************************)
FilesBounded == ~FilesOverrun

(***************************************************************************)
(* sys_exit is final: an exited process never gets another state, nor a    *)
(* new address space, nor the CPU, although it stays in the queue.         *)
(***************************************************************************)
StaysDead(p) ==
    state[p] = "DEAD" =>
        /\ state'[p] = "DEAD"
        /\ cr3'[p] = cr3[p]
        /\ ~(cpu' = "user" /\ curthread' = p)

DeadForever == [][\A p \in Procs : StaysDead(p)]_vars

(***************************************************************************)
(* The processes in front of p in the queue.                               *)
(***************************************************************************)
Ahead(q, p) == {x \in Procs : \E i, j \in DOMAIN q : i < j /\ q[i] = x /\ q[j] = p}

(***************************************************************************)
(* Round robin: while p waits in the queue nobody gets in front of it, and *)
(* only a process in front of p is dispatched before p is.                 *)
(***************************************************************************)
KeepsPlace(p) ==
    state[p] = "READY" /\ p \in ToSet(queue) =>
        \/ /\ p \in ToSet(queue')
           /\ Ahead(queue', p) \subseteq Ahead(queue, p)
           /\ (cpu = "scheduler" /\ cpu' = "user") => curthread' \in Ahead(queue, p)
        \/ state'[p] = "RUNNING" /\ curthread' = p

NoOvertaking == [][\A p \in Procs : KeepsPlace(p)]_vars

(***************************************************************************)
(* Every READY process is eventually run, unless the machine stops.        *)
(***************************************************************************)
ReadyRuns ==
    \A p \in Procs :
        state[p] = "READY" ~> (state[p] = "RUNNING" \/ cpu \in {"panic", "wild"})
=============================================================================
