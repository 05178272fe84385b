------------------------------ MODULE Context ------------------------------
(***************************************************************************)
(* The registers across a switch of processes: what the gates              *)
(* (kernel/interrupt.S), switch_to and trapret (kernel/switch.S) push and  *)
(* pop, and the frames alloc_thread, sys_fork and loadelf (kernel/proc.c)  *)
(* write by the structs of trunix/proc.h.  A kernel stack is its words     *)
(* from the top, which is struct proc; popped words stay where they are.   *)
(* The kernel runs with interrupts off, so a step is a stretch of code up  *)
(* to the next ret, iret or switch.  Which process is picked, and the page *)
(* directories, are the subject of Sched; C code is its calls, arguments   *)
(* and return addresses, without its locals.                               *)
(***************************************************************************)
EXTENDS Integers, SequencesExt

CONSTANTS
    MaxPid,     \* bound: processes
    Tags,       \* contents that tell one set of user registers from another
    Depth       \* bound: words of a kernel stack

Procs == 1..MaxPid
Boot == 0                       \* the stack kmain and the scheduler run on

(***************************************************************************)
(* struct trapframe, struct context and struct task_state_segment, a word  *)
(* each field, lowest address first.                                       *)
(***************************************************************************)
trapframe == <<"edi", "esi", "ebp", "__esp", "ebx", "edx", "ecx", "eax",
               "gs", "fs", "es", "ds", "eip", "cs", "eflags", "esp", "ss">>
context == <<"edi", "esi", "ebp", "ebx", "eip">>
task_state_segment ==
    <<"prev_tss", "esp0", "ss0", "esp1", "ss1", "esp2", "ss2", "cr3", "eip", "eflags", "eax", "ecx",
      "edx", "ebx", "esp", "ebp", "esi", "edi", "es", "cs", "ss", "ds", "fs", "gs", "ldt", "trap">>

Field(struct, f) == CHOOSE k \in DOMAIN struct : struct[k] = f

(***************************************************************************)
(* What is pushed, in the order of the pushes: by the processor on a       *)
(* change of ring, by a gate, by pushal and by switch_to.                  *)
(***************************************************************************)
Hardware == <<"ss", "esp", "eflags", "cs", "eip">>
Segments == <<"ds", "es", "fs", "gs">>
pushal == <<"eax", "ecx", "edx", "ebx", "__esp", "ebp", "esi", "edi">>
Saved == <<"ebx", "ebp", "esi", "edi">>

Register == ToSet(trapframe)
General == {"eax", "ecx", "edx", "ebx", "ebp", "esi", "edi"}

(***************************************************************************)
(* The system calls by the number in eax.  restart stands for close and    *)
(* creat too, write for read, open and mmap.                               *)
(***************************************************************************)
Calls == {"restart", "exit", "fork", "write", "execve"}

ASSUME ContextAssumption == MaxPid \in Nat \ {0} /\ Depth \in Nat /\ Depth >= 29

VARIABLES
    regs,       \* the processor's registers
    esp,        \* the kernel's stack pointer: <<stack, words on it>>
    pc,         \* "user", or a place in the kernel
    stk,        \* the words of each kernel stack
    ctx,        \* p->context of each process, and of idle (Boot)
    tss,        \* the task state segment; esp0 is the process whose stack it is
    curthread,
    state,      \* p->state, "none" before the process is created
    want        \* history: the registers a process must resume with

vars == <<regs, esp, pc, stk, ctx, tss, curthread, state, want>>

(***************************************************************************)
(* A word is a number, a call's number, a place in the code, a selector or *)
(* what a user program left in a register.                                 *)
(***************************************************************************)
Num(n) == <<"number", n>>
At(place) == <<"place", place>>

User(t, call) ==
    [r \in Register |-> CASE r = "eax" -> call
                          [] r = "__esp" -> Num(0)
                          [] r \in {"cs", "ds", "es", "fs", "gs", "ss", "eflags"} -> <<r, "user">>
                          [] OTHER -> <<r, t>>]

Started ==
    [r \in Register |-> CASE r \in General -> Num(0)
                          [] r = "eip" -> At("entry")
                          [] r = "esp" -> At("top")
                          [] OTHER -> User(0, Num(0))[r]]

-----------------------------------------------------------------------------
(***************************************************************************)
(* Stacks.                                                                 *)
(***************************************************************************)
Push(s, n, words) ==
    [k \in DOMAIN s |-> IF k \in (n + 1)..(n + Len(words)) THEN words[k - n] ELSE s[k]]
Values(rg, names) == [k \in DOMAIN names |-> rg[names[k]]]
Popped(s, n, names) == [r \in ToSet(names) |-> s[n + 1 - Field(names, r)]]

(***************************************************************************)
(* alloc_thread's stack: room for the trap frame, trapret for forkret to   *)
(* return to, a context that returns to forkret.  proc_create, loadelf and *)
(* sys_fork fill in the frame by its fields.                               *)
(***************************************************************************)
OneMore == Len(trapframe) + 1               \* mutant: a word between struct proc and frame
TfTop == Len(trapframe)

Tf(f) == TfTop + 1 - Field(trapframe, f)
ContextTop == TfTop + 1 + Len(context)

alloc_thread(frame) ==
    [k \in 1..Depth |->
        IF k \in (TfTop + 1 - Len(trapframe))..TfTop
        THEN frame[trapframe[TfTop + 1 - k]]
        ELSE IF k = TfTop + 1 THEN At("trapret")
        ELSE IF k = ContextTop + 1 - Field(context, "eip") THEN At("forkret") ELSE Num(0)]

(***************************************************************************)
(* switch_to(prev, next), called with sk the stacks, n words on stack s    *)
(* and the words in before on top of them: the four registers and the      *)
(* return address make a struct context.  eax and edx keep the arguments.  *)
(***************************************************************************)
Pops == <<"edi", "esi", "ebp", "ebx">>

switch_to(sk, s, n, before, rg, prev, next, ret) ==
    LET words == before \o <<At("next"), At("prev"), At(ret)>> \o Values(rg, Saved)
        here == [sk EXCEPT ![s] = Push(@, n, words)]
        to == ctx[next]
        back == Popped(here[to[1]], to[2], Pops)
    IN  /\ stk' = here
        /\ ctx' = [ctx EXCEPT ![prev] = <<s, n + Len(words)>>]
        /\ regs' = [r \in Register |->
                       CASE r \in ToSet(Pops) -> back[r]
                         [] r = "eax" -> At("&context")
                         [] r = "edx" -> At("context")
                         [] OTHER -> rg[r]]
        /\ pc' = here[to[1]][to[2] - Len(Pops)]
        /\ esp' = <<to[1], to[2] - Len(Pops) - 1>>

-----------------------------------------------------------------------------
(***************************************************************************)
(* init_sched calls the scheduler on the stack of kmain; the stack made    *)
(* for idle is never used, its context is overwritten by the first switch. *)
(***************************************************************************)
Init ==
    /\ regs = Started
    /\ esp = <<Boot, 1>>
    /\ pc = At("scheduler")
    /\ stk = [s \in {Boot} \cup Procs |->
                 IF s = 1 THEN alloc_thread(Started) ELSE [k \in 1..Depth |-> Num(0)]]
    /\ ctx = [s \in {Boot} \cup Procs |-> IF s = 1 THEN <<1, ContextTop>> ELSE <<s, 0>>]
    /\ tss = [k \in DOMAIN task_state_segment |-> Boot]
    /\ curthread = Boot
    /\ state = [p \in Procs |-> IF p = 1 THEN "READY" ELSE "none"]
    /\ want = [p \in Procs |-> Started]

(***************************************************************************)
(* The scheduler keeps p in a register it expects back: ebx.               *)
(***************************************************************************)
SetOnce(p) ==                   \* mutant: tss.esp0 set at the first dispatch only
    IF tss[2] = Boot THEN [tss EXCEPT ![Field(task_state_segment, "esp0")] = p] ELSE tss
SetEsp0(p) == [tss EXCEPT ![Field(task_state_segment, "esp0")] = p]

Scheduler ==
    /\ pc = At("scheduler")
    /\ \E p \in Procs :
          /\ state[p] = "READY"
          /\ curthread' = p
          /\ state' = [state EXCEPT ![p] = "RUNNING"]
          /\ tss' = SetEsp0(p)
          /\ switch_to(stk, Boot, esp[2], <<>>, [regs EXCEPT !["ebx"] = Num(p)], Boot, p, "sched_back")
    /\ UNCHANGED want

SchedBack ==
    /\ pc = At("sched_back")
    /\ pc' = At("scheduler")
    /\ esp' = <<esp[1], esp[2] - 2>>
    /\ UNCHANGED <<regs, stk, ctx, tss, curthread, state, want>>

(***************************************************************************)
(* A process runs with registers of its own making and enters the kernel:  *)
(* the processor takes the stack from the second word of the TSS.          *)
(***************************************************************************)
RingZeroStack == tss[2]
Entry == Hardware \o Segments \o pushal

Enter(rg, place) ==
    /\ pc = At("user")
    /\ regs' = rg
    /\ stk' = [stk EXCEPT ![RingZeroStack] = Push(@, 0, Values(rg, Entry))]
    /\ esp' = <<RingZeroStack, Len(Entry)>>
    /\ pc' = At(place)
    /\ want' = [want EXCEPT ![curthread] = rg]
    /\ UNCHANGED <<ctx, tss, curthread, state>>

INT_0x20 == \E t \in Tags : Enter(User(t, <<"eax", t>>), "timer")
(***************************************************************************)
(* The jump through tbl_syscall has no bound: an eax that is not the       *)
(* number of a call leads anywhere and is not modelled.                    *)
(***************************************************************************)
INT_0x80 ==
    \E t \in Tags, call \in Calls : Enter(User(t, <<"call", call>>), "syscall")

-----------------------------------------------------------------------------
(***************************************************************************)
(* yield gives the processor to the scheduler; before are the words from   *)
(* the gate's frame to yield's return address, sk the stacks.              *)
(***************************************************************************)
yield(sk, before, st) ==
    /\ state' = [state EXCEPT ![curthread] = st]
    /\ switch_to(sk, esp[1], esp[2], before, regs, curthread, Boot, "yield_back")

Timer ==
    /\ pc = At("timer")
    /\ yield(stk, <<At("int20")>>, "READY")
    /\ UNCHANGED <<tss, curthread, want>>

Syscall(call) == pc = At("syscall") /\ regs["eax"] = <<"call", call>>

(***************************************************************************)
(* A call that returns stores eax over the eax of the gate's frame.        *)
(***************************************************************************)
StoreLow(s, v) == [s EXCEPT ![esp[2] - 6] = v]      \* mutant: 6 * 4
Store(s, v) == [s EXCEPT ![esp[2] - 7] = v]

Result(sk, v) ==
    /\ regs' = [regs EXCEPT !["eax"] = v]
    /\ stk' = [sk EXCEPT ![esp[1]] = Store(@, v)]
    /\ pc' = At("end_syscall")
    /\ UNCHANGED <<esp, tss, curthread>>

Restart ==
    /\ Syscall("restart")
    /\ pc' = At("end_syscall")
    /\ UNCHANGED <<regs, esp, stk, ctx, tss, curthread, state, want>>

Write ==
    /\ Syscall("write")
    /\ Result(stk, At("count"))
    /\ want' = [want EXCEPT ![curthread]["eax"] = At("count")]
    /\ UNCHANGED <<ctx, state>>

(***************************************************************************)
(* sys_fork copies the frame at curthread->tf, field by field; without     *)
(* memory it returns -1.                                                   *)
(***************************************************************************)
ChildFrame == [f \in Register |-> IF f = "eax" THEN Num(0) ELSE stk[curthread][Tf(f)]]

Fork ==
    /\ Syscall("fork")
    /\ \E q \in Procs :
          /\ state[q] = "none" /\ \A r \in 1..(q - 1) : state[r] # "none"
          /\ Result([stk EXCEPT ![q] = alloc_thread(ChildFrame)], Num(q))
          /\ ctx' = [ctx EXCEPT ![q] = <<q, ContextTop>>]
          /\ state' = [state EXCEPT ![q] = "READY"]
          /\ want' = [want EXCEPT ![curthread]["eax"] = Num(q),
                                  ![q] = [want[curthread] EXCEPT !["eax"] = Num(0)]]

Fails ==
    /\ Syscall("fork") \/ Syscall("execve")
    /\ Result(stk, Num(-1))
    /\ want' = [want EXCEPT ![curthread]["eax"] = Num(-1)]
    /\ UNCHANGED <<ctx, state>>

(***************************************************************************)
(* loadelf writes eip and esp into the frame; sys_execve then yields, and  *)
(* returns without a value.                                                *)
(***************************************************************************)
Execve ==
    /\ Syscall("execve")
    /\ yield([stk EXCEPT ![curthread][Tf("eip")] = At("entry"), ![curthread][Tf("esp")] = At("top")],
             <<regs["edx"], regs["ecx"], regs["ebx"], At("execve"), At("sys_execve")>>, "READY")
    /\ want' = [want EXCEPT ![curthread]["eip"] = At("entry"), ![curthread]["esp"] = At("top"),
                            ![curthread]["eax"] = At("any")]
    /\ UNCHANGED <<tss, curthread>>

Exit ==
    /\ Syscall("exit") /\ curthread # 1
    /\ yield(stk, <<regs["ecx"], At("exit"), At("sys_exit")>>, "DEAD")
    /\ UNCHANGED <<tss, curthread, want>>

Panic ==
    /\ Syscall("exit") /\ curthread = 1
    /\ pc' = At("panic")
    /\ UNCHANGED <<regs, esp, stk, ctx, tss, curthread, state, want>>

-----------------------------------------------------------------------------
(***************************************************************************)
(* The ways back.  Ret pops a return address from under n words.           *)
(***************************************************************************)
Ret(n) ==
    /\ pc' = stk[esp[1]][esp[2] - n]
    /\ esp' = <<esp[1], esp[2] - n - 1>>
    /\ UNCHANGED <<regs, stk, ctx, tss, curthread, state, want>>

forkret == pc = At("forkret") /\ Ret(0)
YieldReturns == pc = At("yield_back") /\ Ret(2)
sys_execve == pc = At("sys_execve") /\ Ret(0)

ExecveReturns ==
    /\ pc = At("execve")
    /\ esp' = <<esp[1], esp[2] - 3>>
    /\ stk' = [stk EXCEPT ![esp[1]][esp[2] - 3 - 7] = regs["eax"]]
    /\ pc' = At("end_syscall")
    /\ UNCHANGED <<regs, ctx, tss, curthread, state, want>>

(***************************************************************************)
(* trapret and the ends of the gates: popal, which skips esp, the segment  *)
(* registers, iret.                                                        *)
(***************************************************************************)
PopAll == <<"edi", "esi", "ebp", "__esp", "ebx", "edx", "ecx", "eax",
            "gs", "fs", "es", "ds", "eip", "cs", "eflags", "esp", "ss">>

trapret ==
    /\ pc \in {At("trapret"), At("int20"), At("end_syscall")}
    /\ regs' = [Popped(stk[esp[1]], esp[2], PopAll) EXCEPT !["__esp"] = Num(0)]
    /\ esp' = <<esp[1], esp[2] - Len(PopAll)>>
    /\ pc' = At("user")
    /\ UNCHANGED <<stk, ctx, tss, curthread, state, want>>

Halted == pc = At("panic") /\ UNCHANGED vars

Next ==
    \/ Scheduler \/ SchedBack
    \/ INT_0x20 \/ INT_0x80
    \/ Timer \/ Restart \/ Write \/ Fork \/ Fails \/ Execve \/ Exit \/ Panic
    \/ forkret \/ YieldReturns \/ sys_execve \/ ExecveReturns \/ trapret
    \/ Halted

Spec == Init /\ [][Next]_vars

-----------------------------------------------------------------------------
(***************************************************************************)
(* Properties                                                              *)
(***************************************************************************)
(***************************************************************************)
(* A process comes back to user mode with the registers it left it with,   *)
(* whatever ran in between, except for what the kernel meant to change:    *)
(* the result of a call, 0 for the child of a fork, the entry and the      *)
(* stack of a new image.                                                   *)
(***************************************************************************)
ResumesWhole ==
    pc = At("user") =>
        \A r \in Register :
            (r = "eax" /\ want[curthread]["eax"] = At("any")) \/ regs[r] = want[curthread][r]

(***************************************************************************)
(* Pushes and pops balance: in user mode the kernel stack of the process   *)
(* is empty, so that the next entry's frame is where p->tf points; the     *)
(* scheduler is always one call deep, however often it switched, and gets  *)
(* its registers back: the p it appends to the queue is the process that   *)
(* yielded.                                                                *)
(***************************************************************************)
Balanced ==
    /\ pc = At("user") => esp = <<curthread, 0>>
    /\ pc = At("scheduler") => esp = <<Boot, 1>>
    /\ pc = At("sched_back") => regs["ebx"] = Num(curthread)


(***************************************************************************)
(* Nobody's kernel stack changes but that of the running process, the      *)
(* scheduler's and that of the process just being created.                 *)
(***************************************************************************)
OwnStack ==
    [][\A p \in Procs : stk'[p] # stk[p] => p = curthread \/ state[p] = "none"]_vars
=============================================================================
