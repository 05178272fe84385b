---------------------------- MODULE SchedProofs ----------------------------
(***************************************************************************)
(* Proofs about Sched for every number of processes, file table size and   *)
(* number of page directories.                                             *)
(***************************************************************************)
EXTENDS Sched, CommonLemmas

-----------------------------------------------------------------------------
(***************************************************************************)
(* Lemmas about the two operations on the queue                            *)
(***************************************************************************)

(***************************************************************************)
(* A queue without duplicates stays one, and loses exactly q[i].           *)
(***************************************************************************)
LEMMA RemoveAtInjective ==
    ASSUME NEW S, NEW q \in Seq(S), NEW i \in DOMAIN q, IsInjective(q)
    PROVE  /\ IsInjective(RemoveAt(q, i))
           /\ ToSet(RemoveAt(q, i)) = ToSet(q) \ {q[i]}
<1> DEFINE r == RemoveAt(q, i)
<1>1. /\ r \in Seq(S)
      /\ Len(r) = Len(q) - 1
      /\ \A j \in 1..(Len(q) - 1) : r[j] = IF j < i THEN q[j] ELSE q[j + 1]
    BY RemoveAtElements
<1> HIDE DEF r
<1>2. DOMAIN q = 1..Len(q) /\ DOMAIN r = 1..(Len(q) - 1) /\ Len(q) \in Nat
    BY <1>1
<1>3. IsInjective(r)
    <2> SUFFICES ASSUME NEW j \in 1..(Len(q) - 1), NEW k \in 1..(Len(q) - 1),
                        r[j] = r[k]
                 PROVE  j = k
        BY <1>2 DEF IsInjective
    <2> DEFINE jj == IF j < i THEN j ELSE j + 1
               kk == IF k < i THEN k ELSE k + 1
    <2>1. /\ jj \in 1..Len(q) /\ kk \in 1..Len(q)
          /\ jj = kk => j = k
        BY <1>2
    <2>2. r[j] = q[jj] /\ r[k] = q[kk]
        BY <1>1
    <2> QED BY <1>2, <2>1, <2>2 DEF IsInjective
<1>4. ToSet(r) \subseteq ToSet(q) \ {q[i]}
    BY <1>1, <1>2 DEF IsInjective, ToSet
<1>5. ASSUME NEW x \in ToSet(q) \ {q[i]} PROVE x \in ToSet(r)
    <2>1. PICK k \in 1..Len(q) : q[k] = x
        BY <1>2 DEF ToSet
    <2>2. CASE k < i
        <3>1. k \in DOMAIN r /\ r[k] = x
            BY <1>1, <1>2, <2>1, <2>2
        <3> QED BY <3>1 DEF ToSet
    <2>3. CASE k > i
        <3>1. (k - 1) \in DOMAIN r /\ r[k - 1] = x
            BY <1>1, <1>2, <2>1, <2>3
        <3> QED BY <3>1 DEF ToSet
    <2> QED BY <1>2, <2>1, <2>2, <2>3
<1> QED BY <1>3, <1>4, <1>5 DEF r

(***************************************************************************)
(* TAILQ_INSERT_TAIL of an element that is not in the queue.               *)
(***************************************************************************)
LEMMA AppendFresh ==
    ASSUME NEW S, NEW q \in Seq(S), NEW x \in S, x \notin ToSet(q), IsInjective(q)
    PROVE  /\ Append(q, x) \in Seq(S)
           /\ IsInjective(Append(q, x))
           /\ ToSet(Append(q, x)) = ToSet(q) \cup {x}
<1> DEFINE r == Append(q, x)
<1>1. /\ r \in Seq(S)
      /\ DOMAIN q = 1..Len(q) /\ DOMAIN r = 1..(Len(q) + 1) /\ Len(q) \in Nat
      /\ \A j \in 1..Len(q) : r[j] = q[j]
      /\ r[Len(q) + 1] = x
    OBVIOUS
<1> HIDE DEF r
<1>2. IsInjective(r)
    BY <1>1 DEF IsInjective, ToSet
<1>3. ToSet(r) = ToSet(q) \cup {x}
    BY <1>1 DEF ToSet
<1> QED BY <1>1, <1>2, <1>3 DEF r

-----------------------------------------------------------------------------
(***************************************************************************)
(* The inductive invariant                                                 *)
(***************************************************************************)

(***************************************************************************)
(* scheduler() runs only with idle's context consumed, and a saved context *)
(* stands for a process that exists.                                       *)
(***************************************************************************)
CpuInv ==
    /\ cpu \in {"scheduler", "idle"} => idlectx # "saved"
    /\ idlectx = "saved" => curthread \in Procs /\ state[curthread] # "none"

(***************************************************************************)
(* A pid not handed out names no process, and what is not a process has    *)
(* neither files nor an address space.                                     *)
(***************************************************************************)
FreshInv ==
    \A p \in Procs :
        /\ p >= pid => state[p] = "none"
        /\ state[p] = "none" => nfiles[p] = 0 /\ cr3[p] = 0

(***************************************************************************)
(* Page directories are given out once, and user code has its own loaded.  *)
(***************************************************************************)
AddressInv ==
    /\ cr3[Idle] = 0
    /\ \A p \in Procs :
          /\ cr3[p] < nextpd
          /\ state[p] # "none" => cr3[p] # 0
          /\ \A q \in Procs : cr3[p] = cr3[q] => p = q \/ cr3[p] = 0
    /\ cpu = "user" => curcr3 = cr3[curthread] /\ esp0 = curthread

(***************************************************************************)
(* A state word is overwritten by the file after the last entry only, and  *)
(* that is the one way in which init ceases to be schedulable.             *)
(***************************************************************************)
FileInv ==
    /\ \A p \in Procs : state[p] = "FILE" => nfiles[p] > MAXFILES
    /\ state[1] \in {"READY", "RUNNING", "FILE"}

IInv ==
    /\ TypeOK
    /\ QueueInv
    /\ RunningIsCurrent
    /\ CpuInv
    /\ FreshInv
    /\ AddressInv
    /\ FileInv
    /\ NeverIdle

USE DEF Idle, Procs, Threads

(***************************************************************************)
(* The state in which init_sched() enters scheduler() satisfies it.        *)
(***************************************************************************)
LEMMA InitIInv == Init => IInv
<1> SUFFICES ASSUME Init PROVE IInv
    OBVIOUS
<1> USE MaxPidAssumption, MaxFilesAssumption, MaxPdAssumption
<1>0. 1 \in Procs /\ MaxPid \in Nat
    OBVIOUS
<1>1. TypeOK
    BY <1>0 DEF Init, TypeOK, States, CpuModes
<1>2. QueueInv
    <2>1. queue = <<1>> /\ DOMAIN queue = {1} /\ queue[1] = 1
        BY DEF Init
    <2>2. IsInjective(queue) /\ ToSet(queue) = {1}
        BY <2>1 DEF IsInjective, ToSet
    <2>3. {p \in Procs : state[p] # "none"} \ Dispatched = {1}
        BY <1>0 DEF Init, Dispatched
    <2> QED BY <2>2, <2>3 DEF QueueInv
<1>3. RunningIsCurrent /\ CpuInv /\ FreshInv
    BY <1>0 DEF Init, RunningIsCurrent, CpuInv, FreshInv
<1>4. AddressInv /\ FileInv /\ NeverIdle
    BY <1>0 DEF Init, AddressInv, FileInv, NeverIdle
<1> QED BY <1>1, <1>2, <1>3, <1>4 DEF IInv

(***************************************************************************)
(* Dispatching a process.                                                  *)
(***************************************************************************)
LEMMA SchedulerRunIInv ==
    ASSUME IInv, NEW i \in DOMAIN queue, SchedulerRun(i)
    PROVE  IInv'
<1> USE MaxPidAssumption, MaxFilesAssumption, MaxPdAssumption
<1> DEFINE p == queue[i]
<1>1. /\ queue \in Seq(Procs) /\ p \in Procs /\ p \in Threads /\ p # 0
      /\ state \in [Threads -> States] /\ state[p] = "READY"
      /\ p \in ToSet(queue) /\ idlectx # "saved"
    <2>0. queue \in Seq(Procs)
        BY DEF IInv, TypeOK
    <2>1. p \in Procs
        BY <2>0, ElementOfSeq
    <2>3. p \in ToSet(queue)
        BY DEF ToSet
    <2>2. state \in [Threads -> States] /\ state[p] = "READY" /\ idlectx # "saved"
        BY DEF IInv, TypeOK, SchedulerRun, FirstReady, CpuInv
    <2> QED BY <2>0, <2>1, <2>2, <2>3
<1>2. /\ queue' = RemoveAt(queue, i) /\ queue' \in Seq(Procs)
      /\ IsInjective(queue') /\ ToSet(queue') = ToSet(queue) \ {p}
    BY <1>1, RemoveAtElements, RemoveAtInjective DEF IInv, QueueInv, SchedulerRun
<1>3. /\ curthread' = p /\ state' = [state EXCEPT ![p] = "RUNNING"]
      /\ curcr3' = cr3[p] /\ esp0' = p /\ idlectx' = "saved" /\ cpu' = "user"
      /\ pid' = pid /\ nfiles' = nfiles /\ cr3' = cr3 /\ nextpd' = nextpd
    BY DEF SchedulerRun, LoadAddressSpace, SwitchToProc
<1> HIDE DEF p
<1>4. TypeOK'
    BY <1>1, <1>2, <1>3 DEF IInv, TypeOK, States, CpuModes
<1>5. QueueInv'
    <2>1. {x \in Procs : state'[x] # "none"} = {x \in Procs : state[x] # "none"}
        BY <1>1, <1>3
    <2> QED BY <1>1, <1>2, <1>3, <2>1 DEF IInv, QueueInv, Dispatched
<1>6. RunningIsCurrent' /\ CpuInv'
    BY <1>1, <1>3 DEF IInv, RunningIsCurrent, CpuInv, Dispatched
<1>7. FreshInv' /\ AddressInv'
    BY <1>1, <1>3 DEF IInv, FreshInv, AddressInv
<1>8. FileInv' /\ NeverIdle'
    BY <1>1, <1>3 DEF IInv, FileInv, NeverIdle
<1> QED BY <1>4, <1>5, <1>6, <1>7, <1>8 DEF IInv

(***************************************************************************)
(* Finding nobody READY: init is in the queue, so its state word has been  *)
(* overwritten.                                                            *)
(***************************************************************************)
LEMMA SchedulerIdleIInv ==
    ASSUME IInv, SchedulerIdle
    PROVE  IInv'
<1> USE MaxPidAssumption, MaxFilesAssumption, MaxPdAssumption
<1>1. FilesOverrun
    <2>1. 1 \in Procs /\ state[1] # "none" /\ idlectx # "saved"
        BY DEF IInv, FileInv, CpuInv, SchedulerIdle
    <2>2. PICK i \in DOMAIN queue : queue[i] = 1
        BY <2>1 DEF IInv, QueueInv, Dispatched, ToSet
    <2>3. state[1] = "FILE"
        BY <2>1, <2>2 DEF SchedulerIdle, IInv, FileInv, RunningIsCurrent, Dispatched
    <2> QED BY <2>1, <2>3 DEF IInv, FileInv, FilesOverrun
<1>2. FilesOverrun'
    BY <1>1 DEF FilesOverrun, SchedulerIdle
<1>3. cpu' = "idle" /\ UNCHANGED <<state, queue, curthread, idlectx, pid, nfiles,
                                    cr3, curcr3, esp0, nextpd>>
    BY DEF SchedulerIdle
<1>4. TypeOK' /\ QueueInv'
    BY <1>3 DEF IInv, TypeOK, QueueInv, Dispatched, CpuModes
<1>5. RunningIsCurrent' /\ CpuInv'
    BY <1>3 DEF IInv, RunningIsCurrent, CpuInv, Dispatched, SchedulerIdle
<1>6. FreshInv' /\ AddressInv' /\ FileInv' /\ NeverIdle'
    BY <1>2, <1>3 DEF IInv, FreshInv, AddressInv, FileInv, NeverIdle
<1> QED BY <1>4, <1>5, <1>6 DEF IInv

(***************************************************************************)
(* A yield() out of user mode, alone or as the end of sys_exit (the state  *)
(* word is DEAD) or of sys_execve (the page directory is new).             *)
(***************************************************************************)
LEMMA YieldIInv ==
    ASSUME IInv, cpu = "user",
           NEW s \in [Threads -> States],
           \A p \in Procs : p # curthread => s[p] = state[p],
           s[curthread] = state[curthread] \/ (s[curthread] = "DEAD" /\ curthread # 1),
           Yield(s),
           UNCHANGED <<curthread, pid, nfiles, curcr3, esp0>>,
           \/ UNCHANGED <<cr3, nextpd>>
           \/ /\ nextpd <= MaxPd
              /\ cr3' = [cr3 EXCEPT ![curthread] = nextpd]
              /\ nextpd' = nextpd + 1
    PROVE  IInv'
<1> USE MaxPidAssumption, MaxFilesAssumption, MaxPdAssumption
<1>1. /\ curthread \in Procs /\ curthread \in Threads /\ idlectx = "saved"
      /\ state[curthread] \in {"RUNNING", "FILE"} /\ curthread \notin ToSet(queue)
      /\ queue \in Seq(Procs) /\ IsInjective(queue)
    BY DEF IInv, TypeOK, RunningIsCurrent, QueueInv, Dispatched
<1>2. /\ queue' = Append(queue, curthread) /\ idlectx' = "popped" /\ cpu' = "scheduler"
      /\ state' = [s EXCEPT ![curthread] =
                       IF s[curthread] = "RUNNING" THEN "READY" ELSE s[curthread]]
    BY <1>1 DEF Yield, SwitchToIdle, Requeue
<1>3. /\ queue' \in Seq(Procs) /\ IsInjective(queue')
      /\ ToSet(queue') = ToSet(queue) \cup {curthread}
    BY <1>1, <1>2, AppendFresh
<1>4. /\ state' \in [Threads -> States]
      /\ \A p \in Procs : p # curthread => state'[p] = state[p]
      /\ \/ state[curthread] = "RUNNING" /\ state'[curthread] = "READY"
         \/ state[curthread] = "FILE" /\ state'[curthread] = "FILE"
         \/ state'[curthread] = "DEAD" /\ curthread # 1
    BY <1>1, <1>2 DEF States
<1>5. \A p \in Procs : state'[p] = "none" <=> state[p] = "none"
    BY <1>1, <1>4
<1>6. /\ cr3' \in [Threads -> 0..MaxPd] /\ nextpd' \in 2..(MaxPd + 1)
      /\ \A p \in Threads : p # curthread => cr3'[p] = cr3[p]
      /\ \/ cr3'[curthread] = cr3[curthread] /\ nextpd' = nextpd
         \/ cr3'[curthread] = nextpd /\ nextpd' = nextpd + 1
    <2>1. cr3 \in [Threads -> 0..MaxPd] /\ nextpd \in 2..(MaxPd + 1)
        BY DEF IInv, TypeOK
    <2>2. CASE UNCHANGED <<cr3, nextpd>>
        BY <2>1, <2>2
    <2>3. CASE /\ nextpd <= MaxPd
               /\ cr3' = [cr3 EXCEPT ![curthread] = nextpd]
               /\ nextpd' = nextpd + 1
        BY <1>1, <2>1, <2>3
    <2> QED BY <2>2, <2>3
<1>7. TypeOK'
    <2>1. pid' = pid /\ nfiles' = nfiles /\ curcr3' = curcr3 /\ esp0' = esp0
        OBVIOUS
    <2> QED BY <1>2, <1>3, <1>4, <1>6, <2>1 DEF IInv, TypeOK, CpuModes
<1>8. QueueInv'
    <2>1. {p \in Procs : state'[p] # "none"} = {p \in Procs : state[p] # "none"}
        BY <1>5
    <2> QED BY <1>1, <1>2, <1>3, <2>1 DEF IInv, QueueInv, Dispatched
<1>9. RunningIsCurrent' /\ CpuInv'
    BY <1>1, <1>2, <1>4 DEF IInv, RunningIsCurrent, CpuInv, Dispatched
<1>10. FreshInv'
    <2>1. \A p \in Procs : state[p] = "none" => cr3'[p] = cr3[p]
        BY <1>1, <1>6, SMTT(30)
    <2> QED BY <1>5, <2>1 DEF IInv, FreshInv
<1>11. AddressInv'
    <2>1. \A p \in Threads : cr3[p] \in Int /\ cr3'[p] \in Int
        BY <1>6, SMTT(30) DEF IInv, TypeOK
    <2>2. nextpd \in Int /\ nextpd >= 2
        BY DEF IInv, TypeOK
    <2>3. cr3'[0] = 0
        BY <1>1, <1>6 DEF IInv, AddressInv
    <2>4. \A p \in Procs : cr3'[p] < nextpd' /\ (state'[p] # "none" => cr3'[p] # 0)
        <3>1. \A p \in Procs : cr3[p] < nextpd /\ (state[p] # "none" => cr3[p] # 0)
            BY DEF IInv, AddressInv
        <3>2. \A p \in Procs : p # curthread => cr3'[p] = cr3[p]
            BY <1>6
        <3>3. nextpd' >= nextpd /\ nextpd' \in Int
            BY <1>6, <2>2
        <3>4. cr3'[curthread] < nextpd' /\ cr3'[curthread] # 0
            BY <1>1, <1>6, <2>1, <2>2, <3>1
        <3>5. \A p \in Procs : cr3[p] \in Int
            BY <2>1
        <3> QED BY <1>5, <2>2, <3>1, <3>2, <3>3, <3>4, <3>5
    <2>5. \A p, q \in Procs : cr3'[p] = cr3'[q] => p = q \/ cr3'[p] = 0
        <3>1. \A p \in Procs : cr3[p] < nextpd
            BY DEF IInv, AddressInv
        <3>2. \A p, q \in Procs : cr3[p] = cr3[q] => p = q \/ cr3[p] = 0
            BY DEF IInv, AddressInv
        <3>3. \A p \in Procs : p # curthread => cr3'[p] = cr3[p]
            BY <1>6
        <3>4. \A p \in Procs : cr3[p] # nextpd
            BY <2>1, <2>2, <3>1
        <3>5. cr3'[curthread] = cr3[curthread] \/ cr3'[curthread] = nextpd
            BY <1>6
        <3> QED BY <1>1, <3>2, <3>3, <3>4, <3>5
    <2> QED BY <1>2, <2>3, <2>4, <2>5 DEF AddressInv
<1>12. FileInv' /\ NeverIdle'
    <2>1. \A p \in Procs : state'[p] = "FILE" => state[p] = "FILE"
        BY <1>1, <1>4
    <2>2. state'[1] \in {"READY", "RUNNING", "FILE"}
        BY <1>1, <1>4 DEF IInv, FileInv
    <2>3. nfiles' = nfiles
        OBVIOUS
    <2> QED BY <1>2, <2>1, <2>2, <2>3 DEF IInv, FileInv, NeverIdle
<1> QED BY <1>7, <1>8, <1>9, <1>10, <1>11, <1>12 DEF IInv

(***************************************************************************)
(* The timer, in user mode or in the idle loop.                            *)
(***************************************************************************)
LEMMA TimerTickIInv ==
    ASSUME IInv, TimerTick
    PROVE  IInv'
<1>0. state \in [Threads -> States]
    BY DEF IInv, TypeOK
<1>1. CASE cpu = "user"
    BY <1>0, <1>1, YieldIInv DEF TimerTick
<1>2. CASE cpu = "idle"
    <2>1. /\ cpu' = "wild" /\ UNCHANGED <<queue, idlectx>> /\ idlectx # "saved"
          /\ UNCHANGED <<curthread, pid, nfiles, cr3, curcr3, esp0, nextpd>>
        BY <1>2 DEF TimerTick, Yield, SwitchToIdle, IInv, CpuInv
    <2>2. state' = [state EXCEPT ![curthread] = IF @ = "RUNNING" THEN "READY" ELSE @]
        BY DEF TimerTick, Yield
    <2>3. /\ state' \in [Threads -> States] /\ FilesOverrun
          /\ \A p \in Procs : state'[p] = state[p]
        BY <1>0, <1>2, <2>1, <2>2
           DEF IInv, RunningIsCurrent, Dispatched, States, NeverIdle, TypeOK
    <2>4. TypeOK'
        BY <2>1, <2>3 DEF IInv, TypeOK, CpuModes
    <2>5. QueueInv'
        <3>1. {p \in Procs : state'[p] # "none"} = {p \in Procs : state[p] # "none"}
            BY <2>3
        <3> QED BY <2>1, <3>1 DEF IInv, QueueInv, Dispatched
    <2>6. RunningIsCurrent' /\ CpuInv'
        BY <2>1, <2>3 DEF IInv, RunningIsCurrent, CpuInv, Dispatched
    <2>7. FreshInv' /\ AddressInv'
        BY <2>1, <2>3 DEF IInv, FreshInv, AddressInv
    <2>8. FileInv' /\ NeverIdle'
        <3>1. FilesOverrun'
            BY <2>1, <2>3 DEF FilesOverrun
        <3> QED BY <2>1, <2>3, <3>1, MaxPidAssumption DEF IInv, FileInv, NeverIdle
    <2> QED BY <2>4, <2>5, <2>6, <2>7, <2>8 DEF IInv
<1> QED BY <1>1, <1>2 DEF TimerTick, InterruptsEnabled

(***************************************************************************)
(* Stopping the machine.                                                   *)
(***************************************************************************)
LEMMA PanicIInv ==
    ASSUME IInv, Panic
    PROVE  IInv'
<1>1. cpu' = "panic" /\ UNCHANGED <<state, queue, curthread, idlectx, pid, nfiles,
                                     cr3, curcr3, esp0, nextpd>>
    BY DEF Panic
<1>2. TypeOK' /\ QueueInv'
    BY <1>1 DEF IInv, TypeOK, QueueInv, Dispatched, CpuModes
<1>3. RunningIsCurrent' /\ CpuInv'
    BY <1>1 DEF IInv, RunningIsCurrent, CpuInv, Dispatched
<1>4. FreshInv' /\ AddressInv' /\ FileInv' /\ NeverIdle'
    BY <1>1 DEF IInv, FreshInv, AddressInv, FileInv, NeverIdle
<1> QED BY <1>2, <1>3, <1>4 DEF IInv

(***************************************************************************)
(* sys_exit keeps the invariant.                                           *)
(***************************************************************************)
LEMMA SysExitIInv ==
    ASSUME IInv, SysExit
    PROVE  IInv'
<1>1. CASE Panic
    BY <1>1, PanicIInv
<1>2. CASE ~Panic
    <2> DEFINE s == [state EXCEPT ![curthread] = "DEAD"]
    <2>1. /\ s \in [Threads -> States] /\ s[curthread] = "DEAD"
          /\ \A p \in Procs : p # curthread => s[p] = state[p]
        BY DEF IInv, TypeOK, States
    <2>2. /\ cpu = "user" /\ curthread # 1 /\ Yield(s)
          /\ UNCHANGED <<curthread, pid, nfiles, cr3, curcr3, esp0, nextpd>>
        BY <1>2 DEF SysExit
    <2> HIDE DEF s
    <2> QED BY <2>1, <2>2, YieldIInv
<1> QED BY <1>1, <1>2

(***************************************************************************)
(* sys_execve keeps the invariant.                                         *)
(***************************************************************************)
LEMMA SysExecveIInv ==
    ASSUME IInv, SysExecve
    PROVE  IInv'
<1>1. state \in [Threads -> States]
    BY DEF IInv, TypeOK
<1> QED BY <1>1, YieldIInv DEF SysExecve

(***************************************************************************)
(* A new process: its pid, its struct proc and its page directory are all  *)
(* unused.                                                                 *)
(***************************************************************************)
LEMMA ForkChildIInv ==
    ASSUME IInv, cpu = "user", pid <= MaxPid, ForkChild
    PROVE  IInv'
<1> USE MaxPidAssumption, MaxFilesAssumption, MaxPdAssumption
<1>1. /\ curthread \in Procs /\ curthread \in Threads /\ idlectx = "saved"
      /\ pid \in Procs /\ pid \in Threads /\ state[pid] = "none" /\ pid # 1
      /\ cr3[pid] = 0 /\ nfiles[pid] = 0 /\ pid \in Int
      /\ queue \in Seq(Procs) /\ IsInjective(queue)
    BY DEF IInv, TypeOK, RunningIsCurrent, QueueInv, Dispatched, FreshInv
<1>2. pid # curthread /\ pid \notin ToSet(queue)
    BY <1>1 DEF IInv, CpuInv, QueueInv
<1>3. /\ queue' = Append(queue, pid) /\ pid' = pid + 1 /\ nextpd' = nextpd + 1
      /\ nextpd <= MaxPd
      /\ UNCHANGED <<curthread, cpu, idlectx, curcr3, esp0>>
    BY DEF ForkChild
<1>4. /\ queue' \in Seq(Procs) /\ IsInjective(queue')
      /\ ToSet(queue') = ToSet(queue) \cup {pid}
    BY <1>1, <1>2, <1>3, AppendFresh
<1>5. /\ state' \in [Threads -> States]
      /\ \A p \in Threads : p # pid => state'[p] = state[p]
      /\ \/ state'[pid] = "READY" /\ nfiles[curthread] <= MAXFILES
         \/ state'[pid] = "FILE" /\ nfiles[curthread] > MAXFILES
    <2>1. /\ state \in [Threads -> States] /\ nfiles[curthread] \in Int
        BY <1>1 DEF IInv, TypeOK
    <2>2. state' = [state EXCEPT ![pid] =
                       IF nfiles[curthread] > MAXFILES THEN "FILE" ELSE "READY"]
        BY DEF ForkChild
    <2> QED BY <1>1, <2>1, <2>2 DEF States
<1>6. /\ nfiles' \in [Threads -> 0..(MAXFILES + 1)]
      /\ \A p \in Threads : p # pid => nfiles'[p] = nfiles[p]
      /\ nfiles'[pid] = nfiles[curthread]
    BY <1>1 DEF ForkChild, IInv, TypeOK
<1>7. /\ cr3' \in [Threads -> 0..MaxPd]
      /\ \A p \in Threads : p # pid => cr3'[p] = cr3[p]
      /\ cr3'[pid] = nextpd
    BY <1>1, SMTT(30) DEF ForkChild, IInv, TypeOK
<1>8. TypeOK'
    <2>1. pid' \in 2..(MaxPid + 1) /\ nextpd' \in 2..(MaxPd + 1)
        BY <1>3 DEF IInv, TypeOK
    <2> QED BY <1>3, <1>4, <1>5, <1>6, <1>7, <2>1 DEF IInv, TypeOK
<1>9. QueueInv'
    <2>1. {p \in Procs : state'[p] # "none"} = {p \in Procs : state[p] # "none"} \cup {pid}
        BY <1>1, <1>5
    <2> QED BY <1>1, <1>2, <1>3, <1>4, <2>1 DEF IInv, QueueInv, Dispatched
<1>10. RunningIsCurrent' /\ CpuInv'
    BY <1>1, <1>2, <1>3, <1>5, SMTT(30) DEF IInv, RunningIsCurrent, CpuInv, Dispatched
<1>11. FreshInv'
    <2>1. \A p \in Procs : p >= pid' => state'[p] = "none"
        <3> SUFFICES ASSUME NEW p \in Procs, p >= pid' PROVE state'[p] = "none"
            OBVIOUS
        <3>1. p >= pid /\ p # pid
            BY <1>1, <1>3
        <3> QED BY <1>5, <3>1 DEF IInv, FreshInv
    <2>2. ASSUME NEW p \in Procs, state'[p] = "none"
          PROVE  nfiles'[p] = 0 /\ cr3'[p] = 0
        <3>1. p # pid
            BY <1>5, <2>2
        <3>2. state'[p] = state[p] /\ nfiles'[p] = nfiles[p] /\ cr3'[p] = cr3[p]
            BY <1>5, <1>6, <1>7, <3>1
        <3> QED BY <2>2, <3>2 DEF IInv, FreshInv
    <2> QED BY <2>1, <2>2 DEF FreshInv
<1>12. AddressInv'
    <2>0. nextpd \in Int /\ nextpd >= 2 /\ \A p \in Procs : cr3[p] \in Int
        BY DEF IInv, TypeOK
    <2>1. /\ \A p \in Procs : cr3[p] < nextpd
          /\ \A p \in Procs : state[p] # "none" => cr3[p] # 0
          /\ \A p, q \in Procs : cr3[p] = cr3[q] => p = q \/ cr3[p] = 0
        BY DEF IInv, AddressInv
    <2>2. cr3'[0] = 0
        BY <1>1, <1>7 DEF IInv, AddressInv
    <2>3. \A p \in Procs : p # pid => cr3'[p] = cr3[p] /\ state'[p] = state[p]
        BY <1>5, <1>7
    <2>4. \A p \in Procs : cr3'[p] < nextpd' /\ (state'[p] # "none" => cr3'[p] # 0)
        <3>1. cr3'[pid] < nextpd' /\ cr3'[pid] # 0
            BY <1>3, <1>7, <2>0
        <3>2. \A p \in Procs : cr3[p] < nextpd'
            BY <1>3, <2>0, <2>1
        <3> QED BY <1>1, <2>1, <2>3, <3>1, <3>2
    <2>5. \A p, q \in Procs : cr3'[p] = cr3'[q] => p = q \/ cr3'[p] = 0
        <3>1. \A p \in Procs : cr3[p] # nextpd
            BY <2>0, <2>1
        <3>2. cr3'[pid] = nextpd
            BY <1>7
        <3> QED BY <2>1, <2>3, <3>1, <3>2
    <2>6. cpu' = "user" => curcr3' = cr3'[curthread'] /\ esp0' = curthread'
        BY <1>1, <1>2, <1>3, <1>7 DEF IInv, AddressInv
    <2> QED BY <2>2, <2>4, <2>5, <2>6 DEF AddressInv
<1>13. FileInv'
    <2>1. \A p \in Procs : state[p] = "FILE" => nfiles[p] > MAXFILES
        BY DEF IInv, FileInv
    <2>2. \A p \in Procs : state'[p] = "FILE" => nfiles'[p] > MAXFILES
        <3> SUFFICES ASSUME NEW p \in Procs, state'[p] = "FILE"
                     PROVE  nfiles'[p] > MAXFILES
            OBVIOUS
        <3>1. CASE p = pid
            BY <1>5, <1>6, <3>1
        <3>2. CASE p # pid
            <4>1. state'[p] = state[p] /\ nfiles'[p] = nfiles[p]
                BY <1>5, <1>6, <3>2
            <4> QED BY <2>1, <4>1
        <3> QED BY <3>1, <3>2
    <2>3. state'[1] = state[1]
        BY <1>1, <1>5
    <2> QED BY <2>2, <2>3 DEF IInv, FileInv
<1>14. NeverIdle'
    BY <1>3 DEF NeverIdle
<1> QED BY <1>8, <1>9, <1>10, <1>11, <1>12, <1>13, <1>14 DEF IInv

(***************************************************************************)
(* The three ends of sys_fork.                                             *)
(***************************************************************************)
LEMMA SysForkIInv ==
    ASSUME IInv, SysFork
    PROVE  IInv'
<1> USE MaxPidAssumption, MaxFilesAssumption, MaxPdAssumption
<1>1. CASE ForkChild
    BY <1>1, ForkChildIInv DEF SysFork
<1>2. ASSUME ForkNoMemory \/ ForkOverrun PROVE IInv'
    <2>1. /\ pid' = pid + 1 /\ pid \in Int /\ pid' \in 2..(MaxPid + 1)
          /\ UNCHANGED <<state, queue, curthread, idlectx, nfiles, cr3, curcr3,
                         esp0, nextpd>>
          /\ \/ cpu' = cpu
             \/ cpu' = "wild" /\ nfiles[curthread] > MAXFILES /\ curthread \in Procs
        <3>1. pid \in Int /\ pid + 1 \in 2..(MaxPid + 1)
            BY DEF SysFork, IInv, TypeOK
        <3>2. curthread \in Procs
            BY DEF SysFork, IInv, RunningIsCurrent
        <3> QED BY <1>2, <3>1, <3>2 DEF ForkNoMemory, ForkOverrun
    <2>2. TypeOK'
        BY <2>1 DEF IInv, TypeOK, CpuModes
    <2>3. QueueInv'
        BY <2>1 DEF IInv, QueueInv, Dispatched
    <2>4. RunningIsCurrent' /\ CpuInv'
        BY <2>1 DEF IInv, RunningIsCurrent, CpuInv, Dispatched
    <2>5. FreshInv'
        BY <2>1 DEF IInv, FreshInv
    <2>6. AddressInv' /\ FileInv'
        BY <2>1 DEF IInv, AddressInv, FileInv
    <2>7. NeverIdle'
        BY <2>1 DEF IInv, NeverIdle, FilesOverrun
    <2> QED BY <2>2, <2>3, <2>4, <2>5, <2>6, <2>7 DEF IInv
<1> QED BY <1>1, <1>2 DEF SysFork

(***************************************************************************)
(* Opening a file, the one behind the end of the table included.           *)
(***************************************************************************)
LEMMA SysOpenIInv ==
    ASSUME IInv, SysOpen
    PROVE  IInv'
<1> USE MaxPidAssumption, MaxFilesAssumption, MaxPdAssumption
<1>1. /\ curthread \in Procs /\ curthread \in Threads /\ idlectx = "saved"
      /\ state \in [Threads -> States]
      /\ nfiles \in [Threads -> 0..(MAXFILES + 1)] /\ nfiles[curthread] <= MAXFILES
    <2>1. curthread \in Procs /\ idlectx = "saved"
        BY DEF IInv, RunningIsCurrent, Dispatched, SysOpen
    <2>2. state \in [Threads -> States] /\ nfiles \in [Threads -> 0..(MAXFILES + 1)]
        BY DEF IInv, TypeOK
    <2>3. curthread \in Threads
        BY DEF IInv, TypeOK
    <2>4. nfiles[curthread] <= MAXFILES
        <3>1. ~(nfiles[curthread] > MAXFILES)
            BY DEF SysOpen, TableFull
        <3>2. nfiles[curthread] \in 0..(MAXFILES + 1)
            BY <2>2, <2>3
        <3> QED BY <3>1, <3>2
    <2> QED BY <2>1, <2>2, <2>3, <2>4
<1>2. state[curthread] = "RUNNING"
    BY <1>1 DEF IInv, RunningIsCurrent, FileInv, SysOpen
<1>3. /\ nfiles' = [nfiles EXCEPT ![curthread] = nfiles[curthread] + 1]
      /\ \/ state' = state /\ nfiles[curthread] # MAXFILES
         \/ /\ state' = [state EXCEPT ![curthread] = "FILE"]
            /\ nfiles[curthread] = MAXFILES
      /\ cpu = "user"
      /\ UNCHANGED <<queue, curthread, cpu, idlectx, pid, cr3, curcr3, esp0, nextpd>>
    BY DEF SysOpen
<1>4. /\ state' \in [Threads -> States]
      /\ \A p \in Threads : p # curthread => state'[p] = state[p]
      /\ \/ state'[curthread] = "RUNNING"
         \/ state'[curthread] = "FILE" /\ nfiles[curthread] = MAXFILES
    BY <1>1, <1>2, <1>3 DEF States
<1>5. /\ nfiles' \in [Threads -> 0..(MAXFILES + 1)]
      /\ \A p \in Threads : p # curthread => nfiles'[p] = nfiles[p]
      /\ nfiles'[curthread] = nfiles[curthread] + 1
    BY <1>1, <1>3
<1>6. TypeOK'
    BY <1>3, <1>4, <1>5 DEF IInv, TypeOK
<1>7. QueueInv'
    <2>1. {p \in Procs : state'[p] # "none"} = {p \in Procs : state[p] # "none"}
        BY <1>1, <1>2, <1>4
    <2> QED BY <1>3, <2>1 DEF IInv, QueueInv, Dispatched
<1>8. RunningIsCurrent' /\ CpuInv'
    BY <1>1, <1>3, <1>4 DEF IInv, RunningIsCurrent, CpuInv, Dispatched
<1>9. FreshInv'
    BY <1>1, <1>2, <1>3, <1>4, <1>5 DEF IInv, FreshInv
<1>10. AddressInv'
    BY <1>1, <1>2, <1>3, <1>4 DEF IInv, AddressInv
<1>11. FileInv'
    BY <1>1, <1>2, <1>4, <1>5, SMTT(30) DEF IInv, FileInv
<1>12. NeverIdle'
    BY <1>3 DEF NeverIdle
<1> QED BY <1>6, <1>7, <1>8, <1>9, <1>10, <1>11, <1>12 DEF IInv

(***************************************************************************)
(* Every step preserves the invariant.                                     *)
(***************************************************************************)
LEMMA NextIInv == IInv /\ [Next]_vars => IInv'
<1> SUFFICES ASSUME IInv, [Next]_vars PROVE IInv'
    OBVIOUS
<1>1. CASE Scheduler
    BY <1>1, SchedulerIdleIInv, SchedulerRunIInv DEF Scheduler
<1>2. CASE TimerTick
    BY <1>2, TimerTickIInv
<1>3. CASE Trap
    BY <1>3, PanicIInv DEF Trap
<1>4. CASE SysExit
    BY <1>4, SysExitIInv
<1>5. CASE SysFork
    BY <1>5, SysForkIInv
<1>6. CASE SysExecve
    BY <1>6, SysExecveIInv
<1>7. CASE SysOpen
    BY <1>7, SysOpenIInv
<1>8. CASE Halted \/ UNCHANGED vars
    BY <1>8, ZenonT(60) DEF Halted, vars, IInv, TypeOK, QueueInv, RunningIsCurrent, CpuInv,
                FreshInv, AddressInv, FileInv, NeverIdle, FilesOverrun, Dispatched
<1> QED BY <1>1, <1>2, <1>3, <1>4, <1>5, <1>6, <1>7, <1>8 DEF Next

(***************************************************************************)
(* The invariant holds in every reachable state.                           *)
(***************************************************************************)
LEMMA SpecIInv == Spec => []IInv
BY InitIInv, NextIInv, PTL DEF Spec

-----------------------------------------------------------------------------
(***************************************************************************)
(* The safety properties of Sched                                          *)
(***************************************************************************)

(***************************************************************************)
(* Type correctness: in particular sys_open overruns a process's file      *)
(* table by at most one entry, however often it is called.                 *)
(***************************************************************************)
THEOREM TypeCorrect == Spec => []TypeOK
<1>1. IInv => TypeOK
    BY DEF IInv
<1> QED BY <1>1, SpecIInv, PTL

(***************************************************************************)
(* The scheduler's queue and the CPU hold every process exactly once.      *)
(***************************************************************************)
THEOREM QueueCorrect == Spec => []QueueInv
<1>1. IInv => QueueInv
    BY DEF IInv
<1> QED BY <1>1, SpecIInv, PTL

(***************************************************************************)
(* Only the dispatched process is RUNNING, and user code is that of a live *)
(* process.                                                                *)
(***************************************************************************)
THEOREM RunningCorrect == Spec => []RunningIsCurrent
<1>1. IInv => RunningIsCurrent
    BY DEF IInv
<1> QED BY <1>1, SpecIInv, PTL

(***************************************************************************)
(* User code runs in an address space of its own.                          *)
(***************************************************************************)
THEOREM AddressSpaceCorrect == Spec => []OwnAddressSpace
<1>1. IInv => OwnAddressSpace
    <2> SUFFICES ASSUME IInv, cpu = "user" PROVE
            /\ curcr3 = cr3[curthread] /\ esp0 = curthread
            /\ \A p \in Threads \ {curthread} : cr3[p] # curcr3
        BY DEF OwnAddressSpace
    <2>1. /\ curthread \in Procs /\ state[curthread] # "none"
          /\ curcr3 = cr3[curthread] /\ esp0 = curthread /\ curcr3 # 0
        BY DEF IInv, RunningIsCurrent, AddressInv
    <2>2. \A p \in Threads : p \in Procs \/ p = 0
        BY MaxPidAssumption
    <2> QED BY <2>1, <2>2 DEF IInv, AddressInv
<1> QED BY <1>1, SpecIInv, PTL

(***************************************************************************)
(* Without an overrun file table, scheduler() never finds the queue        *)
(* without a READY process.                                                *)
(***************************************************************************)
THEOREM NeverIdleCorrect == Spec => []NeverIdle
<1>1. IInv => NeverIdle
    BY DEF IInv
<1> QED BY <1>1, SpecIInv, PTL

-----------------------------------------------------------------------------
(***************************************************************************)
(* The action properties of Sched                                          *)
(***************************************************************************)

(***************************************************************************)
(* What sys_exit did is final.                                             *)
(***************************************************************************)
THEOREM DeadForeverCorrect == Spec => DeadForever
<1>1. ASSUME IInv, Next, NEW p \in Procs PROVE StaysDead(p)
    <2> SUFFICES ASSUME state[p] = "DEAD"
                 PROVE  /\ state'[p] = "DEAD" /\ cr3'[p] = cr3[p]
                        /\ ~(cpu' = "user" /\ curthread' = p)
        BY DEF StaysDead
    <2>0. /\ cpu = "user" => curthread # p
          /\ state \in [Threads -> States] /\ cr3 \in [Threads -> 0..MaxPd]
          /\ pid \in 2..(MaxPid + 1)
        BY <1>1 DEF IInv, RunningIsCurrent, TypeOK
    <2>00. pid # p
        BY <1>1, <2>0, MaxPidAssumption DEF IInv, FreshInv
    <2>1. CASE Scheduler
        <3>1. CASE SchedulerIdle
            BY <3>1 DEF SchedulerIdle
        <3>2. ASSUME NEW i \in DOMAIN queue, SchedulerRun(i)
              PROVE  /\ state'[p] = "DEAD" /\ cr3'[p] = cr3[p] /\ curthread' # p
            BY <2>0, <3>2 DEF SchedulerRun, FirstReady
        <3> QED BY <2>1, <3>1, <3>2 DEF Scheduler
    <2>2. CASE TimerTick
        BY <2>0, <2>2 DEF TimerTick, Yield, SwitchToIdle
    <2>3. CASE Trap
        BY <2>3 DEF Trap, Panic
    <2>4. CASE SysExit
        <3>1. curthread # p
            BY <2>0, <2>4 DEF SysExit
        <3>2. CASE Panic
            BY <2>4, <3>1, <3>2 DEF SysExit, Panic
        <3>3. CASE Yield([state EXCEPT ![curthread] = "DEAD"]) /\ UNCHANGED cr3
            <4>1. state'[p] = state[p]
                BY <2>0, <3>1, <3>3 DEF Yield
            <4>2. cpu' # "user"
                BY <3>3 DEF Yield, SwitchToIdle
            <4> QED BY <3>3, <4>1, <4>2
        <3> QED BY <2>4, <3>2, <3>3 DEF SysExit
    <2>5. CASE SysFork
        <3>1. pid \in Procs /\ cpu = "user"
            BY <2>0, <2>5, MaxPidAssumption DEF SysFork
        <3>2. CASE ForkChild
            BY <2>0, <2>00, <3>1, <3>2 DEF ForkChild
        <3>3. CASE ForkNoMemory \/ ForkOverrun
            BY <2>0, <3>1, <3>3 DEF ForkNoMemory, ForkOverrun
        <3> QED BY <2>5, <3>2, <3>3 DEF SysFork
    <2>6. CASE SysExecve
        BY <2>0, <2>6 DEF SysExecve, Yield, SwitchToIdle
    <2>7. CASE SysOpen
        BY <2>0, <2>7 DEF SysOpen
    <2>8. CASE Halted
        BY <2>0, <2>8 DEF Halted, vars
    <2> QED BY <1>1, <2>1, <2>2, <2>3, <2>4, <2>5, <2>6, <2>7, <2>8 DEF Next
<1>2. IInv /\ [Next]_vars => [\A p \in Procs : StaysDead(p)]_vars
    BY <1>1
<1> QED BY <1>2, SpecIInv, PTL DEF Spec, DeadForever

(***************************************************************************)
(* Appending a newcomer changes nothing in front of p.                     *)
(***************************************************************************)
LEMMA AppendAhead ==
    ASSUME NEW q \in Seq(Procs), NEW x \in Procs, x \notin ToSet(q),
           NEW p \in Procs, p \in ToSet(q)
    PROVE  /\ p \in ToSet(Append(q, x))
           /\ Ahead(Append(q, x), p) \subseteq Ahead(q, p)
<1> DEFINE r == Append(q, x)
<1>1. /\ DOMAIN q = 1..Len(q) /\ DOMAIN r = 1..(Len(q) + 1) /\ Len(q) \in Nat
      /\ \A j \in 1..Len(q) : r[j] = q[j]
      /\ r[Len(q) + 1] = x
    OBVIOUS
<1> HIDE DEF r
<1>2. p # x
    OBVIOUS
<1>3. p \in ToSet(r)
    BY <1>1 DEF ToSet
<1>4. ASSUME NEW y \in Ahead(r, p) PROVE y \in Ahead(q, p)
    <2>1. PICK i, j \in DOMAIN r : i < j /\ r[i] = y /\ r[j] = p
        BY DEF Ahead
    <2>2. j # Len(q) + 1
        BY <1>1, <1>2, <2>1
    <2>3. i \in 1..Len(q) /\ j \in 1..Len(q)
        BY <1>1, <2>1, <2>2
    <2> QED BY <1>1, <2>1, <2>3 DEF Ahead
<1> QED BY <1>3, <1>4 DEF r

(***************************************************************************)
(* Taking out the first READY process q[k] brings every other READY one    *)
(* forward.                                                                *)
(***************************************************************************)
LEMMA RemoveAhead ==
    ASSUME NEW q \in Seq(Procs), IsInjective(q), NEW k \in DOMAIN q,
           NEW p \in Procs, p \in ToSet(q), p # q[k],
           \A j \in 1..(k - 1) : q[j] # p
    PROVE  /\ p \in ToSet(RemoveAt(q, k))
           /\ Ahead(RemoveAt(q, k), p) \subseteq Ahead(q, p)
           /\ q[k] \in Ahead(q, p)
<1> DEFINE r == RemoveAt(q, k)
<1>1. /\ DOMAIN q = 1..Len(q) /\ DOMAIN r = 1..(Len(q) - 1) /\ Len(q) \in Nat
      /\ \A j \in 1..(Len(q) - 1) : r[j] = IF j < k THEN q[j] ELSE q[j + 1]
    BY RemoveAtElements
<1>2. ToSet(r) = ToSet(q) \ {q[k]}
    BY RemoveAtInjective
<1> HIDE DEF r
<1>3. ASSUME NEW y \in Ahead(r, p) PROVE y \in Ahead(q, p)
    <2>1. PICK i, j \in DOMAIN r : i < j /\ r[i] = y /\ r[j] = p
        BY DEF Ahead
    <2> DEFINE ii == IF i < k THEN i ELSE i + 1
               jj == IF j < k THEN j ELSE j + 1
    <2>2. ii \in DOMAIN q /\ jj \in DOMAIN q /\ ii < jj
        BY <1>1, <2>1
    <2>3. q[ii] = y /\ q[jj] = p
        BY <1>1, <2>1
    <2> HIDE DEF ii, jj
    <2> QED BY <2>2, <2>3 DEF Ahead
<1>4. q[k] \in Ahead(q, p)
    <2>1. PICK j \in DOMAIN q : q[j] = p
        BY DEF ToSet
    <2>2. ~(j < k)
        BY <1>1, <2>1
    <2>3. j # k /\ q[k] \in Procs
        <3>1. j # k
            BY <2>1
        <3>2. q[k] \in Procs
            BY <1>1, ElementOfSeq
        <3> QED BY <3>1, <3>2
    <2>4. k < j
        BY <1>1, <2>2, <2>3
    <2> QED BY <2>1, <2>3, <2>4 DEF Ahead
<1> QED BY <1>2, <1>3, <1>4 DEF r

(***************************************************************************)
(* Round robin: no step lets anyone overtake a waiting process.            *)
(***************************************************************************)
THEOREM NoOvertakingCorrect == Spec => NoOvertaking
<1>1. ASSUME IInv, Next, NEW p \in Procs PROVE KeepsPlace(p)
    <2> SUFFICES ASSUME state[p] = "READY", p \in ToSet(queue)
                 PROVE  \/ /\ p \in ToSet(queue')
                           /\ Ahead(queue', p) \subseteq Ahead(queue, p)
                           /\ (cpu = "scheduler" /\ cpu' = "user") =>
                                  curthread' \in Ahead(queue, p)
                        \/ state'[p] = "RUNNING" /\ curthread' = p
        BY DEF KeepsPlace
    <2>1. /\ queue \in Seq(Procs) /\ IsInjective(queue) /\ pid \in 2..(MaxPid + 1)
          /\ state \in [Threads -> States]
        BY <1>1 DEF IInv, TypeOK, QueueInv
    <2>2. idlectx = "saved" => curthread \in Procs /\ curthread \notin ToSet(queue)
        BY <1>1 DEF IInv, CpuInv, QueueInv, Dispatched
    <2>3. CASE queue' = queue /\ ~(cpu = "scheduler" /\ cpu' = "user")
        BY <2>3
    <2>4. CASE queue' = Append(queue, curthread) /\ idlectx = "saved" /\ cpu' # "user"
        BY <2>1, <2>2, <2>4, AppendAhead
    <2>5. CASE ForkChild /\ pid <= MaxPid /\ cpu = "user"
        <3>1. pid \in Procs /\ state[pid] = "none"
            BY <1>1, <2>1, <2>5, MaxPidAssumption DEF IInv, FreshInv
        <3>2. pid \notin ToSet(queue)
            BY <1>1, <3>1 DEF IInv, QueueInv
        <3> QED BY <2>1, <2>5, <3>1, <3>2, AppendAhead DEF ForkChild
    <2>6. CASE Scheduler
        <3>1. CASE SchedulerIdle
            BY <2>3, <3>1 DEF SchedulerIdle
        <3>2. ASSUME NEW i \in DOMAIN queue, SchedulerRun(i)
              PROVE  \/ /\ p \in ToSet(queue')
                        /\ Ahead(queue', p) \subseteq Ahead(queue, p)
                        /\ curthread' \in Ahead(queue, p)
                     \/ state'[p] = "RUNNING" /\ curthread' = p
            <4>1. /\ queue' = RemoveAt(queue, i) /\ curthread' = queue[i]
                  /\ state' = [state EXCEPT ![queue[i]] = "RUNNING"]
                  /\ \A j \in 1..(i - 1) : state[queue[j]] # "READY"
                BY <3>2 DEF SchedulerRun, FirstReady
            <4>2. CASE p = queue[i]
                BY <2>1, <4>1, <4>2
            <4>3. CASE p # queue[i]
                <5>1. \A j \in 1..(i - 1) : queue[j] # p
                    BY <4>1
                <5> QED BY <2>1, <4>1, <4>3, <5>1, RemoveAhead
            <4> QED BY <4>2, <4>3
        <3> QED BY <2>6, <3>1, <3>2 DEF Scheduler
    <2>7. CASE TimerTick
        BY <2>3, <2>4, <2>7
           DEF TimerTick, Yield, SwitchToIdle, Requeue
    <2>8. CASE Trap
        BY <2>3, <2>8 DEF Trap, Panic
    <2>9. CASE SysExit
        BY <2>3, <2>4, <2>9 DEF SysExit, Panic, Yield, SwitchToIdle, Requeue
    <2>10. CASE SysFork
        BY <2>3, <2>5, <2>10 DEF SysFork, ForkNoMemory, ForkOverrun
    <2>11. CASE SysExecve
        BY <2>3, <2>4, <2>11 DEF SysExecve, Yield, SwitchToIdle, Requeue
    <2>12. CASE SysOpen \/ Halted
        BY <2>3, <2>12 DEF SysOpen, Halted, vars
    <2> QED BY <1>1, <2>6, <2>7, <2>8, <2>9, <2>10, <2>11, <2>12 DEF Next
<1>2. IInv /\ [Next]_vars => [\A p \in Procs : KeepsPlace(p)]_vars
    BY <1>1
<1> QED BY <1>2, SpecIInv, PTL DEF Spec, NoOvertaking

=============================================================================
