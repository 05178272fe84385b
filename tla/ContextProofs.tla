--------------------------- MODULE ContextProofs ---------------------------
(***************************************************************************)
(* Proofs about the switch of processes, for any number of processes, any  *)
(* contents of their registers and any size of kernel stack that holds the *)
(* deepest chain of calls.                                                 *)
(***************************************************************************)
EXTENDS Context, SequenceTheorems, TLAPS

-----------------------------------------------------------------------------
(***************************************************************************)
(* The invariant.  Popped words stay in the stack and every word pushed    *)
(* overwrites one, so what is on a stack is known word by word.            *)
(*                                                                         *)
(* The words of p's stack that iret and popal will read hold what p must   *)
(* resume with.  eax may be anything after execve, and popal skips __esp.  *)
(***************************************************************************)
Framed(p) ==
    \A r \in Register \ {"__esp"} :
        (r = "eax" /\ want[p]["eax"] = At("any")) \/ stk[p][Tf(r)] = want[p][r]

(***************************************************************************)
(* Returning to place with n words on p's stack, the calls that are left   *)
(* end with the frame alone on the stack: those of a new process, of one   *)
(* the timer preempted and of one that called execve.                      *)
(***************************************************************************)
Unwinds(p, place, n) ==
    \/ place \in {At("trapret"), At("int20"), At("end_syscall")} /\ n = 17
    \/ place = At("forkret") /\ n = 18 /\ stk[p][18] = At("trapret")
    \/ place = At("yield_back") /\ n = 20 /\ stk[p][18] = At("int20")
    \/ /\ want[p]["eax"] = At("any")
       /\ \/ place = At("yield_back") /\ n = 24 /\ stk[p][22] = At("sys_execve") /\ stk[p][21] = At("execve")
          \/ place = At("sys_execve") /\ n = 21 /\ stk[p][21] = At("execve")
          \/ place = At("execve") /\ n = 20

Resumable(p) ==
    /\ Framed(p)
    /\ ctx[p][1] = p /\ ctx[p][2] \in 22..29
    /\ Unwinds(p, stk[p][ctx[p][2] - 4], ctx[p][2] - 5)

(***************************************************************************)
(* While a process has the processor, the TSS names its stack and the      *)
(* scheduler's context lies on the boot stack with the process in ebx.     *)
(***************************************************************************)
Dispatched ==
    /\ curthread \in Procs /\ state[curthread] = "RUNNING"
    /\ tss[2] = curthread
    /\ ctx[Boot] = <<Boot, 8>>
    /\ stk[Boot][4] = At("sched_back") /\ stk[Boot][5] = Num(curthread)

InScheduler ==
    \/ pc = At("scheduler") /\ esp = <<Boot, 1>>
    \/ pc = At("sched_back") /\ esp = <<Boot, 3>> /\ regs["ebx"] = Num(curthread)

InProcess ==
    \/ pc = At("panic")
    \/ pc = At("user") /\ esp = <<curthread, 0>> /\ ResumesWhole
    \/ pc \in {At("timer"), At("syscall")} /\ esp = <<curthread, 17>> /\ Framed(curthread)
    \/ \E n \in 17..24 : esp = <<curthread, n>> /\ Framed(curthread) /\ Unwinds(curthread, pc, n)

Shapes ==
    /\ DOMAIN regs = Register
    /\ DOMAIN stk = {Boot} \cup Procs
    /\ \A s \in {Boot} \cup Procs : DOMAIN stk[s] = 1..Depth
    /\ DOMAIN ctx = {Boot} \cup Procs
    /\ DOMAIN tss = DOMAIN task_state_segment
    /\ state \in [Procs -> {"none", "READY", "RUNNING", "DEAD"}]
    /\ DOMAIN want = Procs
    /\ \A p \in Procs : DOMAIN want[p] = Register /\ want[p]["__esp"] = Num(0)

ContextInv ==
    /\ Shapes
    /\ \A p \in Procs : state[p] = "READY" => Resumable(p)
    /\ InScheduler \/ (Dispatched /\ InProcess)

-----------------------------------------------------------------------------
(***************************************************************************)
(* The structures.                                                         *)
(***************************************************************************)

(***************************************************************************)
(* Places in the code are told apart by their names, and are no numbers.   *)
(***************************************************************************)
LEMMA Places == \A a, b : At(a) = At(b) <=> a = b
BY DEF At

(***************************************************************************)
(* A field that occurs once is found.                                      *)
(***************************************************************************)
LEMMA FieldFound ==
    ASSUME NEW s, NEW f, NEW k \in DOMAIN s, s[k] = f,
           \A j \in DOMAIN s : s[j] = f => j = k
    PROVE  Field(s, f) = k
BY DEF Field

(***************************************************************************)
(* The fields of struct trapframe are different.                           *)
(***************************************************************************)
LEMMA FrameFields ==
    /\ DOMAIN trapframe = 1..17 /\ Len(trapframe) = 17
    /\ \A j, k \in 1..17 : trapframe[j] = trapframe[k] => j = k
    /\ TfTop = 17
<1>1. DOMAIN trapframe = 1..17 /\ Len(trapframe) = 17
    BY DEF trapframe
<1>2. \A j, k \in 1..17 : trapframe[j] = trapframe[k] => j = k
    BY DEF trapframe
<1> QED BY <1>1, <1>2 DEF TfTop

(***************************************************************************)
(* p->tf->r is the word of r, and no two registers share one.              *)
(***************************************************************************)
LEMMA TfFinds ==
    /\ \A r \in Register : /\ Tf(r) \in 1..17 /\ Field(trapframe, r) = 18 - Tf(r)
                           /\ trapframe[18 - Tf(r)] = r
    /\ \A k \in 1..17 : trapframe[k] \in Register /\ Tf(trapframe[k]) = 18 - k
    /\ \A q, r \in Register : Tf(q) = Tf(r) => q = r
<1>1. ASSUME NEW k \in 1..17
      PROVE  /\ trapframe[k] \in Register /\ Field(trapframe, trapframe[k]) = k
             /\ Tf(trapframe[k]) = 18 - k /\ Tf(trapframe[k]) \in 1..17
    <2>1. trapframe[k] \in Register
        BY FrameFields DEF Register, ToSet
    <2>2. Field(trapframe, trapframe[k]) = k
        BY FrameFields, FieldFound
    <2>3. Tf(trapframe[k]) = 18 - k
        BY <2>2, FrameFields DEF Tf
    <2> QED BY <2>1, <2>2, <2>3
<1>2. ASSUME NEW r \in Register
      PROVE  \E k \in 1..17 : r = trapframe[k]
    BY FrameFields DEF Register, ToSet
<1>3. ASSUME NEW r \in Register
      PROVE  /\ Tf(r) \in 1..17 /\ Field(trapframe, r) = 18 - Tf(r)
             /\ trapframe[18 - Tf(r)] = r
    <2>1. PICK k \in 1..17 : r = trapframe[k]
        BY <1>2
    <2>2. 18 - (18 - k) = k
        OBVIOUS
    <2> QED BY <1>1, <2>1, <2>2
<1>4. \A q, r \in Register : Tf(q) = Tf(r) => q = r
    BY <1>3
<1> QED BY <1>1, <1>3, <1>4

(***************************************************************************)
(* The registers by name.  eax is seven words below the last of the frame, *)
(* where a call stores its result.                                         *)
(***************************************************************************)
LEMMA Names ==
    /\ {"eax", "eip", "esp", "__esp", "ebx", "ebp", "esi", "edi", "edx", "ecx"} \subseteq Register
    /\ Tf("eax") = 10
<1>1. \A k \in 1..17 : trapframe[k] \in Register
    BY TfFinds
<1>2. trapframe[1] = "edi" /\ trapframe[2] = "esi" /\ trapframe[3] = "ebp" /\ trapframe[4] = "__esp"
      /\ trapframe[5] = "ebx" /\ trapframe[6] = "edx" /\ trapframe[7] = "ecx" /\ trapframe[8] = "eax"
      /\ trapframe[13] = "eip" /\ trapframe[16] = "esp"
    BY DEF trapframe
<1>3. {1, 2, 3, 4, 5, 6, 7, 8, 13, 16} \subseteq 1..17
    OBVIOUS
<1>4. Tf(trapframe[8]) = 18 - 8
    BY TfFinds
<1> QED BY <1>1, <1>2, <1>3, <1>4

(***************************************************************************)
(* A gate pushes the fields of the frame from the last to the first, and   *)
(* trapret pops them as popal and iret do.                                 *)
(***************************************************************************)
LEMMA EntryFields ==
    /\ DOMAIN Entry = 1..17 /\ Len(Entry) = 17
    /\ \A k \in 1..17 : Entry[k] = trapframe[18 - k]
<1> DEFINE S == {"ss", "esp", "eflags", "cs", "eip", "ds", "es", "fs", "gs",
                 "eax", "ecx", "edx", "ebx", "__esp", "ebp", "esi", "edi"}
<1>1. /\ Hardware \in Seq(S) /\ Len(Hardware) = 5
      /\ Segments \in Seq(S) /\ Len(Segments) = 4
      /\ pushal \in Seq(S) /\ Len(pushal) = 8
    <2>1. Hardware \in Seq(S) /\ Len(Hardware) = 5
        BY DEF Hardware
    <2>2. Segments \in Seq(S) /\ Len(Segments) = 4
        BY DEF Segments
    <2>3. pushal \in Seq(S) /\ Len(pushal) = 8
        BY DEF pushal
    <2> QED BY <2>1, <2>2, <2>3
<1> HIDE DEF S
<1> DEFINE hs == Hardware \o Segments
<1>2. /\ hs \in Seq(S) /\ Len(hs) = 9
      /\ \A k \in 1..9 : hs[k] = IF k <= 5 THEN Hardware[k] ELSE Segments[k - 5]
    <2>1. /\ hs \in Seq(S) /\ Len(hs) = Len(Hardware) + Len(Segments)
          /\ \A k \in 1..(Len(Hardware) + Len(Segments)) :
                hs[k] = IF k <= Len(Hardware) THEN Hardware[k] ELSE Segments[k - Len(Hardware)]
        BY <1>1, ConcatProperties
    <2> HIDE DEF hs
    <2> QED BY <1>1, <2>1
<1>3. /\ Entry \in Seq(S) /\ Len(Entry) = 17
      /\ \A k \in 1..17 : Entry[k] = IF k <= 9 THEN hs[k] ELSE pushal[k - 9]
    <2>0. Entry = hs \o pushal
        BY DEF Entry
    <2> HIDE DEF hs
    <2>1. /\ Entry \in Seq(S) /\ Len(Entry) = Len(hs) + Len(pushal)
          /\ \A k \in 1..(Len(hs) + Len(pushal)) :
                Entry[k] = IF k <= Len(hs) THEN hs[k] ELSE pushal[k - Len(hs)]
        BY <1>1, <1>2, <2>0, ConcatProperties
    <2> QED BY <1>1, <1>2, <2>1
<1> HIDE DEF hs
<1>4. ASSUME NEW k \in 1..5 PROVE Entry[k] = trapframe[18 - k]
    <2>1. Entry[k] = Hardware[k]
        BY <1>2, <1>3
    <2> QED BY <2>1 DEF Hardware, trapframe
<1>5. ASSUME NEW k \in 6..9 PROVE Entry[k] = trapframe[18 - k]
    <2>1. Entry[k] = Segments[k - 5]
        BY <1>2, <1>3
    <2> QED BY <2>1 DEF Segments, trapframe
<1>6. ASSUME NEW k \in 10..17 PROVE Entry[k] = trapframe[18 - k]
    <2>1. Entry[k] = pushal[k - 9]
        BY <1>3
    <2> QED BY <2>1 DEF pushal, trapframe
<1>7. DOMAIN Entry = 1..17
    BY <1>3
<1> QED BY <1>3, <1>4, <1>5, <1>6, <1>7

(***************************************************************************)
(* What trapret pops, in the order of the structure.                       *)
(***************************************************************************)
LEMMA PopsFrame == PopAll = trapframe
BY DEF PopAll, trapframe

(***************************************************************************)
(* The second word of the TSS is esp0.                                     *)
(***************************************************************************)
LEMMA Esp0Field ==
    /\ DOMAIN task_state_segment = 1..26
    /\ Field(task_state_segment, "esp0") = 2
<1>1. DOMAIN task_state_segment = 1..26 /\ task_state_segment[2] = "esp0"
    BY DEF task_state_segment
<1>2. \A k \in 1..26 : task_state_segment[k] = "esp0" => k = 2
    BY DEF task_state_segment
<1> QED BY <1>1, <1>2, FieldFound

(***************************************************************************)
(* The context alloc_thread makes: 23 words from the top, eip the highest  *)
(* of its words.                                                           *)
(***************************************************************************)
LEMMA ContextFields ==
    ContextTop = 23 /\ Field(context, "eip") = 5
<1>1. DOMAIN context = 1..5 /\ Len(context) = 5 /\ context[5] = "eip"
    BY DEF context
<1>2. \A k \in 1..5 : context[k] = "eip" => k = 5
    BY DEF context
<1>3. Field(context, "eip") = 5
    BY <1>1, <1>2, FieldFound
<1> QED BY <1>1, <1>3, FrameFields DEF ContextTop

(***************************************************************************)
(* The four registers switch_to pops, by the words they are popped from.   *)
(***************************************************************************)
LEMMA PopsFields ==
    /\ Len(Pops) = 4 /\ ToSet(Pops) = {"edi", "esi", "ebp", "ebx"}
    /\ Field(Pops, "ebx") = 4
<1>1. DOMAIN Pops = 1..4 /\ Len(Pops) = 4 /\ Pops[4] = "ebx"
    BY DEF Pops
<1>2. \A k \in 1..4 : Pops[k] = "ebx" => k = 4
    BY DEF Pops
<1>3. Field(Pops, "ebx") = 4
    BY <1>1, <1>2, FieldFound
<1>4. ToSet(Pops) = {"edi", "esi", "ebp", "ebx"}
    BY DEF Pops, ToSet
<1> QED BY <1>1, <1>3, <1>4

-----------------------------------------------------------------------------
(***************************************************************************)
(* Stacks.                                                                 *)
(***************************************************************************)

(***************************************************************************)
(* The words alloc_thread writes.                                          *)
(***************************************************************************)
LEMMA AllocWords ==
    ASSUME NEW frame
    PROVE  LET s == alloc_thread(frame)
           IN  /\ DOMAIN s = 1..Depth
               /\ \A r \in Register : s[Tf(r)] = frame[r]
               /\ s[18] = At("trapret") /\ s[19] = At("forkret")
<1> DEFINE s == alloc_thread(frame)
<1>1. Depth \in Int /\ Depth >= 29
    BY ContextAssumption
<1>2. s = [k \in 1..Depth |-> IF k \in 1..17 THEN frame[trapframe[18 - k]]
                             ELSE IF k = 18 THEN At("trapret")
                             ELSE IF k = 19 THEN At("forkret") ELSE Num(0)]
    BY FrameFields, ContextFields DEF alloc_thread
<1> HIDE DEF s
<1>3. DOMAIN s = 1..Depth /\ s[18] = At("trapret") /\ s[19] = At("forkret")
    BY <1>1, <1>2
<1>4. ASSUME NEW r \in Register PROVE s[Tf(r)] = frame[r]
    <2>1. Tf(r) \in 1..17 /\ Tf(r) \in 1..Depth /\ trapframe[18 - Tf(r)] = r
        BY <1>1, TfFinds
    <2> QED BY <1>2, <2>1
<1> QED BY <1>3, <1>4 DEF s

(***************************************************************************)
(* The frame a gate pushes has each register in its word.                  *)
(***************************************************************************)
LEMMA GateWords ==
    ASSUME NEW s, DOMAIN s = 1..Depth, NEW rg
    PROVE  LET t == Push(s, 0, Values(rg, Entry))
           IN  /\ DOMAIN t = 1..Depth
               /\ \A r \in Register : t[Tf(r)] = rg[r]
<1>1. Depth \in Int /\ Depth >= 29
    BY ContextAssumption
<1> DEFINE v == Values(rg, Entry)
<1>2. v = [k \in 1..17 |-> rg[Entry[k]]]
    BY EntryFields DEF Values
<1> HIDE DEF v
<1>3. Len(v) = 17
    BY <1>2
<1> DEFINE t == Push(s, 0, v)
<1>4. DOMAIN t = 1..Depth /\ \A k \in 1..17 : t[k] = v[k]
    <2>1. t = [k \in 1..Depth |-> IF k \in (0 + 1)..(0 + 17) THEN v[k - 0] ELSE s[k]]
        BY <1>3 DEF Push
    <2>2. \A k \in 1..17 : k \in 1..Depth /\ k \in (0 + 1)..(0 + 17) /\ k - 0 = k
        BY <1>1
    <2> HIDE DEF t
    <2> QED BY <2>1, <2>2
<1> HIDE DEF t
<1>5. ASSUME NEW r \in Register PROVE t[Tf(r)] = rg[r]
    <2>1. Tf(r) \in 1..17 /\ Entry[Tf(r)] = r
        BY EntryFields, TfFinds
    <2> QED BY <1>2, <1>4, <2>1
<1> QED BY <1>4, <1>5 DEF t, v

(***************************************************************************)
(* The words switch_to pushes, behind those of before.                     *)
(***************************************************************************)
Words(before, rg, ret) == before \o <<At("next"), At("prev"), At(ret)>> \o Values(rg, Saved)

(***************************************************************************)
(* Where each of the words is.                                             *)
(***************************************************************************)
LEMMA SwitchWords ==
    ASSUME NEW S, NEW before \in Seq(S), NEW rg, NEW ret
    PROVE  /\ Len(Words(before, rg, ret)) = Len(before) + 7 /\ Len(before) \in Nat
           /\ \A k \in 1..Len(before) : Words(before, rg, ret)[k] = before[k]
           /\ Words(before, rg, ret)[Len(before) + 3] = At(ret)
           /\ Words(before, rg, ret)[Len(before) + 4] = rg["ebx"]
<1> DEFINE a == <<At("next"), At("prev"), At(ret)>>
           v == Values(rg, Saved)
           V == {rg["ebx"], rg["ebp"], rg["esi"], rg["edi"]}
           T == S \cup V \cup {At("next"), At("prev"), At(ret)}
           u == before \o a
           words == u \o v
<1>1. before \in Seq(T) /\ Len(before) \in Nat
    BY DEF T
<1>2. a \in Seq(T) /\ Len(a) = 3 /\ a[3] = At(ret)
    <2>1. At("next") \in T /\ At("prev") \in T /\ At(ret) \in T
        BY DEF T
    <2> HIDE DEF T
    <2> QED BY <2>1
<1>3. v \in Seq(T) /\ Len(v) = 4 /\ v[1] = rg["ebx"]
    <2>1. DOMAIN Saved = 1..4 /\ Saved[1] = "ebx" /\ Saved[2] = "ebp" /\ Saved[3] = "esi" /\ Saved[4] = "edi"
        BY DEF Saved
    <2>2. v = [k \in 1..4 |-> rg[Saved[k]]]
        BY <2>1 DEF Values
    <2>3. \A k \in 1..4 : rg[Saved[k]] \in T
        BY <2>1 DEF T, V
    <2> HIDE DEF T, v
    <2>4. v \in [1..4 -> T]
        BY <2>2, <2>3
    <2>5. v \in Seq(T) /\ Len(v) = 4
        <3>1. v \in Seq(T)
            BY <2>4, SeqDef
        <3>2. DOMAIN v = 1..4
            BY <2>4
        <3> QED BY <3>1, <3>2, LenProperties
    <2> QED BY <2>1, <2>2, <2>5
<1> HIDE DEF a, v, T
<1>4. /\ u \in Seq(T) /\ Len(u) = Len(before) + 3
      /\ \A k \in 1..(Len(before) + 3) : u[k] = IF k <= Len(before) THEN before[k] ELSE a[k - Len(before)]
    <2>1. /\ u \in Seq(T) /\ Len(u) = Len(before) + Len(a)
          /\ \A k \in 1..(Len(before) + Len(a)) :
                u[k] = IF k <= Len(before) THEN before[k] ELSE a[k - Len(before)]
        BY <1>1, <1>2, ConcatProperties
    <2> HIDE DEF u
    <2> QED BY <1>2, <2>1
<1> HIDE DEF u
<1>5. /\ words \in Seq(T) /\ Len(words) = Len(u) + Len(v)
      /\ \A k \in 1..(Len(u) + Len(v)) : words[k] = IF k <= Len(u) THEN u[k] ELSE v[k - Len(u)]
    <2>1. u \in Seq(T) /\ v \in Seq(T)
        BY <1>3, <1>4
    <2> QED BY <2>1, ConcatProperties
<1> HIDE DEF words
<1>6. Len(words) = Len(before) + 7
    BY <1>1, <1>3, <1>4, <1>5
<1>7. \A k \in 1..Len(before) : words[k] = before[k]
    BY <1>1, <1>3, <1>4, <1>5
<1>8. words[Len(before) + 3] = At(ret)
    <2>1. Len(before) + 3 - Len(before) = 3 /\ ~(Len(before) + 3 <= Len(before))
        BY <1>1
    <2>2. u[Len(before) + 3] = a[3]
        BY <1>1, <1>4, <2>1
    <2>3. words[Len(before) + 3] = u[Len(before) + 3]
        <3>1. Len(before) + 3 \in 1..(Len(u) + Len(v)) /\ Len(before) + 3 <= Len(u)
            BY <1>1, <1>3, <1>4
        <3> QED BY <1>5, <3>1
    <2> QED BY <1>2, <2>2, <2>3
<1>9. words[Len(before) + 4] = rg["ebx"]
    <2>1. Len(before) + 4 - Len(u) = 1 /\ ~(Len(before) + 4 <= Len(u))
        BY <1>1, <1>4
    <2>2. words[Len(before) + 4] = v[1]
        <3>1. Len(before) + 4 \in 1..(Len(u) + Len(v))
            BY <1>1, <1>3, <1>4
        <3> QED BY <1>5, <2>1, <3>1
    <2> QED BY <1>3, <2>2
<1> QED BY <1>1, <1>6, <1>7, <1>8, <1>9 DEF Words, words, u, a, v

(***************************************************************************)
(* What switch_to does: it changes no stack but the one it runs on, keeps  *)
(* the words below the top there, and continues at the return address of   *)
(* the next context with the ebx saved in it.                              *)
(***************************************************************************)
Switched(sk, s, n, before, rg, prev, next, ret) ==
    /\ DOMAIN stk' = DOMAIN sk /\ DOMAIN stk'[s] = 1..Depth
    /\ \A x \in DOMAIN sk \ {s} : stk'[x] = sk[x]
    /\ \A k \in 1..n : stk'[s][k] = sk[s][k]
    /\ \A k \in (n + 1)..(n + Len(before)) : stk'[s][k] = before[k - n]
    /\ stk'[s][n + Len(before) + 3] = At(ret)
    /\ stk'[s][n + Len(before) + 4] = rg["ebx"]
    /\ ctx' = [ctx EXCEPT ![prev] = <<s, n + Len(before) + 7>>]
    /\ DOMAIN regs' = Register /\ regs'["ebx"] = sk[ctx[next][1]][ctx[next][2] - 3]
    /\ pc' = sk[ctx[next][1]][ctx[next][2] - 4]
    /\ esp' = <<ctx[next][1], ctx[next][2] - 5>>

(***************************************************************************)
(* switch_to has that effect if the words fit on the stack.                *)
(***************************************************************************)
LEMMA SwitchEffect ==
    ASSUME NEW S, NEW before \in Seq(S), NEW sk, NEW s \in DOMAIN sk, NEW n \in Nat,
           DOMAIN sk[s] = 1..Depth, n + Len(before) + 7 <= Depth,
           NEW rg, NEW prev, NEW next, NEW ret,
           ctx[next][1] \in DOMAIN sk \ {s}, ctx[next][2] \in Int,
           switch_to(sk, s, n, before, rg, prev, next, ret)
    PROVE  Switched(sk, s, n, before, rg, prev, next, ret)
<1> DEFINE words == Words(before, rg, ret)
           here == [sk EXCEPT ![s] = Push(@, n, words)]
           to == ctx[next]
           back == Popped(here[to[1]], to[2], Pops)
<1>1. /\ Len(words) = Len(before) + 7 /\ Len(before) \in Nat
      /\ \A k \in 1..Len(before) : words[k] = before[k]
      /\ words[Len(before) + 3] = At(ret)
      /\ words[Len(before) + 4] = rg["ebx"]
    BY SwitchWords
<1>2. /\ stk' = here
      /\ ctx' = [ctx EXCEPT ![prev] = <<s, n + Len(words)>>]
      /\ regs' = [r \in Register |->
                     CASE r \in ToSet(Pops) -> back[r]
                       [] r = "eax" -> At("&context")
                       [] r = "edx" -> At("context")
                       [] OTHER -> rg[r]]
      /\ pc' = here[to[1]][to[2] - Len(Pops)]
      /\ esp' = <<to[1], to[2] - Len(Pops) - 1>>
    BY DEF switch_to, Words
<1> HIDE DEF words
<1>3. Depth \in Nat
    BY ContextAssumption
<1>4. /\ DOMAIN here = DOMAIN sk /\ here[s] = Push(sk[s], n, words)
      /\ \A x \in DOMAIN sk \ {s} : here[x] = sk[x]
    OBVIOUS
<1> HIDE DEF here
<1>5. /\ DOMAIN here[s] = 1..Depth
      /\ \A k \in 1..n : here[s][k] = sk[s][k]
      /\ \A k \in 1..(Len(before) + 7) : here[s][n + k] = words[k]
    <2>1. /\ DOMAIN here[s] = 1..Depth
          /\ \A k \in 1..Depth : here[s][k] = IF k \in (n + 1)..(n + Len(words)) THEN words[k - n] ELSE sk[s][k]
        BY <1>4 DEF Push
    <2>2. \A k \in 1..n : here[s][k] = sk[s][k]
        BY <1>1, <1>3, <2>1
    <2>3. ASSUME NEW k \in 1..(Len(before) + 7) PROVE here[s][n + k] = words[k]
        <3>1. n + k \in 1..Depth /\ n + k \in (n + 1)..(n + Len(words)) /\ n + k - n = k
            BY <1>1, <1>3
        <3>2. here[s][n + k] = words[n + k - n]
            BY <2>1, <3>1
        <3> QED BY <3>1, <3>2
    <2> QED BY <2>1, <2>2, <2>3
<1>6. here[to[1]] = sk[to[1]]
    BY <1>4
<1>7. regs'["ebx"] = sk[to[1]][to[2] - 3] /\ DOMAIN regs' = Register
    <2>1. back["ebx"] = here[to[1]][to[2] + 1 - 4]
        BY PopsFields DEF Popped
    <2>2. to[2] + 1 - 4 = to[2] - 3
        OBVIOUS
    <2> HIDE DEF back, to
    <2> QED BY <1>2, <1>6, <2>1, <2>2, Names, PopsFields
<1>8. pc' = sk[to[1]][to[2] - 4] /\ esp' = <<to[1], to[2] - 5>>
    BY <1>2, <1>6, PopsFields
<1>9. /\ here[s][n + Len(before) + 3] = At(ret)
      /\ here[s][n + Len(before) + 4] = rg["ebx"]
    <2>1. /\ Len(before) + 3 \in 1..(Len(before) + 7) /\ Len(before) + 4 \in 1..(Len(before) + 7)
          /\ n + (Len(before) + 3) = n + Len(before) + 3 /\ n + (Len(before) + 4) = n + Len(before) + 4
        BY <1>1
    <2> QED BY <1>1, <1>5, <2>1
<1>10. ASSUME NEW k \in (n + 1)..(n + Len(before)) PROVE here[s][k] = before[k - n]
    <2>1. k - n \in 1..Len(before) /\ k - n \in 1..(Len(before) + 7) /\ n + (k - n) = k
        BY <1>1
    <2> QED BY <1>1, <1>5, <2>1
<1>11. n + Len(words) = n + Len(before) + 7
    BY <1>1
<1> QED BY <1>2, <1>4, <1>5, <1>7, <1>8, <1>9, <1>10, <1>11 DEF Switched

-----------------------------------------------------------------------------
(***************************************************************************)
(* The invariant by the place in the code.                                 *)
(***************************************************************************)
LEMMA Where ==
    ASSUME ContextInv
    PROVE  /\ pc = At("scheduler") => esp = <<Boot, 1>>
           /\ pc = At("sched_back") => esp = <<Boot, 3>> /\ regs["ebx"] = Num(curthread)
           /\ pc \notin {At("scheduler"), At("sched_back")} => Dispatched
           /\ pc = At("user") => esp = <<curthread, 0>> /\ ResumesWhole
           /\ pc \in {At("timer"), At("syscall"), At("trapret"), At("int20"), At("end_syscall")} =>
                 esp = <<curthread, 17>> /\ Framed(curthread)
           /\ pc = At("forkret") =>
                 /\ esp = <<curthread, 18>> /\ Framed(curthread)
                 /\ stk[curthread][18] = At("trapret")
           /\ pc = At("yield_back") =>
                 /\ Framed(curthread)
                 /\ \/ esp = <<curthread, 20>> /\ stk[curthread][18] = At("int20")
                    \/ /\ esp = <<curthread, 24>> /\ want[curthread]["eax"] = At("any")
                       /\ stk[curthread][22] = At("sys_execve") /\ stk[curthread][21] = At("execve")
           /\ pc = At("sys_execve") =>
                 /\ esp = <<curthread, 21>> /\ Framed(curthread) /\ want[curthread]["eax"] = At("any")
                 /\ stk[curthread][21] = At("execve")
           /\ pc = At("execve") =>
                 esp = <<curthread, 20>> /\ Framed(curthread) /\ want[curthread]["eax"] = At("any")
<1>1. CASE InScheduler
    BY <1>1, Places DEF InScheduler
<1>2. CASE Dispatched /\ InProcess
    <2>1. CASE pc = At("panic")
        BY <1>2, <2>1, Places
    <2>2. CASE pc = At("user") /\ esp = <<curthread, 0>> /\ ResumesWhole
        BY <1>2, <2>2, Places
    <2>3. CASE pc \in {At("timer"), At("syscall")} /\ esp = <<curthread, 17>> /\ Framed(curthread)
        BY <1>2, <2>3, Places
    <2>4. CASE \E n \in 17..24 : esp = <<curthread, n>> /\ Framed(curthread) /\ Unwinds(curthread, pc, n)
        BY <1>2, <2>4, Places DEF Unwinds
    <2> QED BY <1>2, <2>1, <2>2, <2>3, <2>4 DEF InProcess
<1> QED BY <1>1, <1>2 DEF ContextInv

(***************************************************************************)
(* A process that waits is not affected by steps that leave its stack, its *)
(* context and what it must resume with alone.                             *)
(***************************************************************************)
LEMMA ResumableKept ==
    ASSUME NEW p, Resumable(p), stk'[p] = stk[p], ctx'[p] = ctx[p], want'[p] = want[p]
    PROVE  Resumable(p)'
BY DEF Resumable, Framed, Unwinds

(***************************************************************************)
(* Nor is a frame by what lies beneath it.                                 *)
(***************************************************************************)
LEMMA FramedKept ==
    ASSUME NEW p, Framed(p), \A k \in 1..17 : stk'[p][k] = stk[p][k], want'[p] = want[p]
    PROVE  Framed(p)'
<1>1. \A r \in Register : stk'[p][Tf(r)] = stk[p][Tf(r)]
    BY TfFinds
<1> QED BY <1>1 DEF Framed

(***************************************************************************)
(* The processes are not the boot stack.                                   *)
(***************************************************************************)
LEMMA BootApart == Boot \notin Procs /\ 1 \in Procs
BY ContextAssumption DEF Boot, Procs

(***************************************************************************)
(* The scheduler's switch to p.                                            *)
(***************************************************************************)
LEMMA SchedulerStep ==
    ASSUME ContextInv, Scheduler
    PROVE  ContextInv'
<1>1. PICK p \in Procs :
        /\ state[p] = "READY" /\ curthread' = p
        /\ state' = [state EXCEPT ![p] = "RUNNING"]
        /\ tss' = SetEsp0(p)
        /\ switch_to(stk, Boot, esp[2], <<>>, [regs EXCEPT !["ebx"] = Num(p)], Boot, p, "sched_back")
    BY DEF Scheduler
<1>2. esp[2] = 1 /\ pc = At("scheduler") /\ UNCHANGED want
    BY Where DEF Scheduler
<1>3. Shapes /\ Resumable(p) /\ \A q \in Procs : state[q] = "READY" => Resumable(q)
    BY <1>1 DEF ContextInv
<1> DEFINE rg == [regs EXCEPT !["ebx"] = Num(p)]
           m == ctx[p][2]
<1>4. rg["ebx"] = Num(p)
    BY <1>3, Names DEF Shapes
<1>5. ctx[p][1] = p /\ m \in 22..29 /\ p # Boot
    BY <1>3, BootApart DEF Resumable
<1>6. /\ <<>> \in Seq({}) /\ Len(<<>>) = 0
      /\ 1 + Len(<<>>) + 7 <= Depth /\ 1 + 0 + 3 = 4 /\ 1 + 0 + 4 = 5 /\ 1 + 0 + 7 = 8
    BY ContextAssumption, EmptySeq
<1>7. /\ DOMAIN stk' = DOMAIN stk /\ DOMAIN stk'[Boot] = 1..Depth
      /\ \A x \in DOMAIN stk \ {Boot} : stk'[x] = stk[x]
      /\ stk'[Boot][4] = At("sched_back")
      /\ stk'[Boot][5] = rg["ebx"]
      /\ ctx' = [ctx EXCEPT ![Boot] = <<Boot, 8>>]
      /\ DOMAIN regs' = Register
      /\ pc' = stk[p][m - 4]
      /\ esp' = <<p, m - 5>>
    <2> HIDE DEF rg
    <2>1. /\ Boot \in DOMAIN stk /\ DOMAIN stk[Boot] = 1..Depth /\ 1 \in Nat
          /\ ctx[p][1] \in DOMAIN stk \ {Boot} /\ ctx[p][2] \in Int
        BY <1>3, <1>5 DEF Shapes
    <2>2. PICK b \in Seq({}), n \in Nat : b = <<>> /\ Len(b) = 0 /\ n = 1
        BY <1>6
    <2>3. switch_to(stk, Boot, n, b, rg, Boot, p, "sched_back")
        BY <1>1, <1>2, <2>2 DEF rg
    <2>4. n + Len(b) + 7 <= Depth /\ n + Len(b) + 3 = 4 /\ n + Len(b) + 4 = 5 /\ n + Len(b) + 7 = 8
        BY <1>6, <2>2
    <2>5. Switched(stk, Boot, n, b, rg, Boot, p, "sched_back")
        BY <2>1, <2>3, <2>4, SwitchEffect
    <2> QED BY <1>5, <2>4, <2>5 DEF Switched
<1> HIDE DEF rg
<1>8. Shapes'
    <2>1. DOMAIN tss' = DOMAIN task_state_segment
        BY <1>1, <1>3 DEF Shapes, SetEsp0
    <2> QED BY <1>1, <1>2, <1>3, <1>7, <2>1 DEF Shapes
<1>9. ASSUME NEW q \in Procs, state'[q] = "READY"
      PROVE  Resumable(q)'
    <2>1. q # p /\ state[q] = "READY" /\ q # Boot
        BY <1>1, <1>3, <1>9, BootApart DEF Shapes
    <2>2. stk'[q] = stk[q] /\ ctx'[q] = ctx[q] /\ want'[q] = want[q]
        BY <1>2, <1>3, <1>7, <2>1 DEF Shapes
    <2> QED BY <1>3, <2>1, <2>2, ResumableKept
<1>10. Dispatched'
    <2>1. tss'[2] = p
        BY <1>1, <1>3, Esp0Field DEF Shapes, SetEsp0
    <2> QED BY <1>1, <1>3, <1>4, <1>7, <2>1 DEF Dispatched, Shapes
<1>11. InProcess'
    <2>1. stk'[p] = stk[p] /\ want'[p] = want[p]
        BY <1>2, <1>3, <1>5, <1>7 DEF Shapes
    <2>2. PICK n \in 17..24 : n = m - 5
        BY <1>5
    <2> PICK place : place = stk[p][m - 4]
        OBVIOUS
    <2>3. Framed(p) /\ Unwinds(p, place, n)
        BY <1>3, <2>2 DEF Resumable
    <2>4. Framed(p)' /\ Unwinds(p, place, n)'
        BY <2>1, <2>3 DEF Framed, Unwinds
    <2>5. pc' = place /\ esp' = <<p, n>>
        BY <1>7, <2>2
    <2> QED BY <1>1, <2>4, <2>5 DEF InProcess
<1> QED BY <1>8, <1>9, <1>10, <1>11 DEF ContextInv

(***************************************************************************)
(* A switch from the process with the words of before on its frame to the  *)
(* scheduler, which continues behind its call of switch_to with the        *)
(* process in ebx.  sk are the stacks before the switch.                   *)
(***************************************************************************)
Yielded(sk, before, st) ==
    /\ DOMAIN stk' = {Boot} \cup Procs /\ DOMAIN stk'[curthread] = 1..Depth
    /\ \A x \in ({Boot} \cup Procs) \ {curthread} : stk'[x] = stk[x]
    /\ \A k \in 1..17 : stk'[curthread][k] = sk[curthread][k]
    /\ \A k \in 18..(17 + Len(before)) : stk'[curthread][k] = before[k - 17]
    /\ stk'[curthread][20 + Len(before)] = At("yield_back")
    /\ ctx' = [ctx EXCEPT ![curthread] = <<curthread, 24 + Len(before)>>]
    /\ pc' = At("sched_back") /\ esp' = <<Boot, 3>>
    /\ DOMAIN regs' = Register /\ regs'["ebx"] = Num(curthread)
    /\ state' = [state EXCEPT ![curthread] = st]

(***************************************************************************)
(* yield is such a switch.                                                 *)
(***************************************************************************)
LEMMA YieldEffect ==
    ASSUME ContextInv, Dispatched, esp = <<curthread, 17>>,
           NEW S, NEW before \in Seq(S), Len(before) <= 5,
           NEW sk, DOMAIN sk = {Boot} \cup Procs, DOMAIN sk[curthread] = 1..Depth,
           \A x \in ({Boot} \cup Procs) \ {curthread} : sk[x] = stk[x],
           NEW st, yield(sk, before, st)
    PROVE  Yielded(sk, before, st)
<1> PICK n \in Nat : n = 17
    OBVIOUS
<1>1. /\ curthread \in DOMAIN sk /\ ctx[Boot][1] = Boot /\ ctx[Boot][2] = 8
      /\ Boot \in DOMAIN sk \ {curthread}
      /\ stk[Boot][4] = At("sched_back") /\ stk[Boot][5] = Num(curthread)
    BY BootApart DEF Dispatched
<1>2. switch_to(sk, curthread, n, before, regs, curthread, Boot, "yield_back")
    BY DEF yield
<1>3. Len(before) \in Nat /\ n + Len(before) + 7 <= Depth
    BY ContextAssumption
<1>4. ctx[Boot][1] \in DOMAIN sk \ {curthread} /\ ctx[Boot][2] \in Int
    BY <1>1
<1>5. /\ DOMAIN stk' = DOMAIN sk /\ DOMAIN stk'[curthread] = 1..Depth
      /\ \A x \in DOMAIN sk \ {curthread} : stk'[x] = sk[x]
      /\ \A k \in 1..n : stk'[curthread][k] = sk[curthread][k]
      /\ \A k \in (n + 1)..(n + Len(before)) : stk'[curthread][k] = before[k - n]
      /\ stk'[curthread][n + Len(before) + 3] = At("yield_back")
      /\ ctx' = [ctx EXCEPT ![curthread] = <<curthread, n + Len(before) + 7>>]
      /\ DOMAIN regs' = Register /\ regs'["ebx"] = sk[ctx[Boot][1]][ctx[Boot][2] - 3]
      /\ pc' = sk[ctx[Boot][1]][ctx[Boot][2] - 4]
      /\ esp' = <<ctx[Boot][1], ctx[Boot][2] - 5>>
    <2>1. PICK c \in DOMAIN sk : c = curthread
        BY <1>1
    <2>2. PICK rg : rg = regs
        OBVIOUS
    <2>3. switch_to(sk, c, n, before, rg, c, Boot, "yield_back") /\ DOMAIN sk[c] = 1..Depth
        BY <1>2, <2>1, <2>2
    <2>4. ctx[Boot][1] \in DOMAIN sk \ {c} /\ ctx[Boot][2] \in Int
        BY <1>4, <2>1
    <2>5. Switched(sk, c, n, before, rg, c, Boot, "yield_back")
        BY <1>3, <2>3, <2>4, SwitchEffect
    <2> QED BY <2>1, <2>5 DEF Switched
<1>6. n + Len(before) + 3 = 20 + Len(before) /\ n + Len(before) + 7 = 24 + Len(before)
    BY <1>3
<1>7. sk[Boot] = stk[Boot] /\ 8 - 3 = 5 /\ 8 - 4 = 4 /\ 8 - 5 = 3
    BY <1>1
<1>8. state' = [state EXCEPT ![curthread] = st]
    BY DEF yield
<1>9. ASSUME NEW k \in 18..(17 + Len(before)) PROVE stk'[curthread][k] = before[k - 17]
    <2>1. k \in (n + 1)..(n + Len(before)) /\ k - n = k - 17
        BY <1>3
    <2>2. stk'[curthread][k] = before[k - n]
        BY <1>5, <2>1
    <2> QED BY <2>1, <2>2
<1>10. \A x \in ({Boot} \cup Procs) \ {curthread} : stk'[x] = stk[x]
    BY <1>5
<1>11. /\ stk'[curthread][20 + Len(before)] = At("yield_back")
       /\ ctx' = [ctx EXCEPT ![curthread] = <<curthread, 24 + Len(before)>>]
    BY <1>5, <1>6
<1>13. /\ pc' = At("sched_back") /\ esp' = <<Boot, 3>>
       /\ DOMAIN regs' = Register /\ regs'["ebx"] = Num(curthread)
    <2>1. ctx[Boot][2] - 3 = 5 /\ ctx[Boot][2] - 4 = 4 /\ ctx[Boot][2] - 5 = 3
        BY <1>1
    <2>2. /\ pc' = sk[Boot][4] /\ esp' = <<Boot, 3>>
          /\ DOMAIN regs' = Register /\ regs'["ebx"] = sk[Boot][5]
        BY <1>1, <1>5, <2>1
    <2> QED BY <1>1, <1>7, <2>2
<1>12. \A k \in 1..17 : stk'[curthread][k] = sk[curthread][k]
    BY <1>5
<1> QED BY <1>5, <1>8, <1>9, <1>10, <1>11, <1>12, <1>13 DEF Yielded

(***************************************************************************)
(* It keeps the invariant if the process can be resumed, or never is.      *)
(***************************************************************************)
LEMMA YieldKeeps ==
    ASSUME ContextInv, Dispatched, NEW st \in {"READY", "DEAD"},
           NEW sk, NEW before, Yielded(sk, before, st),
           UNCHANGED <<tss, curthread>>, DOMAIN want' = Procs,
           \A p \in Procs : DOMAIN want'[p] = Register /\ want'[p]["__esp"] = Num(0),
           \A p \in Procs \ {curthread} : want'[p] = want[p],
           st = "READY" => Resumable(curthread)'
    PROVE  ContextInv'
<1>1. Shapes /\ curthread \in Procs /\ \A p \in Procs : state[p] = "READY" => Resumable(p)
    BY DEF ContextInv, Dispatched
<1>2. /\ DOMAIN stk' = {Boot} \cup Procs /\ DOMAIN stk'[curthread] = 1..Depth
      /\ \A x \in ({Boot} \cup Procs) \ {curthread} : stk'[x] = stk[x]
      /\ DOMAIN ctx' = DOMAIN ctx /\ \A p \in Procs \ {curthread} : ctx'[p] = ctx[p]
      /\ DOMAIN regs' = Register
      /\ state' = [state EXCEPT ![curthread] = st]
    BY <1>1 DEF Yielded, Shapes
<1>3. Shapes'
    <2>1. \A x \in {Boot} \cup Procs : DOMAIN stk'[x] = 1..Depth
        BY <1>1, <1>2 DEF Shapes
    <2>2. state' \in [Procs -> {"none", "READY", "RUNNING", "DEAD"}]
        BY <1>1, <1>2 DEF Shapes
    <2> QED BY <1>1, <1>2, <2>1, <2>2 DEF Shapes
<1>4. ASSUME NEW p \in Procs, state'[p] = "READY" PROVE Resumable(p)'
    <2>1. CASE p = curthread
        <3>1. st = "READY"
            BY <1>1, <1>2, <1>4, <2>1 DEF Shapes
        <3> QED BY <2>1, <3>1
    <2>2. CASE p # curthread
        <3>1. state[p] = "READY"
            BY <1>1, <1>2, <1>4, <2>2 DEF Shapes
        <3>2. stk'[p] = stk[p] /\ ctx'[p] = ctx[p] /\ want'[p] = want[p]
            BY <1>2, <2>2
        <3> QED BY <1>1, <3>1, <3>2, ResumableKept
    <2> QED BY <2>1, <2>2
<1>5. InScheduler'
    BY DEF Yielded, InScheduler
<1> QED BY <1>3, <1>4, <1>5 DEF ContextInv

(***************************************************************************)
(* The timer preempts the process.                                         *)
(***************************************************************************)
LEMMA TimerStep ==
    ASSUME ContextInv, Timer
    PROVE  ContextInv'
<1>1. pc = At("timer") /\ yield(stk, <<At("int20")>>, "READY") /\ UNCHANGED <<tss, curthread, want>>
    BY DEF Timer
<1>2. esp = <<curthread, 17>> /\ Framed(curthread) /\ Dispatched /\ curthread \in Procs /\ Shapes
    BY <1>1, Where, Places DEF Dispatched, ContextInv
<1>3. PICK b \in Seq({At("int20")}) : b = <<At("int20")>> /\ Len(b) = 1 /\ b[1] = At("int20")
    <2>1. <<At("int20")>> \in Seq({At("int20")})
        OBVIOUS
    <2> QED BY <2>1
<1>4. Yielded(stk, b, "READY")
    <2>1. yield(stk, b, "READY")
        BY <1>1, <1>3
    <2>2. Len(b) <= 5
        BY <1>3
    <2>3. DOMAIN stk = {Boot} \cup Procs /\ DOMAIN stk[curthread] = 1..Depth
        BY <1>2 DEF Shapes
    <2> QED BY <1>2, <2>1, <2>2, <2>3, YieldEffect
<1>5. Resumable(curthread)'
    <2>1. /\ \A k \in 1..17 : stk'[curthread][k] = stk[curthread][k]
          /\ stk'[curthread][18] = At("int20") /\ stk'[curthread][21] = At("yield_back")
          /\ ctx'[curthread][1] = curthread /\ ctx'[curthread][2] = 25
        <3>1. 18 \in 18..(17 + Len(b)) /\ 18 - 17 = 1 /\ 20 + Len(b) = 21 /\ 24 + Len(b) = 25
            BY <1>3
        <3>2. curthread \in DOMAIN ctx
            BY <1>2 DEF Shapes
        <3> QED BY <1>3, <1>4, <3>1, <3>2 DEF Yielded
    <2>2. Framed(curthread)'
        BY <1>1, <1>2, <2>1, FramedKept
    <2> QED BY <1>1, <2>1, <2>2 DEF Resumable, Unwinds
<1>6. /\ DOMAIN want' = Procs
      /\ \A p \in Procs : DOMAIN want'[p] = Register /\ want'[p]["__esp"] = Num(0) /\ want'[p] = want[p]
    BY <1>1, <1>2 DEF Shapes
<1> QED BY <1>1, <1>2, <1>4, <1>5, <1>6, YieldKeeps

(***************************************************************************)
(* exit leaves a stack nobody returns to.                                  *)
(***************************************************************************)
LEMMA ExitStep ==
    ASSUME ContextInv, Exit
    PROVE  ContextInv'
<1>1. /\ pc = At("syscall") /\ UNCHANGED <<tss, curthread, want>>
      /\ yield(stk, <<regs["ecx"], At("exit"), At("sys_exit")>>, "DEAD")
    BY DEF Exit, Syscall
<1>2. esp = <<curthread, 17>> /\ Dispatched /\ curthread \in Procs /\ Shapes
    BY <1>1, Where, Places DEF Dispatched, ContextInv
<1> DEFINE S == {regs["ecx"], At("exit"), At("sys_exit")}
<1>3. PICK b \in Seq(S) : b = <<regs["ecx"], At("exit"), At("sys_exit")>> /\ Len(b) = 3
    <2>1. <<regs["ecx"], At("exit"), At("sys_exit")>> \in Seq(S)
        OBVIOUS
    <2> HIDE DEF S
    <2> QED BY <2>1
<1> HIDE DEF S
<1>4. Yielded(stk, b, "DEAD")
    <2>1. yield(stk, b, "DEAD")
        BY <1>1, <1>3
    <2>2. Len(b) <= 5
        BY <1>3
    <2>3. DOMAIN stk = {Boot} \cup Procs /\ DOMAIN stk[curthread] = 1..Depth
        BY <1>2 DEF Shapes
    <2> QED BY <1>2, <2>1, <2>2, <2>3, YieldEffect
<1>6. /\ DOMAIN want' = Procs
      /\ \A p \in Procs : DOMAIN want'[p] = Register /\ want'[p]["__esp"] = Num(0) /\ want'[p] = want[p]
    BY <1>1, <1>2 DEF Shapes
<1> QED BY <1>1, <1>2, <1>4, <1>6, YieldKeeps

(***************************************************************************)
(* execve: loadelf's two stores go to the words of the frame they are      *)
(* meant for, and the rest of the frame is untouched by the switch.        *)
(***************************************************************************)
LEMMA ExecveStep ==
    ASSUME ContextInv, Execve
    PROVE  ContextInv'
<1> DEFINE sk == [stk EXCEPT ![curthread][Tf("eip")] = At("entry"), ![curthread][Tf("esp")] = At("top")]
           bf == <<regs["edx"], regs["ecx"], regs["ebx"], At("execve"), At("sys_execve")>>
<1>1. /\ pc = At("syscall") /\ UNCHANGED <<tss, curthread>>
      /\ yield(sk, bf, "READY")
      /\ want' = [want EXCEPT ![curthread]["eip"] = At("entry"), ![curthread]["esp"] = At("top"),
                              ![curthread]["eax"] = At("any")]
    BY DEF Execve, Syscall
<1>2. esp = <<curthread, 17>> /\ Framed(curthread) /\ Dispatched /\ curthread \in Procs /\ Shapes
    BY <1>1, Where, Places DEF Dispatched, ContextInv
<1>3. /\ DOMAIN sk = {Boot} \cup Procs
      /\ \A x \in ({Boot} \cup Procs) \ {curthread} : sk[x] = stk[x]
      /\ sk[curthread] = [stk[curthread] EXCEPT ![Tf("eip")] = At("entry"), ![Tf("esp")] = At("top")]
    BY <1>2 DEF Shapes
<1>4. /\ DOMAIN sk[curthread] = 1..Depth
      /\ sk[curthread][Tf("eip")] = At("entry") /\ sk[curthread][Tf("esp")] = At("top")
      /\ \A r \in Register \ {"eip", "esp"} : sk[curthread][Tf(r)] = stk[curthread][Tf(r)]
    <2> HIDE DEF sk
    <2>1. DOMAIN stk[curthread] = 1..Depth /\ 17 <= Depth /\ Depth \in Nat
        BY <1>2, ContextAssumption DEF Shapes
    <2>2. /\ \A r \in Register : Tf(r) \in 1..Depth
          /\ \A q, r \in Register : Tf(q) = Tf(r) => q = r
        BY <2>1, TfFinds
    <2>3. "eip" \in Register /\ "esp" \in Register /\ "eip" # "esp"
        BY Names
    <2>4. Tf("eip") # Tf("esp")
        BY <2>2, <2>3
    <2> QED BY <1>3, <2>1, <2>2, <2>3, <2>4
<1> HIDE DEF sk
<1> DEFINE S == {regs["edx"], regs["ecx"], regs["ebx"], At("execve"), At("sys_execve")}
<1>5. PICK b \in Seq(S) : b = bf /\ Len(b) = 5 /\ b[4] = At("execve") /\ b[5] = At("sys_execve")
    <2>1. bf \in Seq(S) /\ Len(bf) = 5 /\ bf[4] = At("execve") /\ bf[5] = At("sys_execve")
        OBVIOUS
    <2> HIDE DEF S, bf
    <2> QED BY <2>1
<1> HIDE DEF S, bf
<1>6. Yielded(sk, b, "READY")
    <2>1. yield(sk, b, "READY")
        BY <1>1, <1>5
    <2>2. Len(b) <= 5
        BY <1>5
    <2> QED BY <1>2, <1>3, <1>4, <2>1, <2>2, YieldEffect
<1>7. /\ DOMAIN want' = Procs /\ DOMAIN want'[curthread] = Register
      /\ \A p \in Procs \ {curthread} : want'[p] = want[p]
      /\ want'[curthread]["eip"] = At("entry") /\ want'[curthread]["esp"] = At("top")
      /\ want'[curthread]["eax"] = At("any")
      /\ \A r \in Register \ {"eip", "esp", "eax"} : want'[curthread][r] = want[curthread][r]
    BY <1>1, <1>2, Names DEF Shapes
<1>8. \A p \in Procs : DOMAIN want'[p] = Register /\ want'[p]["__esp"] = Num(0)
    BY <1>2, <1>7, Names DEF Shapes
<1>9. Resumable(curthread)'
    <2>1. /\ \A k \in 1..17 : stk'[curthread][k] = sk[curthread][k]
          /\ stk'[curthread][21] = At("execve") /\ stk'[curthread][22] = At("sys_execve")
          /\ stk'[curthread][25] = At("yield_back")
          /\ ctx'[curthread][1] = curthread /\ ctx'[curthread][2] = 29
        <3>1. /\ 21 \in 18..(17 + Len(b)) /\ 21 - 17 = 4 /\ 22 \in 18..(17 + Len(b)) /\ 22 - 17 = 5
              /\ 20 + Len(b) = 25 /\ 24 + Len(b) = 29
            BY <1>5
        <3>2. curthread \in DOMAIN ctx
            BY <1>2 DEF Shapes
        <3> QED BY <1>5, <1>6, <3>1, <3>2 DEF Yielded
    <2>2. \A r \in Register : stk'[curthread][Tf(r)] = sk[curthread][Tf(r)]
        BY <2>1, TfFinds
    <2>3. \A r \in Register \ {"__esp", "eax"} : stk'[curthread][Tf(r)] = want'[curthread][r]
        BY <1>2, <1>4, <1>7, <2>2 DEF Framed
    <2>4. Framed(curthread)'
        BY <1>1, <1>7, <2>3 DEF Framed
    <2>5. 29 \in 22..29 /\ 29 - 4 = 25 /\ 29 - 5 = 24
        OBVIOUS
    <2>6. Unwinds(curthread, stk[curthread][25], 24)'
        BY <1>1, <1>7, <2>1 DEF Unwinds
    <2> QED BY <1>1, <2>1, <2>4, <2>5, <2>6 DEF Resumable
<1> QED BY <1>1, <1>2, <1>6, <1>7, <1>8, <1>9, YieldKeeps

-----------------------------------------------------------------------------
(***************************************************************************)
(* Steps of the running process that leave the processor with it.          *)
(***************************************************************************)

(***************************************************************************)
(* They keep the invariant if they leave the other processes alone.        *)
(***************************************************************************)
LEMMA RunningKeeps ==
    ASSUME ContextInv, Dispatched,
           DOMAIN regs' = Register, DOMAIN stk' = {Boot} \cup Procs, DOMAIN stk'[curthread] = 1..Depth,
           \A x \in ({Boot} \cup Procs) \ {curthread} : stk'[x] = stk[x],
           DOMAIN want' = Procs, DOMAIN want'[curthread] = Register,
           want'[curthread]["__esp"] = Num(0),
           \A p \in Procs \ {curthread} : want'[p] = want[p],
           UNCHANGED <<ctx, tss, curthread, state>>, InProcess'
    PROVE  ContextInv'
<1>1. Shapes /\ curthread \in Procs /\ \A p \in Procs : state[p] = "READY" => Resumable(p)
    BY DEF ContextInv, Dispatched
<1>2. Shapes'
    BY <1>1 DEF Shapes
<1>3. ASSUME NEW p \in Procs, state'[p] = "READY" PROVE Resumable(p)'
    <2>1. state[p] = "READY" /\ p # curthread
        BY <1>3 DEF Dispatched
    <2>2. stk'[p] = stk[p] /\ ctx'[p] = ctx[p] /\ want'[p] = want[p]
        BY <2>1
    <2> QED BY <1>1, <2>1, <2>2, ResumableKept
<1>4. Dispatched'
    <2>1. stk'[Boot] = stk[Boot]
        BY <1>1, BootApart
    <2> QED BY <2>1 DEF Dispatched
<1> QED BY <1>2, <1>3, <1>4 DEF ContextInv

(***************************************************************************)
(* A gate: the frame lies where p->tf points, because tss.esp0 is the top  *)
(* of the process's stack.                                                 *)
(***************************************************************************)
LEMMA EnterStep ==
    ASSUME ContextInv, NEW t, NEW call, NEW place \in {"timer", "syscall"},
           Enter(User(t, call), place)
    PROVE  ContextInv'
<1> DEFINE rg == User(t, call)
<1>1. DOMAIN rg = Register /\ rg["__esp"] = Num(0)
    BY Names DEF User
<1> HIDE DEF rg
<1>2. /\ pc = At("user") /\ regs' = rg
      /\ stk' = [stk EXCEPT ![tss[2]] = Push(@, 0, Values(rg, Entry))]
      /\ esp' = <<tss[2], Len(Entry)>>
      /\ pc' = At(place)
      /\ want' = [want EXCEPT ![curthread] = rg]
      /\ UNCHANGED <<ctx, tss, curthread, state>>
    BY DEF Enter, RingZeroStack, rg
<1>3. Dispatched /\ curthread \in Procs /\ tss[2] = curthread /\ Shapes
    BY <1>2, Where, Places DEF Dispatched, ContextInv
<1>4. DOMAIN stk[curthread] = 1..Depth /\ curthread \in DOMAIN stk /\ DOMAIN stk = {Boot} \cup Procs
    BY <1>3 DEF Shapes
<1> DEFINE w == Push(stk[curthread], 0, Values(rg, Entry))
<1>5. DOMAIN w = 1..Depth /\ \A r \in Register : w[Tf(r)] = rg[r]
    BY <1>4, GateWords
<1> HIDE DEF w
<1>6. /\ DOMAIN stk' = {Boot} \cup Procs /\ stk'[curthread] = w
      /\ \A x \in ({Boot} \cup Procs) \ {curthread} : stk'[x] = stk[x]
    BY <1>2, <1>3, <1>4 DEF w
<1>7. /\ DOMAIN want' = Procs /\ want'[curthread] = rg
      /\ \A p \in Procs \ {curthread} : want'[p] = want[p]
    BY <1>2, <1>3 DEF Shapes
<1>8. InProcess'
    <2>1. Framed(curthread)'
        <3>1. \A r \in Register : stk'[curthread][Tf(r)] = want'[curthread][r]
            BY <1>5, <1>6, <1>7
        <3> QED BY <1>2, <3>1 DEF Framed
    <2>2. esp' = <<curthread, 17>> /\ pc' \in {At("timer"), At("syscall")}
        BY <1>2, <1>3, EntryFields
    <2> QED BY <1>2, <2>1, <2>2 DEF InProcess
<1> QED BY <1>1, <1>2, <1>3, <1>5, <1>6, <1>7, <1>8, RunningKeeps

(***************************************************************************)
(* A call that returns stores its result in the word of eax.               *)
(***************************************************************************)
LEMMA ResultWords ==
    ASSUME ContextInv, Dispatched, Framed(curthread), esp = <<curthread, 17>>,
           NEW sk, DOMAIN sk = {Boot} \cup Procs, sk[curthread] = stk[curthread],
           NEW v, Result(sk, v),
           DOMAIN want' = Procs, want'[curthread] = [want[curthread] EXCEPT !["eax"] = v]
    PROVE  /\ DOMAIN regs' = Register
           /\ DOMAIN stk' = {Boot} \cup Procs /\ DOMAIN stk'[curthread] = 1..Depth
           /\ \A x \in ({Boot} \cup Procs) \ {curthread} : stk'[x] = sk[x]
           /\ DOMAIN want'[curthread] = Register /\ want'[curthread]["__esp"] = Num(0)
           /\ UNCHANGED <<tss, curthread>> /\ pc' = At("end_syscall")
           /\ InProcess'
<1>1. Shapes /\ curthread \in Procs
    BY DEF ContextInv, Dispatched
<1>2. /\ regs' = [regs EXCEPT !["eax"] = v]
      /\ stk' = [sk EXCEPT ![curthread] = [@ EXCEPT ![10] = v]]
      /\ pc' = At("end_syscall") /\ UNCHANGED <<esp, tss, curthread>>
    <2>1. esp[1] = curthread /\ esp[2] - 7 = 10
        OBVIOUS
    <2>2. stk' = [sk EXCEPT ![esp[1]] = [@ EXCEPT ![esp[2] - 7] = v]]
        BY DEF Result, Store
    <2>3. stk' = [sk EXCEPT ![curthread] = [@ EXCEPT ![10] = v]]
        BY <2>1, <2>2
    <2> QED BY <2>3 DEF Result
<1>3. DOMAIN regs' = Register
    BY <1>1, <1>2 DEF Shapes
<1>4. /\ DOMAIN stk' = {Boot} \cup Procs
      /\ \A x \in ({Boot} \cup Procs) \ {curthread} : stk'[x] = sk[x]
      /\ stk'[curthread] = [stk[curthread] EXCEPT ![10] = v]
    BY <1>1, <1>2
<1>5. DOMAIN stk[curthread] = 1..Depth /\ 10 \in 1..Depth
    BY <1>1, ContextAssumption DEF Shapes
<1>6. /\ DOMAIN stk'[curthread] = 1..Depth
      /\ stk'[curthread][10] = v
      /\ \A k \in 1..Depth \ {10} : stk'[curthread][k] = stk[curthread][k]
    BY <1>4, <1>5
<1>7. /\ DOMAIN want'[curthread] = Register /\ want'[curthread]["eax"] = v
      /\ \A r \in Register \ {"eax"} : want'[curthread][r] = want[curthread][r]
    BY <1>1, Names DEF Shapes
<1>8. want'[curthread]["__esp"] = Num(0)
    BY <1>1, <1>7, Names DEF Shapes
<1>9. Framed(curthread)'
    <2>1. ASSUME NEW r \in Register \ {"__esp", "eax"}
          PROVE  stk'[curthread][Tf(r)] = want'[curthread][r]
        <3>1. Tf(r) \in 1..Depth \ {10}
            BY Names, TfFinds, ContextAssumption
        <3> QED BY <1>6, <1>7, <3>1 DEF Framed
    <2>2. stk'[curthread][Tf("eax")] = want'[curthread]["eax"]
        BY <1>6, <1>7, Names
    <2> QED BY <1>2, <2>1, <2>2 DEF Framed
<1>10. Unwinds(curthread, pc, 17)'
    BY <1>2 DEF Unwinds
<1>11. InProcess'
    <2>1. 17 \in 17..24
        OBVIOUS
    <2> QED BY <1>2, <1>9, <1>10, <2>1 DEF InProcess
<1> QED BY <1>2, <1>3, <1>4, <1>6, <1>7, <1>8, <1>11

(***************************************************************************)
(* write and the calls like it, and fork and execve when they fail.        *)
(***************************************************************************)
LEMMA ReturnStep ==
    ASSUME ContextInv, pc = At("syscall"), NEW v, Result(stk, v),
           want' = [want EXCEPT ![curthread]["eax"] = v], UNCHANGED <<ctx, state>>
    PROVE  ContextInv'
<1>1. esp = <<curthread, 17>> /\ Framed(curthread) /\ Dispatched /\ curthread \in Procs /\ Shapes
    BY Where, Places DEF Dispatched, ContextInv
<1>2. /\ DOMAIN want' = Procs /\ want'[curthread] = [want[curthread] EXCEPT !["eax"] = v]
      /\ \A p \in Procs \ {curthread} : want'[p] = want[p]
    BY <1>1 DEF Shapes
<1>3. DOMAIN stk = {Boot} \cup Procs
    BY <1>1 DEF Shapes
<1>4. /\ DOMAIN regs' = Register
      /\ DOMAIN stk' = {Boot} \cup Procs /\ DOMAIN stk'[curthread] = 1..Depth
      /\ \A x \in ({Boot} \cup Procs) \ {curthread} : stk'[x] = stk[x]
      /\ DOMAIN want'[curthread] = Register /\ want'[curthread]["__esp"] = Num(0)
      /\ UNCHANGED <<tss, curthread>> /\ InProcess'
    BY <1>1, <1>2, <1>3, ResultWords
<1> QED BY <1>1, <1>2, <1>4, RunningKeeps

(***************************************************************************)
(* fork: the child's frame is the parent's but for eax, on a stack that    *)
(* returns through forkret and trapret.                                    *)
(***************************************************************************)
LEMMA ForkStep ==
    ASSUME ContextInv, Fork
    PROVE  ContextInv'
<1>1. PICK q \in Procs :
          /\ state[q] = "none"
          /\ Result([stk EXCEPT ![q] = alloc_thread(ChildFrame)], Num(q))
          /\ ctx' = [ctx EXCEPT ![q] = <<q, ContextTop>>]
          /\ state' = [state EXCEPT ![q] = "READY"]
          /\ want' = [want EXCEPT ![curthread]["eax"] = Num(q),
                                  ![q] = [want[curthread] EXCEPT !["eax"] = Num(0)]]
    BY DEF Fork
<1>2. pc = At("syscall")
    BY DEF Fork, Syscall
<1>3. esp = <<curthread, 17>> /\ Framed(curthread) /\ Dispatched /\ curthread \in Procs /\ Shapes
    BY <1>2, Where, Places DEF Dispatched, ContextInv
<1>4. q # curthread /\ q # Boot
    BY <1>1, <1>3, BootApart DEF Dispatched
<1> DEFINE a == alloc_thread(ChildFrame)
           sk == [stk EXCEPT ![q] = a]
<1>5. /\ DOMAIN a = 1..Depth
      /\ \A r \in Register : a[Tf(r)] = ChildFrame[r]
      /\ a[18] = At("trapret") /\ a[19] = At("forkret")
    BY AllocWords
<1> HIDE DEF a
<1>6. /\ DOMAIN sk = {Boot} \cup Procs /\ sk[q] = a
      /\ \A x \in ({Boot} \cup Procs) \ {q} : sk[x] = stk[x]
    BY <1>3 DEF Shapes
<1>7. Result(sk, Num(q))
    BY <1>1 DEF a
<1> HIDE DEF sk
<1>8. /\ DOMAIN want' = Procs /\ want'[curthread] = [want[curthread] EXCEPT !["eax"] = Num(q)]
      /\ want'[q] = [want[curthread] EXCEPT !["eax"] = Num(0)]
      /\ \A p \in Procs \ {curthread, q} : want'[p] = want[p]
    BY <1>1, <1>3, <1>4 DEF Shapes
<1>9. sk[curthread] = stk[curthread]
    BY <1>3, <1>4, <1>6
<1>10. /\ DOMAIN regs' = Register
       /\ DOMAIN stk' = {Boot} \cup Procs /\ DOMAIN stk'[curthread] = 1..Depth
       /\ \A x \in ({Boot} \cup Procs) \ {curthread} : stk'[x] = sk[x]
       /\ DOMAIN want'[curthread] = Register /\ want'[curthread]["__esp"] = Num(0)
       /\ UNCHANGED <<tss, curthread>> /\ InProcess'
    <2>1. PICK v : v = Num(q)
        OBVIOUS
    <2>2. Result(sk, v) /\ want'[curthread] = [want[curthread] EXCEPT !["eax"] = v]
        BY <1>7, <1>8, <2>1
    <2> QED BY <1>3, <1>6, <1>8, <1>9, <2>2, ResultWords
<1>11. stk'[q] = a /\ \A x \in ({Boot} \cup Procs) \ {curthread, q} : stk'[x] = stk[x]
    BY <1>4, <1>6, <1>10
<1>12. /\ DOMAIN want'[q] = Register /\ want'[q]["eax"] = Num(0)
       /\ \A r \in Register \ {"eax"} : want'[q][r] = want[curthread][r]
    BY <1>3, <1>8, Names DEF Shapes
<1>13. /\ DOMAIN ctx' = DOMAIN ctx /\ ctx'[q] = <<q, 23>>
       /\ \A x \in ({Boot} \cup Procs) \ {q} : ctx'[x] = ctx[x]
    BY <1>1, <1>3, ContextFields DEF Shapes
<1>14. Shapes'
    <2>1. \A x \in {Boot} \cup Procs : DOMAIN stk'[x] = 1..Depth
        BY <1>3, <1>5, <1>10, <1>11 DEF Shapes
    <2>2. state' \in [Procs -> {"none", "READY", "RUNNING", "DEAD"}]
        BY <1>1, <1>3 DEF Shapes
    <2>3. want'[q]["__esp"] = Num(0)
        BY <1>3, <1>12, Names DEF Shapes
    <2>4. \A p \in Procs : DOMAIN want'[p] = Register /\ want'[p]["__esp"] = Num(0)
        BY <1>3, <1>8, <1>10, <1>12, <2>3 DEF Shapes
    <2> QED BY <1>3, <1>8, <1>10, <1>13, <2>1, <2>2, <2>4 DEF Shapes
<1>15. Resumable(q)'
    <2>1. ASSUME NEW r \in Register \ {"__esp", "eax"}
          PROVE  stk'[q][Tf(r)] = want'[q][r]
        <3>1. stk'[q][Tf(r)] = stk[curthread][Tf(r)]
            BY <1>5, <1>11 DEF ChildFrame
        <3> QED BY <1>3, <1>12, <3>1, Places DEF Framed
    <2>2. stk'[q][Tf("eax")] = want'[q]["eax"]
        BY <1>5, <1>11, <1>12, Names DEF ChildFrame
    <2>3. Framed(q)'
        BY <2>1, <2>2 DEF Framed
    <2>4. ctx'[q][1] = q /\ ctx'[q][2] = 23 /\ 23 \in 22..29 /\ 23 - 4 = 19 /\ 23 - 5 = 18
        BY <1>13
    <2> QED BY <1>5, <1>11, <2>3, <2>4 DEF Resumable, Unwinds
<1>16. ASSUME NEW p \in Procs, state'[p] = "READY" PROVE Resumable(p)'
    <2>1. CASE p = q
        BY <1>15, <2>1
    <2>2. CASE p # q
        <3>1. state[p] = "READY"
            BY <1>1, <1>3, <1>16, <2>2 DEF Shapes
        <3>2. p # curthread
            BY <1>3, <3>1 DEF Dispatched
        <3>3. stk'[p] = stk[p] /\ ctx'[p] = ctx[p] /\ want'[p] = want[p]
            BY <1>8, <1>11, <1>13, <2>2, <3>2
        <3> QED BY <3>1, <3>3, ResumableKept DEF ContextInv
    <2> QED BY <2>1, <2>2
<1>17. Dispatched'
    <2>1. state'[curthread] = "RUNNING"
        BY <1>1, <1>3, <1>4 DEF Dispatched, Shapes
    <2>2. stk'[Boot] = stk[Boot] /\ ctx'[Boot] = ctx[Boot]
        BY <1>3, <1>4, <1>11, <1>13, BootApart
    <2> QED BY <1>3, <1>10, <2>1, <2>2 DEF Dispatched
<1> QED BY <1>10, <1>14, <1>16, <1>17 DEF ContextInv

(***************************************************************************)
(* The ways back: each return leads to the next of the chain.              *)
(***************************************************************************)
LEMMA BackStep ==
    ASSUME ContextInv, Dispatched, NEW n \in 17..24, Framed(curthread),
           UNCHANGED <<regs, stk, ctx, tss, curthread, state, want>>,
           esp' = <<curthread, n>>, Unwinds(curthread, pc, n)'
    PROVE  ContextInv'
<1>1. Framed(curthread)'
    BY DEF Framed
<1>2. InProcess'
    BY <1>1 DEF InProcess
<1> QED BY <1>2, RunningKeeps DEF ContextInv, Shapes, Dispatched

(***************************************************************************)
(* forkret, the return of yield and that of sys_execve.                    *)
(***************************************************************************)
LEMMA ReturnsStep ==
    ASSUME ContextInv, forkret \/ YieldReturns \/ sys_execve
    PROVE  ContextInv'
<1>1. /\ UNCHANGED <<regs, stk, ctx, tss, curthread, state, want>>
      /\ pc \in {At("forkret"), At("yield_back"), At("sys_execve")}
    BY DEF forkret, YieldReturns, sys_execve, Ret
<1>2. Dispatched /\ Framed(curthread)
    BY <1>1, Where, Places
<1>3. CASE forkret
    <2>1. esp = <<curthread, 18>> /\ stk[curthread][18] = At("trapret")
        BY <1>3, Where DEF forkret
    <2>2. pc' = At("trapret") /\ esp' = <<curthread, 17>>
        BY <1>3, <2>1 DEF forkret, Ret
    <2>3. Unwinds(curthread, pc, 17)' /\ 17 \in 17..24
        BY <2>2 DEF Unwinds
    <2> QED BY <1>1, <1>2, <2>2, <2>3, BackStep
<1>4. CASE sys_execve
    <2>1. /\ esp = <<curthread, 21>> /\ stk[curthread][21] = At("execve")
          /\ want[curthread]["eax"] = At("any")
        BY <1>4, Where DEF sys_execve
    <2>2. pc' = At("execve") /\ esp' = <<curthread, 20>>
        BY <1>4, <2>1 DEF sys_execve, Ret
    <2>3. Unwinds(curthread, pc, 20)' /\ 20 \in 17..24
        BY <1>1, <2>1, <2>2 DEF Unwinds
    <2> QED BY <1>1, <1>2, <2>2, <2>3, BackStep
<1>5. CASE YieldReturns
    <2>1. \/ esp = <<curthread, 20>> /\ stk[curthread][18] = At("int20")
          \/ /\ esp = <<curthread, 24>> /\ want[curthread]["eax"] = At("any")
             /\ stk[curthread][22] = At("sys_execve") /\ stk[curthread][21] = At("execve")
        BY <1>5, Where DEF YieldReturns
    <2>2. CASE esp = <<curthread, 20>> /\ stk[curthread][18] = At("int20")
        <3>1. pc' = At("int20") /\ esp' = <<curthread, 17>>
            BY <1>5, <2>2 DEF YieldReturns, Ret
        <3>2. Unwinds(curthread, pc, 17)' /\ 17 \in 17..24
            BY <3>1 DEF Unwinds
        <3> QED BY <1>1, <1>2, <3>1, <3>2, BackStep
    <2>3. CASE /\ esp = <<curthread, 24>> /\ want[curthread]["eax"] = At("any")
               /\ stk[curthread][22] = At("sys_execve") /\ stk[curthread][21] = At("execve")
        <3>1. pc' = At("sys_execve") /\ esp' = <<curthread, 21>>
            BY <1>5, <2>3 DEF YieldReturns, Ret
        <3>2. Unwinds(curthread, pc, 21)' /\ 21 \in 17..24
            BY <1>1, <2>3, <3>1 DEF Unwinds
        <3> QED BY <1>1, <1>2, <3>1, <3>2, BackStep
    <2> QED BY <2>1, <2>2, <2>3
<1> QED BY <1>3, <1>4, <1>5

(***************************************************************************)
(* A call without a result leaves the frame alone.                         *)
(***************************************************************************)
LEMMA RestartStep ==
    ASSUME ContextInv, Restart
    PROVE  ContextInv'
<1>1. /\ pc = At("syscall") /\ pc' = At("end_syscall")
      /\ UNCHANGED <<regs, esp, stk, ctx, tss, curthread, state, want>>
    BY DEF Restart, Syscall
<1>2. esp = <<curthread, 17>> /\ Framed(curthread) /\ Dispatched
    BY <1>1, Where, Places
<1>3. Unwinds(curthread, pc, 17)' /\ 17 \in 17..24 /\ esp' = <<curthread, 17>>
    BY <1>1, <1>2 DEF Unwinds
<1> QED BY <1>1, <1>2, <1>3, BackStep

(***************************************************************************)
(* execve's return stores whatever is in eax over the frame's eax.         *)
(***************************************************************************)
LEMMA ExecveReturnsStep ==
    ASSUME ContextInv, ExecveReturns
    PROVE  ContextInv'
<1>1. /\ pc = At("execve") /\ pc' = At("end_syscall")
      /\ esp' = <<esp[1], esp[2] - 3>>
      /\ stk' = [stk EXCEPT ![esp[1]][esp[2] - 3 - 7] = regs["eax"]]
      /\ UNCHANGED <<regs, ctx, tss, curthread, state, want>>
    BY DEF ExecveReturns
<1>2. /\ esp = <<curthread, 20>> /\ Framed(curthread) /\ want[curthread]["eax"] = At("any")
      /\ Dispatched /\ curthread \in Procs /\ Shapes
    BY <1>1, Where, Places DEF Dispatched, ContextInv
<1>3. esp[1] = curthread /\ esp[2] - 3 - 7 = 10 /\ esp[2] - 3 = 17
    BY <1>2
<1>4. stk' = [stk EXCEPT ![curthread][10] = regs["eax"]]
    BY <1>1, <1>3
<1>5. /\ DOMAIN stk' = {Boot} \cup Procs
      /\ \A x \in ({Boot} \cup Procs) \ {curthread} : stk'[x] = stk[x]
      /\ stk'[curthread] = [stk[curthread] EXCEPT ![10] = regs["eax"]]
    BY <1>2, <1>4 DEF Shapes
<1>6. DOMAIN stk'[curthread] = 1..Depth /\ \A k \in 1..Depth \ {10} : stk'[curthread][k] = stk[curthread][k]
    BY <1>2, <1>5 DEF Shapes
<1>7. Framed(curthread)'
    <2>1. ASSUME NEW r \in Register \ {"__esp", "eax"}
          PROVE  stk'[curthread][Tf(r)] = want'[curthread][r]
        <3>1. Tf(r) \in 1..Depth \ {10}
            BY Names, TfFinds, ContextAssumption
        <3> QED BY <1>1, <1>2, <1>6, <3>1 DEF Framed
    <2> QED BY <1>1, <1>2, <2>1 DEF Framed
<1>8. InProcess'
    <2>1. Unwinds(curthread, pc, 17)' /\ 17 \in 17..24 /\ esp' = <<curthread, 17>>
        BY <1>1, <1>3 DEF Unwinds
    <2> QED BY <1>1, <1>7, <2>1 DEF InProcess
<1>9. /\ DOMAIN regs' = Register /\ DOMAIN want' = Procs /\ DOMAIN want'[curthread] = Register
      /\ want'[curthread]["__esp"] = Num(0)
    BY <1>1, <1>2 DEF Shapes
<1> QED BY <1>1, <1>2, <1>5, <1>6, <1>8, <1>9, RunningKeeps

(***************************************************************************)
(* trapret: popal and iret read the frame.                                 *)
(***************************************************************************)
LEMMA TrapretStep ==
    ASSUME ContextInv, trapret
    PROVE  ContextInv'
<1>1. /\ pc \in {At("trapret"), At("int20"), At("end_syscall")} /\ pc' = At("user")
      /\ regs' = [Popped(stk[esp[1]], esp[2], PopAll) EXCEPT !["__esp"] = Num(0)]
      /\ esp' = <<esp[1], esp[2] - Len(PopAll)>>
      /\ UNCHANGED <<stk, ctx, tss, curthread, state, want>>
    BY DEF trapret
<1>2. esp = <<curthread, 17>> /\ Framed(curthread) /\ Dispatched /\ curthread \in Procs /\ Shapes
    BY <1>1, Where, Places DEF Dispatched, ContextInv
<1> DEFINE pop == Popped(stk[curthread], 17, trapframe)
<1>3. regs' = [pop EXCEPT !["__esp"] = Num(0)] /\ esp' = <<curthread, 0>>
    BY <1>1, <1>2, PopsFrame, FrameFields
<1>4. DOMAIN pop = Register /\ \A r \in Register : pop[r] = stk[curthread][Tf(r)]
    <2>1. pop = [r \in Register |-> stk[curthread][17 + 1 - Field(trapframe, r)]]
        BY DEF Popped, Register
    <2>2. \A r \in Register : 17 + 1 - Field(trapframe, r) = Tf(r)
        BY TfFinds
    <2> HIDE DEF pop
    <2> QED BY <2>1, <2>2
<1> HIDE DEF pop
<1>5. /\ DOMAIN regs' = Register /\ regs'["__esp"] = Num(0)
      /\ \A r \in Register \ {"__esp"} : regs'[r] = stk[curthread][Tf(r)]
    BY <1>3, <1>4, Names
<1>6. ResumesWhole'
    <2>1. ASSUME NEW r \in Register
          PROVE  (r = "eax" /\ want[curthread]["eax"] = At("any")) \/ regs'[r] = want[curthread][r]
        <3>1. CASE r = "__esp"
            BY <1>2, <1>5, <3>1 DEF Shapes
        <3>2. CASE r # "__esp"
            BY <1>2, <1>5, <3>2 DEF Framed
        <3> QED BY <3>1, <3>2
    <2> QED BY <1>1, <2>1 DEF ResumesWhole
<1>7. InProcess'
    BY <1>1, <1>3, <1>6 DEF InProcess
<1> QED BY <1>1, <1>2, <1>5, <1>7, RunningKeeps DEF Shapes

-----------------------------------------------------------------------------
(***************************************************************************)
(* The theorems.                                                           *)
(***************************************************************************)

(***************************************************************************)
(* init_sched: the first process waits on the stack alloc_thread made.     *)
(***************************************************************************)
LEMMA InvInit ==
    ASSUME Init
    PROVE  ContextInv
<1> DEFINE a == alloc_thread(Started)
<1>1. /\ DOMAIN a = 1..Depth
      /\ \A r \in Register : a[Tf(r)] = Started[r]
      /\ a[18] = At("trapret") /\ a[19] = At("forkret")
    BY AllocWords
<1>2. DOMAIN Started = Register /\ Started["__esp"] = Num(0)
    BY Names DEF Started, General, User
<1>3. /\ stk = [s \in {Boot} \cup Procs |-> IF s = 1 THEN a ELSE [k \in 1..Depth |-> Num(0)]]
      /\ ctx = [s \in {Boot} \cup Procs |-> IF s = 1 THEN <<1, ContextTop>> ELSE <<s, 0>>]
      /\ state = [p \in Procs |-> IF p = 1 THEN "READY" ELSE "none"]
      /\ want = [p \in Procs |-> Started]
      /\ regs = Started /\ esp = <<Boot, 1>> /\ pc = At("scheduler")
      /\ DOMAIN tss = DOMAIN task_state_segment
    BY DEF Init
<1> HIDE DEF a
<1>4. Shapes
    BY <1>1, <1>2, <1>3 DEF Shapes
<1>5. stk[1] = a /\ ctx[1] = <<1, 23>> /\ want[1] = Started
    BY <1>3, BootApart, ContextFields
<1>6. Resumable(1)
    <2>1. Framed(1)
        BY <1>1, <1>5 DEF Framed
    <2>2. ctx[1][1] = 1 /\ ctx[1][2] = 23 /\ 23 \in 22..29 /\ 23 - 4 = 19 /\ 23 - 5 = 18
        BY <1>5
    <2> QED BY <1>1, <1>5, <2>1, <2>2 DEF Resumable, Unwinds
<1>7. \A p \in Procs : state[p] = "READY" => p = 1
    BY <1>3
<1>8. InScheduler
    BY <1>3 DEF InScheduler
<1> QED BY <1>4, <1>6, <1>7, <1>8 DEF ContextInv

(***************************************************************************)
(* Steps that change neither a stack nor a context.                        *)
(***************************************************************************)
LEMMA QuietStep ==
    ASSUME ContextInv, UNCHANGED <<regs, stk, ctx, tss, curthread, state, want>>,
           SchedBack \/ Panic \/ UNCHANGED vars
    PROVE  ContextInv'
<1>1. Shapes' /\ \A p \in Procs : state'[p] = "READY" => Resumable(p)'
    BY ResumableKept DEF ContextInv, Shapes
<1>2. CASE SchedBack
    <2>1. pc' = At("scheduler") /\ esp' = <<Boot, 1>>
        BY <1>2, Where DEF SchedBack
    <2>2. InScheduler'
        BY <2>1 DEF InScheduler
    <2> QED BY <1>1, <2>2 DEF ContextInv
<1>3. CASE Panic
    <2>1. pc = At("syscall") /\ pc' = At("panic")
        BY <1>3 DEF Panic, Syscall
    <2>2. Dispatched'
        BY <2>1, Where, Places DEF Dispatched
    <2>3. InProcess'
        BY <2>1 DEF InProcess
    <2> QED BY <1>1, <2>2, <2>3 DEF ContextInv
<1>4. CASE UNCHANGED vars
    BY <1>1, <1>4 DEF vars, ContextInv, InScheduler, Dispatched, InProcess, Framed, Unwinds, ResumesWhole
<1> QED BY <1>2, <1>3, <1>4

(***************************************************************************)
(* Every step keeps the invariant.                                         *)
(***************************************************************************)
LEMMA InvStep ==
    ASSUME ContextInv, [Next]_vars
    PROVE  ContextInv'
<1>1. CASE SchedBack \/ Panic \/ Halted \/ UNCHANGED vars
    BY <1>1, QuietStep DEF SchedBack, Panic, Halted, vars
<1>2. CASE INT_0x20
    BY <1>2, EnterStep DEF INT_0x20
<1>3. CASE INT_0x80
    BY <1>3, EnterStep DEF INT_0x80
<1>4. CASE Write
    BY <1>4, ReturnStep DEF Write, Syscall
<1>5. CASE Fails
    BY <1>5, ReturnStep DEF Fails, Syscall
<1> QED BY <1>1, <1>2, <1>3, <1>4, <1>5, SchedulerStep, TimerStep, RestartStep, ForkStep, ExecveStep,
           ExitStep, ReturnsStep, ExecveReturnsStep, TrapretStep DEF Next

(***************************************************************************)
(* The invariant holds throughout.                                         *)
(***************************************************************************)
LEMMA InvAlways == Spec => []ContextInv
BY InvInit, InvStep, PTL DEF Spec

(***************************************************************************)
(* A process comes back to user mode with the registers it left it with    *)
(* but for what the kernel meant to change: whatever ran in between, for   *)
(* every number of processes and whatever their registers hold.            *)
(***************************************************************************)
THEOREM ResumesWholeAlways == Spec => []ResumesWhole
<1>1. ContextInv => ResumesWhole
    BY Where DEF ResumesWhole
<1> QED BY <1>1, InvAlways, PTL

(***************************************************************************)
(* The kernel stack is empty in user mode, the scheduler is one call deep  *)
(* however often it switched and finds the process that yielded in ebx.    *)
(***************************************************************************)
THEOREM BalancedAlways == Spec => []Balanced
<1>1. ContextInv => Balanced
    BY Where DEF Balanced
<1> QED BY <1>1, InvAlways, PTL

(***************************************************************************)
(* No step writes on the kernel stack of a process that is neither running *)
(* nor being created.                                                      *)
(***************************************************************************)
THEOREM OwnStackAlways == Spec => OwnStack
<1>1. ASSUME ContextInv, Next, NEW p \in Procs, stk'[p] # stk[p]
      PROVE  p = curthread \/ state[p] = "none"
    <2>1. p \in DOMAIN stk /\ p # Boot
        BY <1>1, BootApart DEF ContextInv, Shapes
    <2>2. CASE Scheduler
        BY <1>1, <2>1, <2>2 DEF Scheduler, switch_to
    <2>3. CASE INT_0x20 \/ INT_0x80
        <3>1. pc = At("user") /\ \E w : stk' = [stk EXCEPT ![tss[2]] = w]
            BY <2>3 DEF INT_0x20, INT_0x80, Enter, RingZeroStack
        <3>2. tss[2] = curthread
            BY <1>1, <3>1, Where, Places DEF Dispatched
        <3> QED BY <1>1, <2>1, <3>1, <3>2
    <2>4. CASE Timer \/ Exit
        <3>1. pc \in {At("timer"), At("syscall")} /\ \E w : stk' = [stk EXCEPT ![esp[1]] = w]
            BY <2>4 DEF Timer, Exit, Syscall, yield, switch_to
        <3>2. esp[1] = curthread
            BY <1>1, <3>1, Where
        <3> QED BY <1>1, <2>1, <3>1, <3>2
    <2>5. CASE Execve
        <3> DEFINE sk == [stk EXCEPT ![curthread][Tf("eip")] = At("entry"), ![curthread][Tf("esp")] = At("top")]
                   bf == <<regs["edx"], regs["ecx"], regs["ebx"], At("execve"), At("sys_execve")>>
        <3>1. pc = At("syscall") /\ yield(sk, bf, "READY")
            BY <2>5 DEF Execve, Syscall
        <3>2. p \in DOMAIN sk /\ (p # curthread => sk[p] = stk[p])
            BY <2>1
        <3> HIDE DEF sk, bf
        <3>3. p # esp[1] => stk'[p] = sk[p]
            BY <3>1, <3>2 DEF yield, switch_to
        <3>4. esp[1] = curthread
            BY <1>1, <3>1, Where
        <3> QED BY <1>1, <3>2, <3>3, <3>4
    <2>6. CASE Write \/ Fails
        <3>1. pc = At("syscall") /\ \E w : stk' = [stk EXCEPT ![esp[1]] = w]
            BY <2>6 DEF Write, Fails, Syscall, Result
        <3>2. esp[1] = curthread
            BY <1>1, <3>1, Where
        <3> QED BY <1>1, <2>1, <3>1, <3>2
    <2>7. CASE Fork
        <3>1. PICK q \in Procs : /\ state[q] = "none"
                                /\ Result([stk EXCEPT ![q] = alloc_thread(ChildFrame)], Num(q))
            BY <2>7 DEF Fork
        <3> DEFINE sk == [stk EXCEPT ![q] = alloc_thread(ChildFrame)]
        <3>2. p \in DOMAIN sk /\ (p # q => sk[p] = stk[p])
            BY <2>1
        <3>3. Result(sk, Num(q))
            BY <3>1
        <3> HIDE DEF sk
        <3>4. p # esp[1] => stk'[p] = sk[p]
            BY <3>2, <3>3 DEF Result
        <3>5. esp[1] = curthread
            BY <1>1, <2>7, Where DEF Fork, Syscall
        <3> QED BY <1>1, <3>1, <3>2, <3>4, <3>5
    <2>8. CASE ExecveReturns
        <3>1. pc = At("execve") /\ stk' = [stk EXCEPT ![esp[1]][esp[2] - 3 - 7] = regs["eax"]]
            BY <2>8 DEF ExecveReturns
        <3>2. esp[1] = curthread
            BY <1>1, <3>1, Where
        <3> QED BY <1>1, <2>1, <3>1, <3>2
    <2>9. CASE UNCHANGED stk
        BY <1>1, <2>9
    <2> QED BY <1>1, <2>2, <2>3, <2>4, <2>5, <2>6, <2>7, <2>8, <2>9
           DEF Next, SchedBack, Restart, Panic, forkret, YieldReturns, sys_execve, Ret, trapret, Halted, vars
<1>2. ContextInv /\ [Next]_vars =>
        [\A p \in Procs : stk'[p] # stk[p] => p = curthread \/ state[p] = "none"]_vars
    BY <1>1
<1> QED BY <1>2, InvAlways, PTL DEF Spec, OwnStack
=============================================================================
