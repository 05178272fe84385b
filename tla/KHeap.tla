------------------------------- MODULE KHeap -------------------------------
(***************************************************************************)
(* The kernel heap of kernel/mem.c: kmalloc and kfree over the 64 KiB that *)
(* init_mem took from the page allocator.  A free block is its address and *)
(* size; an allocation is a block too, from the u16 header kmalloc writes  *)
(* to its end.  kmalloc runs with interrupts off.  kfree is modelled for a *)
(* caller that frees what it was given, once.                              *)
(***************************************************************************)
EXTENDS Integers, SequencesExt

CONSTANTS
    HeapSize,   \* 0x10000
    MaxSize,    \* kmalloc's assertion: 0x1000
    Sizes       \* bound: the sizes callers ask for

HDR == 2        \* sizeof(u16)
UNIT == 8

ASSUME HeapAssumption ==
    /\ HeapSize \in Nat \ {0} /\ HeapSize % UNIT = 0
    /\ MaxSize \in Nat /\ Sizes \subseteq Nat

VARIABLES
    heap,   \* the list of free blocks
    live,   \* the blocks callers hold
    mode    \* "ok"; "assert": the request was too large; "fault": kfree
            \* reads through NULL; "wild": kfree uses tmp before it is set

vars == <<heap, live, mode>>

Init ==
    /\ heap = <<[addr |-> 0, sz |-> HeapSize]>>
    /\ live = {}
    /\ mode = "ok"

Stop(how) == mode' = how /\ UNCHANGED <<heap, live>>

End(b) == b.addr + b.sz

(***************************************************************************)
(* The room a request takes: header included, in units of 8.               *)
(***************************************************************************)
NoHeader(sz) == ((sz + UNIT - 1) \div UNIT) * UNIT     \* mutant: header forgotten
Room(sz) == ((sz + HDR + UNIT - 1) \div UNIT) * UNIT

FirstFit(i, need) ==
    /\ heap[i].sz >= need
    /\ \A j \in 1..(i - 1) : heap[j].sz < need

(***************************************************************************)
(* The block at i is replaced by what is left of it, or by nothing.        *)
(***************************************************************************)
Split(i, need) ==
    LET b == heap[i] IN
    IF b.sz > need
    THEN [heap EXCEPT ![i] = [addr |-> b.addr + need, sz |-> b.sz - need]]
    ELSE RemoveAt(heap, i)

Kmalloc(sz) ==
    /\ mode = "ok"
    /\ LET need == Room(sz) IN
       \/ need >= MaxSize /\ Stop("assert")
       \/ /\ need < MaxSize
          /\ \E i \in DOMAIN heap :
                /\ FirstFit(i, need)
                /\ heap' = Split(i, need)
                /\ live' = live \cup {[addr |-> heap[i].addr, sz |-> need]}
          /\ UNCHANGED mode
       \/ /\ need < MaxSize                            \* kmalloc returns NULL
          /\ \A i \in DOMAIN heap : heap[i].sz < need
          /\ UNCHANGED vars

(***************************************************************************)
(* kfree of a block in front of the first free one.  If the two are        *)
(* adjacent the size of an unset pointer's block is added.                 *)
(***************************************************************************)
FreeInFront(p) ==
    /\ heap # <<>>
    /\ p.addr < heap[1].addr
    /\ \/ End(p) = heap[1].addr /\ Stop("wild")
       \/ /\ End(p) # heap[1].addr
          /\ heap' = <<p>> \o heap
          /\ live' = live \ {p}
          /\ UNCHANGED mode

(***************************************************************************)
(* kfree of a block between two free ones: it joins the block before it,   *)
(* and the one behind it joins them.                                       *)
(***************************************************************************)
NeverJoins(a, b) == FALSE       \* mutant: blocks are not joined
Adjacent(a, b) == End(a) = b.addr

SizeNotAdded(a, b) == a         \* mutant: the joined block keeps its size
Joined(a, b) == [a EXCEPT !.sz = @ + b.sz]

FreeBetween(p) ==
    \E i \in 1..(Len(heap) - 1) :
        /\ heap[i].addr < p.addr /\ p.addr < heap[i + 1].addr
        /\ LET before == Adjacent(heap[i], p)
               q == IF before THEN Joined(heap[i], p) ELSE p
               behind == Adjacent(q, heap[i + 1])
           IN  heap' = SubSeq(heap, 1, IF before THEN i - 1 ELSE i)
                         \o <<IF behind THEN Joined(q, heap[i + 1]) ELSE q>>
                         \o SubSeq(heap, IF behind THEN i + 2 ELSE i + 1, Len(heap))
        /\ live' = live \ {p}
        /\ UNCHANGED mode

(***************************************************************************)
(* kfree of a block behind the last free one, or with no free block: the   *)
(* search ends with n = NULL, which is then read.                          *)
(***************************************************************************)
FreeBehind(p) ==
    /\ \A i \in DOMAIN heap : heap[i].addr < p.addr
    /\ Stop("fault")

Kfree(p) ==
    /\ mode = "ok"
    /\ FreeInFront(p) \/ FreeBetween(p) \/ FreeBehind(p)

Stopped == mode # "ok" /\ UNCHANGED vars

Next ==
    \/ \E sz \in Sizes : Kmalloc(sz)
    \/ \E p \in live : Kfree(p)
    \/ Stopped

Spec == Init /\ [][Next]_vars

-----------------------------------------------------------------------------
(***************************************************************************)
(* Properties                                                              *)
(***************************************************************************)
Span(b) == b.addr..(End(b) - 1)

(***************************************************************************)
(* Types; every block is a positive number of units.                       *)
(***************************************************************************)
Block == [addr : Nat, sz : Nat \ {0}]
Whole(b) == b \in Block /\ b.addr % UNIT = 0 /\ b.sz % UNIT = 0

TypeOK ==
    /\ heap \in Seq(Block) /\ \A i \in DOMAIN heap : Whole(heap[i])
    /\ \A b \in live : Whole(b) /\ b.sz < MaxSize
    /\ mode \in {"ok", "assert", "fault", "wild"}

(***************************************************************************)
(* kmalloc and kfree keep the list in the order of addresses, with a gap   *)
(* between any two blocks: kfree joins every two that become neighbours,   *)
(* which it can only because the list is in order.                         *)
(***************************************************************************)
Coalesced ==
    \A i, j \in DOMAIN heap : i < j => End(heap[i]) < heap[j].addr

(***************************************************************************)
(* No byte of the heap is lost or handed out twice: what is free and what  *)
(* callers hold, headers included, are disjoint and make up the heap.      *)
(***************************************************************************)
HeapTiles ==
    LET free == {heap[i] : i \in DOMAIN heap} IN
    /\ UNION {Span(b) : b \in free \cup live} = 0..(HeapSize - 1)
    /\ free \cap live = {}
    /\ \A a, b \in free \cup live : a # b => Span(a) \cap Span(b) = {}

(***************************************************************************)
(* The payload of an allocation, behind its header, holds the size asked   *)
(* for: stated for the step that makes it.                                 *)
(***************************************************************************)
PayloadFits ==
    [][\A sz \in Sizes : Kmalloc(sz) =>
          \A b \in live' \ live : b.addr + HDR + sz <= End(b)]_vars
=============================================================================
