----------------------------- MODULE PageAlloc -----------------------------
(***************************************************************************)
(* The physical page allocator of kernel/mem.c: alloc_pages, free_pages    *)
(* and the part of init_mem that fills the free list from the memory map   *)
(* and takes the kernel heap.  A block of the list is the address and size *)
(* of the free memory it stands in.  All of it runs with interrupts off.   *)
(***************************************************************************)
EXTENDS Integers, SequencesExt

CONSTANTS
    MemMaps,    \* the memory maps the boot code may leave, as sequences
    Sizes,      \* bound: the sizes, in bytes, that callers ask for
    HeapSize    \* the size of the kernel heap (0x10000)

PGSIZE == 4096

(***************************************************************************)
(* pg_roundup() of vm.h.                                                   *)
(***************************************************************************)
pg_roundup(x) == IF x % PGSIZE = 0 THEN x ELSE x + PGSIZE - (x % PGSIZE)

(***************************************************************************)
(* The page numbers of a block.                                            *)
(***************************************************************************)
Pages(b) == (b.addr \div PGSIZE)..((b.addr + b.sz) \div PGSIZE - 1)

PagesOf(list) == UNION {Pages(list[i]) : i \in DOMAIN list}

Block == [addr : Nat, sz : Nat]

Aligned(b) == b.addr % PGSIZE = 0 /\ b.sz % PGSIZE = 0

Disjoint(list) ==
    \A i, j \in DOMAIN list : i # j => Pages(list[i]) \cap Pages(list[j]) = {}

(***************************************************************************)
(* add_memmap and cut_memmap leave page aligned, disjoint entries.  One    *)
(* that was cut out completely is left with address and length 0; with two *)
(* of those init_mem would link a block behind itself.                     *)
(***************************************************************************)
ASSUME MemMapsAssumption ==
    \A map \in MemMaps :
        /\ map \in Seq(Block)
        /\ \A i \in DOMAIN map : Aligned(map[i])
        /\ Disjoint(map)
        /\ \A i, j \in DOMAIN map : i # j => map[i].addr # map[j].addr
ASSUME SizesAssumption == Sizes \subseteq Nat /\ HeapSize \in Nat \ {0}

VARIABLES
    memmap,     \* k->memmap, the AVAILABLE entries
    m,          \* init_mem's index into it
    freelist,   \* the list of free blocks
    held,       \* the page numbers that belong to a caller
    phase       \* "map" and "heap" in init_mem, "run" after it;
                \* "noheap": init_mem put the heap at the NULL it was given

vars == <<memmap, m, freelist, held, phase>>

Init ==
    /\ memmap \in MemMaps
    /\ m = 1
    /\ freelist = <<>>
    /\ held = {}
    /\ phase = "map"

(***************************************************************************)
(* init_mem puts an entry behind the first block that is larger, or behind *)
(* the last one.                                                           *)
(***************************************************************************)
InsertAfterLarger(n) ==
    \/ /\ freelist = <<>>
       /\ freelist' = <<n>>
    \/ \E i \in DOMAIN freelist :
          /\ \A j \in 1..(i - 1) : freelist[j].sz <= n.sz
          /\ freelist[i].sz > n.sz \/ i = Len(freelist)
          /\ freelist' = InsertAt(freelist, i + 1, n)

(***************************************************************************)
(* One turn of init_mem's loop.                                            *)
(***************************************************************************)
AddRegion ==
    /\ phase = "map"
    /\ m <= Len(memmap)
    /\ InsertAfterLarger(memmap[m])
    /\ m' = m + 1
    /\ UNCHANGED <<memmap, held, phase>>

EndOfMap ==
    /\ phase = "map"
    /\ m > Len(memmap)
    /\ phase' = "heap"
    /\ UNCHANGED <<memmap, m, freelist, held>>

(***************************************************************************)
(* free_pages: in front of the first block that is not smaller, or behind  *)
(* the last one.  With no block in the list the loop has no turn, and the  *)
(* memory is forgotten.                                                    *)
(***************************************************************************)
InsertAnywhere(list, n) ==      \* mutant: the sizes are not compared
    freelist' = <<n>> \o list

InsertUnlessOne(list, n) ==     \* mutant: the last block is not looked at
    freelist' = IF Len(list) <= 1 THEN list ELSE Append(list, n)

InsertBlock(list, n) ==
    \/ /\ list = <<>>
       /\ freelist' = list
    \/ /\ list # <<>>
       /\ \E i \in 1..(Len(list) + 1) :
             /\ \A j \in 1..(i - 1) : list[j].sz < n.sz
             /\ i <= Len(list) => list[i].sz >= n.sz
             /\ freelist' = InsertAt(list, i, n)

(***************************************************************************)
(* alloc_pages takes the first block that is large enough; the test is on  *)
(* the size before it is rounded up.                                       *)
(***************************************************************************)
AnyBlock(i, sz) == freelist[i].sz + PGSIZE >= sz    \* mutant: off by one page

Fits(i, sz) ==
    /\ freelist[i].sz >= sz
    /\ \A j \in 1..(i - 1) : freelist[j].sz < sz

(***************************************************************************)
(* What is left of block b once need bytes are taken from its start.       *)
(***************************************************************************)
RestOverlapping(b, need) ==         \* mutant: the rest starts one page early
    [addr |-> b.addr + need - PGSIZE, sz |-> b.sz - need]

Rest(b, need) == [addr |-> b.addr + need, sz |-> b.sz - need]

(***************************************************************************)
(* alloc_pages(sz) with a block that fits: the block leaves the list, its  *)
(* start goes to the caller and the rest, if any, through free_pages.      *)
(***************************************************************************)
Take(sz) ==
    \E i \in DOMAIN freelist :
        LET b == freelist[i]
            need == pg_roundup(sz)
            list == RemoveAt(freelist, i)
        IN  /\ Fits(i, sz)
            /\ held' = held \cup Pages([addr |-> b.addr, sz |-> need])
            /\ \/ b.sz > need /\ InsertBlock(list, Rest(b, need))
               \/ b.sz <= need /\ freelist' = list

NoFit(sz) == \A i \in DOMAIN freelist : freelist[i].sz < sz

(***************************************************************************)
(* init_mem takes the heap; it does not look whether it got one.           *)
(***************************************************************************)
InitHeap ==
    /\ phase = "heap"
    /\ \/ Take(HeapSize) /\ phase' = "run"
       \/ NoFit(HeapSize) /\ phase' = "noheap" /\ UNCHANGED <<freelist, held>>
    /\ UNCHANGED <<memmap, m>>

(***************************************************************************)
(* alloc_pages(sz) of a running kernel; without a fit it returns NULL and  *)
(* changes nothing.                                                        *)
(***************************************************************************)
AllocPages(sz) ==
    /\ phase = "run"
    /\ Take(sz)
    /\ UNCHANGED <<memmap, m, phase>>

(***************************************************************************)
(* free_pages(addr, sz) of memory a caller holds.  proc_destroy and        *)
(* free_uvm are its callers besides alloc_pages.                           *)
(***************************************************************************)
FreePages(b) ==
    /\ phase = "run"
    /\ b.sz > 0 /\ Pages(b) \subseteq held
    /\ held' = held \ Pages(b)
    /\ InsertBlock(freelist, b)
    /\ UNCHANGED <<memmap, m, phase>>

(***************************************************************************)
(* The blocks a caller may give back, page aligned.                        *)
(***************************************************************************)
HeldBlocks == {[addr |-> pg * PGSIZE, sz |-> pg_roundup(sz)] : pg \in held, sz \in Sizes}

(***************************************************************************)
(* The list has nothing for any request, or there is no heap.              *)
(***************************************************************************)
OutOfMemory ==
    /\ \/ phase = "noheap"
       \/ phase = "run" /\ \A sz \in Sizes : NoFit(sz)
    /\ UNCHANGED vars

Next ==
    \/ AddRegion
    \/ EndOfMap
    \/ InitHeap
    \/ \E sz \in Sizes : AllocPages(sz)
    \/ \E b \in HeldBlocks : FreePages(b)
    \/ OutOfMemory

Spec == Init /\ [][Next]_vars

-----------------------------------------------------------------------------
(***************************************************************************)
(* Properties                                                              *)
(***************************************************************************)

(***************************************************************************)
(* The list holds page aligned blocks, whatever is asked for and in        *)
(* whatever order, so the unrounded comparison of alloc_pages never hands  *)
(* out more than the block has.                                            *)
(***************************************************************************)
TypeOK ==
    /\ memmap \in MemMaps
    /\ m \in 1..(Len(memmap) + 1)
    /\ freelist \in Seq(Block)
    /\ \A i \in DOMAIN freelist : Aligned(freelist[i])
    /\ held \subseteq PagesOf(memmap)
    /\ phase \in {"map", "heap", "run", "noheap"}

(***************************************************************************)
(* No page is in two places: blocks of the free list do not overlap, and   *)
(* what alloc_pages has handed out is not in the list (the list's links    *)
(* are stored in the free pages).                                          *)
(***************************************************************************)
NoSharing ==
    /\ Disjoint(freelist)
    /\ PagesOf(freelist) \cap held = {}

(***************************************************************************)
(* The pages the pool can still give: the list, and while init_mem runs    *)
(* the regions it has not come to.                                         *)
(***************************************************************************)
Coming == UNION {Pages(memmap[i]) : i \in m..Len(memmap)}

FreeSet == PagesOf(freelist) \cup Coming

(***************************************************************************)
(* Memory is forgotten in one situation only: when free_pages finds an     *)
(* empty list, be it called by alloc_pages for the rest of the last block. *)
(***************************************************************************)
KeepsMemory == FreeSet' \cup held' = FreeSet \cup held

ForgetsOnlyWhenEmpty == [][KeepsMemory \/ freelist' = <<>>]_vars

(***************************************************************************)
(* Once the list is in order of size, it stays so, which is what makes the *)
(* first fit of alloc_pages a best fit.                                    *)
(***************************************************************************)
Ordered(list) == \A i, j \in DOMAIN list : i < j => list[i].sz <= list[j].sz

StaysOrdered == [][phase # "map" /\ Ordered(freelist) => Ordered(freelist')]_vars

(***************************************************************************)
(* alloc_pages splits a block into what the caller gets and what stays     *)
(* free: no page of usable memory is ever in neither place.                *)
(***************************************************************************)
NothingForgotten == FreeSet \cup held = PagesOf(memmap)

(***************************************************************************)
(* The allocator implements the page pool.                                 *)
(***************************************************************************)
AllPages == UNION {PagesOf(map) : map \in MemMaps}

Pool == INSTANCE PagePool WITH Page <- AllPages, free <- FreeSet, held <- held

PoolSpec == Pool!Spec
=============================================================================
