------------------------------ MODULE MemMap -------------------------------
(***************************************************************************)
(* The memory map trunix builds at boot: init_trunix (kernel/init.c) calls *)
(* add_memmap for every AVAILABLE region of the firmware's map and         *)
(* cut_memmap for the kernel, the page at address 0 and the initrd, and    *)
(* leaves the map to init_mem.  One step is one call of add_memmap by      *)
(* init_trunix, or one turn of cut_memmap's loop.  mem_high_phys, which    *)
(* nothing reads, is left out.                                             *)
(***************************************************************************)
EXTENDS Integers, FiniteSets, Sequences

CONSTANTS
    PGSIZE,     \* 0x1000
    WORD,       \* 2^32, the range of u32
    MAXMEMMAP,  \* the number of slots of k.memmap
    Firmware,   \* the maps of the firmware: sequences of [addr, len]
    Reserved    \* what is cut, in order: sequences of [start, end]

Slots == 1..MAXMEMMAP

ASSUME WidthAssumption ==
    /\ PGSIZE \in Nat \ {0} /\ MAXMEMMAP \in Nat \ {0}
    /\ WORD \in Nat /\ WORD > PGSIZE /\ WORD % PGSIZE = 0
ASSUME FirmwareAssumption == \A f \in Firmware : f \in Seq([addr : Nat, len : Nat])
ASSUME ReservedAssumption ==
    \A c \in Reserved :
        /\ c \in Seq([start : Nat, end : Nat])
        /\ \A i \in DOMAIN c : c[i].start <= c[i].end /\ c[i].end + PGSIZE < WORD

VARIABLES
    firmware,   \* the regions of the firmware's map
    reserved,   \* the ranges to cut
    r,          \* index of the next region, then of the next range
    memmap,     \* k.memmap: slots with length 0 are free
    mmap_n,     \* k.mmap_n
    m,          \* cut_memmap's index, 0 when no call is under way
    phase       \* "add", "cut", "done" or "panic"

vars == <<firmware, reserved, r, memmap, mmap_n, m, phase>>

Empty == [addr |-> 0, len |-> 0]

Init ==
    /\ firmware \in Firmware
    /\ reserved \in Reserved
    /\ r = 1
    /\ memmap = [i \in Slots |-> Empty]
    /\ mmap_n = 0
    /\ m = 0
    /\ phase = "add"

(***************************************************************************)
(* pg_roundup and pg_rounddown take and return a u32.                      *)
(***************************************************************************)
pg_rounddown(x) == (x % WORD) - (x % PGSIZE)
pg_roundup(x) == pg_rounddown((x % WORD) + PGSIZE - 1)

(***************************************************************************)
(* add_memmap into a map of which n slots have been used: the first free   *)
(* slot takes the rounded region; without one the kernel panics.  A length *)
(* that rounds to 0 leaves its slot free.                                  *)
(***************************************************************************)
FreeSlots(map) == {i \in Slots : map[i].len = 0}

FirstSlot(map) == CHOOSE i \in FreeSlots(map) : \A j \in FreeSlots(map) : i <= j

AddMemmap(st, addr, len) ==
    IF len = 0 \/ st.full THEN st
    ELSE IF FreeSlots(st.map) = {} THEN [st EXCEPT !.full = TRUE]
    ELSE LET i == FirstSlot(st.map) IN
         [map |-> [st.map EXCEPT
                      ![i] = [addr |-> pg_roundup(addr), len |-> pg_rounddown(len)]],
          n |-> IF i > st.n THEN i ELSE st.n,
          full |-> FALSE]

Store(st) ==
    IF st.full
    THEN phase' = "panic" /\ UNCHANGED <<memmap, mmap_n>>
    ELSE memmap' = st.map /\ mmap_n' = st.n /\ UNCHANGED phase

AddRegion ==
    /\ phase = "add"
    /\ r <= Len(firmware)
    /\ Store(AddMemmap([map |-> memmap, n |-> mmap_n, full |-> FALSE],
                       firmware[r].addr, firmware[r].len))
    /\ r' = r + 1
    /\ UNCHANGED <<firmware, reserved, m>>

StartCutting ==
    /\ phase = "add"
    /\ r > Len(firmware)
    /\ phase' = "cut" /\ r' = 1
    /\ UNCHANGED <<firmware, reserved, memmap, mmap_n, m>>

(***************************************************************************)
(* The range cut_memmap works on, in u32.                                  *)
(***************************************************************************)
CutStart(c) == pg_rounddown(c.start)
CutEndDown(c) == pg_rounddown(c.end)    \* mutant: rounded the wrong way
CutEnd(c) == pg_roundup(c.end)

EntryStart(e) == e.addr % WORD
EntryEnd(e) == (e.addr + e.len) % WORD

Larger(a, b) == IF a < b THEN b ELSE a
Smaller(a, b) == IF a < b THEN a ELSE b

(***************************************************************************)
(* One entry is cut: its slot is freed, and the pieces that are left on    *)
(* either side are added again.                                            *)
(***************************************************************************)
FreeEntry(map, i) == [map EXCEPT ![i] = Empty]

CutEntry(e, start, end) ==
    LET freed == [map |-> FreeEntry(memmap, m), n |-> mmap_n, full |-> FALSE]
        left == AddMemmap(freed, EntryStart(e), start - EntryStart(e))
        right == AddMemmap(left, end, EntryEnd(e) - end)
    IN  Store(right)

Overlaps(start, end) == start < end

SkipsIncrement(cut) == IF cut THEN m + 1 ELSE m     \* mutant: stuck on an entry
NextIndex(cut) == m + 1

(***************************************************************************)
(* cut_memmap: the next range, a turn of the loop, the end of the loop.    *)
(* mmap_n is read again for every turn.                                    *)
(***************************************************************************)
BeginCut ==
    /\ phase = "cut" /\ m = 0
    /\ r <= Len(reserved)
    /\ m' = 1
    /\ UNCHANGED <<firmware, reserved, r, memmap, mmap_n, phase>>

CutTurn ==
    /\ phase = "cut" /\ m \in 1..mmap_n
    /\ LET e == memmap[m]
           start == Larger(CutStart(reserved[r]), EntryStart(e))
           end == Smaller(CutEnd(reserved[r]), EntryEnd(e))
       IN  /\ \/ ~Overlaps(start, end) /\ UNCHANGED <<memmap, mmap_n, phase>>
              \/ Overlaps(start, end) /\ CutEntry(e, start, end)
           /\ m' = NextIndex(Overlaps(start, end))
    /\ UNCHANGED <<firmware, reserved, r>>

EndCut ==
    /\ phase = "cut" /\ m > mmap_n
    /\ m' = 0 /\ r' = r + 1
    /\ UNCHANGED <<firmware, reserved, memmap, mmap_n, phase>>

EndBoot ==
    /\ phase = "cut" /\ m = 0
    /\ r > Len(reserved)
    /\ phase' = "done"
    /\ UNCHANGED <<firmware, reserved, r, memmap, mmap_n, m>>

Step == AddRegion \/ StartCutting \/ BeginCut \/ CutTurn \/ EndCut \/ EndBoot
Stopped == phase \in {"done", "panic"} /\ UNCHANGED vars
Next == Step \/ Stopped

(***************************************************************************)
(* The boot code runs alone, with interrupts off, until it is through.     *)
(***************************************************************************)
Spec == Init /\ [][Next]_vars /\ WF_vars(Step)

-----------------------------------------------------------------------------
(***************************************************************************)
(* Properties                                                              *)
(***************************************************************************)

(***************************************************************************)
(* Types; the entries are page aligned and lie in the slots in use.        *)
(***************************************************************************)
TypeOK ==
    /\ memmap \in [Slots -> [addr : Nat, len : Nat]]
    /\ \A i \in Slots :
          /\ memmap[i].addr % PGSIZE = 0 /\ memmap[i].len % PGSIZE = 0
          /\ i > mmap_n => memmap[i] = Empty
    /\ mmap_n \in 0..MAXMEMMAP
    /\ m \in 0..(MAXMEMMAP + 1)
    /\ phase \in {"add", "cut", "done", "panic"}

(***************************************************************************)
(* The whole pages of a region, and the pages a range touches.             *)
(***************************************************************************)
Pages(e) == ((e.addr + PGSIZE - 1) \div PGSIZE)..((e.addr + e.len) \div PGSIZE - 1)
Touched(c) == (c.start \div PGSIZE)..((c.end + PGSIZE - 1) \div PGSIZE - 1)

(***************************************************************************)
(* A firmware map as firmware writes them: regions that start on a page,   *)
(* end below 4 GiB and do not overlap.                                     *)
(***************************************************************************)
WellFormed ==
    /\ \A i \in DOMAIN firmware :
          /\ firmware[i].addr % PGSIZE = 0
          /\ firmware[i].addr + firmware[i].len < WORD
    /\ \A i, j \in DOMAIN firmware :
          i # j => Pages(firmware[i]) \cap Pages(firmware[j]) = {}

(***************************************************************************)
(* The map handed to init_mem has exactly the firmware's pages that no cut *)
(* touches: nothing reserved is given away and nothing else is lost.       *)
(***************************************************************************)
ExactMap ==
    phase = "done" /\ WellFormed =>
        UNION {Pages(memmap[i]) : i \in Slots}
          = (UNION {Pages(firmware[i]) : i \in DOMAIN firmware})
              \ (UNION {Touched(reserved[i]) : i \in DOMAIN reserved})

(***************************************************************************)
(* Every page is in one entry only, at every step of cutting: init_mem     *)
(* makes each entry a free block.                                          *)
(***************************************************************************)
EntriesDisjoint ==
    WellFormed => \A i, j \in Slots :
        i # j => Pages(memmap[i]) \cap Pages(memmap[j]) = {}

(***************************************************************************)
(* The kernel panics for want of a slot only if the firmware's regions     *)
(* leave fewer free slots than there are ranges to cut: a cut never takes  *)
(* more than one slot.                                                     *)
(***************************************************************************)
PanicsOnlyWhenFull ==
    phase = "panic" /\ WellFormed => Len(firmware) + Len(reserved) > MAXMEMMAP

(***************************************************************************)
(* Booting comes to an end, although cutting adds entries to the map that  *)
(* it goes through, whatever the firmware says.                            *)
(***************************************************************************)
BootEnds == <>(phase \in {"done", "panic"})

(***************************************************************************)
(* What init_mem is left with: the pages that are available and not        *)
(* reserved, each in one entry, and no panic before the slots are used up. *)
(***************************************************************************)
MapRight == TypeOK /\ ExactMap /\ EntriesDisjoint /\ PanicsOnlyWhenFull
=============================================================================
