-------------------------------- MODULE Elf --------------------------------
(***************************************************************************)
(* loadelf (kernel/proc.c) byte by byte, as initsys and sys_execve call    *)
(* it: its two passes over the program headers, the memory it fills and    *)
(* the directory and region list it leaves.  The loader works on a copy of *)
(* struct proc, but the region list, its size and the trap frame are the   *)
(* process's own.  Interrupts are off; a step is a turn of a loop.         *)
(* alloc_pages gives the memory behind what it gave before, or NULL.  A    *)
(* directory is the frame of each user page: its tables are the subject of *)
(* PageTables, the name lookup of Files.                                   *)
(***************************************************************************)
EXTENDS Integers, SequencesExt

CONSTANTS
    Page,       \* bytes of a page
    Word,       \* 2^32: addresses and sizes wrap here
    Kernel,     \* KERNEL_OFFSET
    Stack,      \* STACK_SIZE
    Memory,     \* bytes of physical memory that can be allocated
    Execs,      \* files: [magic, size, entry, ph, bytes], ph a sequence of
                \* [type, off, va, filesz, memsz]
    InitFile,   \* /sbin/init
    MaxCalls    \* bound: calls of loadelf

PT_LOAD == 1
PT_DYNAMIC == 2
PT_INTERP == 3

(***************************************************************************)
(* struct proghdr and struct elfhdr, as far as loadelf reads them; size is *)
(* the inode's and bytes what the program headers point into.              *)
(***************************************************************************)
proghdr == [type : Nat, off : Nat, va : Nat, filesz : Nat, memsz : Nat]
IsElf(f) == f.magic \in BOOLEAN /\ f.entry \in Nat /\ f.ph \in Seq(proghdr)

Junk == -1
None == [none |-> TRUE]

Program(f) == {j \in DOMAIN f.ph : f.ph[j].type = PT_LOAD}

(***************************************************************************)
(* What the linker sees to: a segment has at least the bytes it has in the *)
(* file, starts above page 0 and ends below the stack.                     *)
(***************************************************************************)
ElfAssumption ==
    /\ {Page, Word, Kernel, Stack, Memory} \subseteq Nat /\ Page > 1 /\ Word % Page = 0
    /\ Kernel % Page = 0 /\ Stack % Page = 0 /\ 0 < Stack /\ Stack < Kernel /\ Kernel < Word
    /\ Memory < Word /\ InitFile \in Execs /\ None \notin Execs
    /\ \A f \in Execs : IsElf(f) /\ \A j \in Program(f) :
          LET h == f.ph[j]
          IN  /\ h.va >= Page /\ h.va + h.memsz <= Kernel - Stack
              /\ h.filesz <= h.memsz /\ h.off + h.filesz <= Len(f.bytes)

VARIABLES
    phys,       \* the byte at each physical address
    next,       \* where alloc_pages finds memory
    regions,    \* GETMEMMAP(p): regions [va, pa, len], newest first
    memsz,      \* GETMEMMAP(p)->sz
    eip,        \* p->tf->eip
    cur,        \* curthread: [cr3, base], the directory and mmap_base
    image,      \* history: the file that was loaded last
    calls,      \* history: calls made
    at,         \* "user", "scan" and "load" (the passes), or how the machine
                \* stopped: "assert", "fault"
    loc         \* the locals of loadelf

vars == <<phys, next, regions, memsz, eip, cur, image, calls, at, loc>>

Init ==
    /\ phys = [a \in 0..(Memory - 1) |-> Junk]
    /\ next = 0
    /\ regions = <<>> /\ memsz = 0 /\ eip = 0
    /\ cur = [cr3 |-> <<>>, base |-> 0]
    /\ image = None
    /\ calls = 0
    /\ at = "user"
    /\ loc = None

rounddown(a) == a - (a % Page)
roundup(a) == IF a % Page = 0 THEN a ELSE (a + Page - (a % Page)) % Word

(***************************************************************************)
(* The pages alloc_pt enters in directory d for len bytes.                 *)
(***************************************************************************)
alloc_pt(d, va, pa, len) ==
    LET first == rounddown(va) \div Page
        n == roundup(len) \div Page
    IN  [q \in DOMAIN d \cup first..(first + n - 1) |->
            IF q \in first..(first + n - 1) THEN rounddown(pa) \div Page + q - first ELSE d[q]]

-----------------------------------------------------------------------------
(***************************************************************************)
(* A call: boot loads /sbin/init, a process whatever it names.  An empty   *)
(* file has address 0, where no page is mapped.  -1 is fatal at boot.      *)
(***************************************************************************)
Fails ==
    /\ at' = IF image = None THEN "assert" ELSE "user"
    /\ loc' = None

Shared == <<regions, memsz, eip>>       \* what loadelf changes in place

ClearsAtOnce(f) ==          \* mutant: the old regions go before the file is looked at
    /\ IF f.size = 0 THEN at' = "fault" /\ loc' = None
       ELSE IF ~f.magic THEN Fails
       ELSE /\ at' = "scan"
            /\ loc' = [f |-> f, i |-> 1, min |-> Word - 1, max |-> 0,
                       pd |-> <<>>, mem |-> 0]
    /\ regions' = <<>>
    /\ UNCHANGED <<memsz, eip>>
Open(f) ==
    /\ IF f.size = 0 THEN at' = "fault" /\ loc' = None
       ELSE IF ~f.magic THEN Fails
       ELSE /\ at' = "scan"
            /\ loc' = [f |-> f, i |-> 1, min |-> Word - 1, max |-> 0,
                       pd |-> <<>>, mem |-> 0]
    /\ UNCHANGED Shared

Call ==
    /\ at = "user"
    /\ calls < MaxCalls
    /\ \E f \in IF image = None THEN {InitFile} ELSE Execs : Open(f)
    /\ calls' = calls + 1
    /\ UNCHANGED <<phys, next, cur, image>>

NotFound ==
    /\ at = "user" /\ image # None
    /\ calls < MaxCalls
    /\ calls' = calls + 1
    /\ Fails
    /\ UNCHANGED <<phys, next, Shared, cur, image>>

(***************************************************************************)
(* The first pass: from where to where.  The number of segments, for the   *)
(* array of regions, is left out.                                          *)
(***************************************************************************)
Higher(max, end) == IF end > max THEN end ELSE max

ScanTurn ==
    LET h == loc.f.ph[loc.i]
        start == rounddown(h.va)
        end == roundup((h.va + h.memsz) % Word)
    IN  /\ at = "scan" /\ loc.i <= Len(loc.f.ph)
        /\ IF h.type \in {PT_DYNAMIC, PT_INTERP} THEN Fails
           ELSE /\ loc' = IF h.type # PT_LOAD THEN [loc EXCEPT !.i = @ + 1]
                          ELSE [loc EXCEPT !.i = @ + 1,
                                           !.min = IF start < @ THEN start ELSE @,
                                           !.max = Higher(@, end)]
                /\ UNCHANGED at
        /\ UNCHANGED <<phys, next, Shared, cur, image, calls>>

(***************************************************************************)
(* Between the passes: the old regions go, the new memory is cleared.      *)
(* With no segment at all, max - min wraps to one byte.  NULL is not       *)
(* looked at: memset writes to page 0.                                     *)
(***************************************************************************)
Size(l) == roundup((l.max - l.min + Stack) % Word)

Cleared(m, a, sz) == [b \in DOMAIN m |-> IF b \in a..(a + sz - 1) THEN 0 ELSE m[b]]

Allocate ==
    LET sz == Size(loc)
    IN  /\ at = "scan" /\ loc.i > Len(loc.f.ph)
        /\ regions' = <<>>
        /\ IF next + sz > Memory
           THEN at' = "fault" /\ loc' = None /\ UNCHANGED <<phys, next, memsz>>
           ELSE /\ at' = "load"
                /\ phys' = Cleared(phys, next, sz)
                /\ next' = next + sz
                /\ memsz' = sz
                /\ loc' = [loc EXCEPT !.i = 1, !.mem = next]
        /\ UNCHANGED <<eip, cur, image, calls>>

(***************************************************************************)
(* The second pass: a region of whole pages, the bytes of the file at the  *)
(* segment's offset in its first page, the pages entered, and mem moved on *)
(* by the pages of the segment's size.  memmove is the one of Strings,     *)
(* between ranges that are apart.                                          *)
(***************************************************************************)
Region(h, mem) == [va |-> h.va, pa |-> mem, len |-> roundup(h.memsz + (h.va % Page))]

AtPageStart(m, h, mem, bytes) ==        \* mutant: the offset in the page forgotten
    [b \in DOMAIN m |-> IF b \in mem..(mem + h.filesz - 1) THEN bytes[h.off + b - mem + 1] ELSE m[b]]
CopySegment(m, h, mem, bytes) ==
    LET d == mem + (h.va % Page)
    IN  [b \in DOMAIN m |-> IF b \in d..(d + h.filesz - 1) THEN bytes[h.off + b - d + 1] ELSE m[b]]

LoadTurn ==
    LET h == loc.f.ph[loc.i]
        r == Region(h, loc.mem)
    IN  /\ at = "load" /\ loc.i <= Len(loc.f.ph)
        /\ IF h.type # PT_LOAD
           THEN loc' = [loc EXCEPT !.i = @ + 1] /\ UNCHANGED <<phys, regions>>
           ELSE /\ regions' = <<r>> \o regions
                /\ phys' = CopySegment(phys, h, loc.mem, loc.f.bytes)
                /\ loc' = [loc EXCEPT !.i = @ + 1,
                                      !.pd = alloc_pt(@, r.va, r.pa, r.len),
                                      !.mem = @ + roundup(h.memsz)]
        /\ UNCHANGED <<next, memsz, eip, cur, image, calls, at>>

(***************************************************************************)
(* The stack comes last; loadelf returns 0 and sys_execve stores the copy. *)
(***************************************************************************)
Finish ==
    LET r == [va |-> Kernel - Stack, pa |-> loc.mem, len |-> Stack]
    IN  /\ at = "load" /\ loc.i > Len(loc.f.ph)
        /\ regions' = <<r>> \o regions
        /\ eip' = loc.f.entry
        /\ cur' = [cr3 |-> alloc_pt(loc.pd, r.va, r.pa, r.len), base |-> loc.max]
        /\ image' = loc.f
        /\ at' = "user"
        /\ loc' = None
        /\ UNCHANGED <<phys, next, memsz, calls>>

Done ==
    /\ at \in {"assert", "fault"} \/ (at = "user" /\ calls = MaxCalls)
    /\ UNCHANGED vars

Next == Call \/ NotFound \/ ScanTurn \/ Allocate \/ LoadTurn \/ Finish \/ Done

Spec == Init /\ [][Next]_vars

-----------------------------------------------------------------------------
(***************************************************************************)
(* Properties                                                              *)
(***************************************************************************)
PagesOf(h) == (h.va \div Page)..((h.va + h.memsz - 1) \div Page)

(***************************************************************************)
(* Images as ld makes them here: no page belongs to two segments, and no   *)
(* segment reaches into one more page than its size fills.                 *)
(***************************************************************************)
PageDisjoint(f) ==
    \A j, l \in Program(f) : j # l => PagesOf(f.ph[j]) \cap PagesOf(f.ph[l]) = {}
StaysInSize(f) ==
    \A j \in Program(f) :
        LET h == f.ph[j] IN (h.va % Page) + h.memsz <= roundup(h.memsz)

Reads(a) == phys[cur.cr3[a \div Page] * Page + (a % Page)]

(***************************************************************************)
(* A process always has the image of its last successful execve in its     *)
(* address space: every byte of a segment is the file's, or 0 behind       *)
(* filesz, and the stack is 0; also while loadelf, which may yet return    *)
(* -1, fills the memory of the next one.                                   *)
(***************************************************************************)
RunsImage ==
    image # None /\ PageDisjoint(image) /\ StaysInSize(image) =>
        /\ eip = image.entry
        /\ \A j \in Program(image) :
              LET h == image.ph[j]
              IN  \A b \in 0..(h.memsz - 1) :
                     Reads(h.va + b) = IF b < h.filesz THEN image.bytes[h.off + b + 1] ELSE 0
        /\ \A a \in (Kernel - Stack)..(Kernel - 1) : Reads(a) = 0

(***************************************************************************)
(* Whenever a process runs, its region list, which sys_fork copies by,     *)
(* describes the directory it runs on: each page maps to the frame the     *)
(* newest region with that page gives it, and no other page is mapped.     *)
(* After an execve that failed too.                                        *)
(***************************************************************************)
RegionPages(r) == (r.va \div Page)..(r.va \div Page + r.len \div Page - 1)

ListDescribes ==
    at = "user" =>
        /\ DOMAIN cur.cr3 = UNION {RegionPages(regions[j]) : j \in DOMAIN regions}
        /\ \A q \in DOMAIN cur.cr3 :
              LET j == Min({l \in DOMAIN regions : q \in RegionPages(regions[l])})
              IN  cur.cr3[q] = regions[j].pa \div Page + q - regions[j].va \div Page

(***************************************************************************)
(* What is mapped was allocated: every frame lies in the sz bytes of the   *)
(* last loadelf that returned 0, although sz is computed from the ends of  *)
(* the image and mem moves by the sizes of its parts.                      *)
(***************************************************************************)
WithinSize ==
    at = "user" /\ image # None /\ PageDisjoint(image) =>
        \A j, l \in DOMAIN regions :
            regions[j].pa + regions[j].len - regions[l].pa <= memsz

(***************************************************************************)
(* sys_mmap hands out addresses from mmap_base up: no segment lies there,  *)
(* in whatever order the headers name them.                                *)
(***************************************************************************)
RoomAbove ==
    image # None =>
        \A j \in Program(image) : image.ph[j].va + image.ph[j].memsz <= cur.base

(***************************************************************************)
(* What later calls rely on agrees with what loadelf has mapped: the       *)
(* region list (sys_fork), the size allocated (sys_fork) and mmap_base     *)
(* (sys_mmap).                                                             *)
(***************************************************************************)
Described == ListDescribes /\ WithinSize /\ RoomAbove
=============================================================================
