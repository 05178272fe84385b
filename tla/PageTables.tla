----------------------------- MODULE PageTables -----------------------------
(***************************************************************************)
(* Page directories and page tables, in the width of the machine: the      *)
(* boot's pg_clear, pg_identity, pg_enable and pg_clear_identity           *)
(* (kernel/paging.c), copykvm and alloc_pt (kernel/mem.c), and sys_mmap    *)
(* down to the entries it writes.  An address is a number below Span, and  *)
(* sums wrap there as u32 does.  An entry is an address and a set of       *)
(* flags.  There is no TLB: a walk reads the entries as they are.  Which   *)
(* regions loadelf and sys_fork map is module Vm's subject: here they call *)
(* copykvm and then alloc_pt for any regions.                              *)
(***************************************************************************)
EXTENDS Integers, FiniteSetsExt, Functions

CONSTANTS
    PgSize,         \* 0x1000
    NEntries,       \* entries of a page table, 1024
    NDir,           \* entries of a page directory, 1024
    KPhysBase,      \* _kernel_physical_base
    KUnpagedEnd,    \* _kernel_unpaged_end
    StackSize,      \* STACK_SIZE
    Frames,         \* addresses of the pages alloc_pages starts with
    Fbs,            \* frame buffers [addr, size] a boot loader may report
    Procs,
    Regions,        \* regions [va, pa, len] that loadelf and sys_fork map
    Lens            \* lengths, in bytes, that sys_mmap is asked for

BigSize == PgSize * NEntries        \* what an entry with PG_PSE maps
Span == BigSize * NDir              \* 2^32
KERNEL_OFFSET == Span \div 2
MMAP_LIMIT == KERNEL_OFFSET - StackSize

SizesAssumption ==
    /\ {PgSize, NEntries, NDir, StackSize, KPhysBase, KUnpagedEnd} \subseteq Nat
    /\ PgSize > 1 /\ NEntries > 1 /\ NDir > 1 /\ NDir % 2 = 0
    /\ StackSize % PgSize = 0 /\ StackSize < KERNEL_OFFSET
    /\ KPhysBase < KUnpagedEnd /\ KUnpagedEnd < KERNEL_OFFSET
RegionsAssumption ==
    /\ Frames \subseteq Nat
    /\ \A f \in Frames : f % PgSize = 0 /\ 0 < f /\ f < KERNEL_OFFSET
    /\ \A b \in Fbs : b.addr \in Nat /\ b.size \in Nat /\ b.addr + b.size <= Span
    /\ \A r \in Regions : r.va \in Nat /\ r.pa \in Nat /\ r.len \in Nat
                          /\ r.len > 0 /\ r.va + r.len <= KERNEL_OFFSET
    /\ Lens \subseteq Nat /\ \A n \in Lens : 0 < n /\ n < Span

(***************************************************************************)
(* vm.h                                                                    *)
(***************************************************************************)
v2p(x) == x % KERNEL_OFFSET
p2v(x) == v2p(x) + KERNEL_OFFSET
rounddown(x, a) == x - (x % a)
roundup(x, a) == IF x % a = 0 THEN x ELSE (x + a - (x % a)) % Span

Entry(a, flags) == [a |-> a, fl |-> flags]
Zero == Entry(0, {})
Present(e) == "P" \in e.fl
UserFlags == {"US", "RW", "P"}

Pdes == 0..(NDir - 1)
Ptes == 0..(NEntries - 1)
Pde(va) == va \div BigSize
Pte(va) == (va \div PgSize) % NEntries
KernelPdes == {i \in Pdes : i >= Pde(KERNEL_OFFSET)}

VARIABLES
    mode,       \* how far the boot is: "boot", "clear", "identity", "paging",
                \* then "run"; "fault" once a NULL is written through,
                \* "smashed" once alloc_pt writes into a big page
    fb,         \* the frame buffer of this machine
    kpagedir,   \* the kernel's page directory
    pagedir,    \* the page directories of processes
    tables,     \* the contents of frames that are page tables
    free,       \* pages alloc_pages can give
    mmapbase,   \* mmap_base of each process
    want,       \* history: the page each process was given at each page
    req         \* history: the request sys_mmap stopped at

vars == <<mode, fb, kpagedir, pagedir, tables, free, mmapbase, want, req>>
boot == <<fb, kpagedir>>
space == <<pagedir, tables, free, mmapbase, want, req>>

Unmapped == -1
UserPages == {a \in 0..(KERNEL_OFFSET - 1) : a % PgSize = 0}
EmptyDir == [i \in Pdes |-> Zero]
EmptyTable == [i \in Ptes |-> Zero]
NoDir == [i \in {} |-> Zero]

Init ==
    /\ mode = "boot"
    /\ fb \in Fbs
    /\ kpagedir \in {EmptyDir, [i \in Pdes |-> Entry(0, {"P"})]}   \* any contents
    /\ pagedir = [p \in Procs |-> NoDir]
    /\ tables = [f \in Frames |-> EmptyTable]
    /\ free = Frames
    /\ mmapbase = [p \in Procs |-> 0]
    /\ want = [p \in Procs |-> [a \in UserPages |-> Unmapped]]
    /\ req = [base |-> 0, len |-> 0]

-----------------------------------------------------------------------------
(***************************************************************************)
(* Boot: init_trunix calls pg_clear, pg_identity and pg_enable, kmain      *)
(* pg_clear_identity, and init_mem takes the directory in cr3 as kpagedir. *)
(***************************************************************************)
PgClear ==
    /\ mode = "boot"
    /\ mode' = "clear"
    /\ kpagedir' = EmptyDir
    /\ UNCHANGED <<fb, space>>

(***************************************************************************)
(* The entries of the frame buffer, [fbndx, fbndx_end).                    *)
(***************************************************************************)
FbPdesShort(b) == Pde(b.addr)..(Pde((b.addr + b.size) % Span) - 1)  \* mutant: size not rounded
FbPdes(b) == Pde(b.addr)..(Pde((b.addr + roundup(b.size, BigSize)) % Span) - 1)

IdentityDir(b) ==
    [i \in Pdes |->
        IF i \in KernelPdes \ FbPdes(b)
        THEN Entry((i * BigSize + KERNEL_OFFSET) % Span, {"G", "PSE", "RW", "P"})
        ELSE Entry(i * BigSize, {"PSE", "RW", "P"})]

PgIdentity ==
    /\ mode = "clear"
    /\ mode' = "identity"
    /\ kpagedir' = IdentityDir(fb)
    /\ UNCHANGED <<fb, space>>

PgEnable ==
    /\ mode = "identity"
    /\ mode' = "paging"
    /\ UNCHANGED <<boot, space>>

(***************************************************************************)
(* pg_clear_identity leaves out the entries above the kernel's first and   *)
(* those below the end of its unpaged part.  In the paged half of the      *)
(* kernel _kernel_unpaged_end is that end less the offset, which the code  *)
(* adds again, in u32.  One entry at most is left to clear.                *)
(***************************************************************************)
UnpagedEnd == (KUnpagedEnd + Span - KERNEL_OFFSET) % Span
Cleared == {i \in Pdes : i <= Pde(KPhysBase)
                         /\ i >= Pde((KERNEL_OFFSET + UnpagedEnd) % Span)}
PgClearIdentity ==
    /\ mode = "paging"
    /\ mode' = "run"
    /\ kpagedir' = [i \in Pdes |-> IF i \in Cleared THEN Zero ELSE kpagedir[i]]
    /\ UNCHANGED <<fb, space>>

-----------------------------------------------------------------------------
(***************************************************************************)
(* alloc_pages(len): the first page of a run of free ones.                 *)
(***************************************************************************)
Run(f, len) == {f + k * PgSize : k \in 0..((roundup(len, PgSize) \div PgSize) - 1)}
Fits(F, len) == \E f \in F : Run(f, len) \subseteq F
AllocPages(F, len) == CHOOSE f \in F : Run(f, len) \subseteq F

(***************************************************************************)
(* copykvm: a cleared page and the kernel half of kpagedir.                *)
(***************************************************************************)
copyall == kpagedir                 \* mutant: the lower half is copied too
copykvm == [i \in Pdes |-> IF i \in KernelPdes THEN kpagedir[i] ELSE Zero]

NewDirectory(p) ==
    /\ mode = "run"
    /\ IF free = {}
       THEN mode' = "fault" /\ UNCHANGED <<boot, space>>
       ELSE /\ pagedir' = [pagedir EXCEPT ![p] = copykvm]
            /\ free' = free \ {AllocPages(free, PgSize)}
            /\ want' = [want EXCEPT ![p] = [a \in UserPages |-> Unmapped]]
            /\ \E b \in {0} \cup {roundup(r.va + r.len, PgSize) : r \in Regions} :
                  mmapbase' = [mmapbase EXCEPT ![p] = b]
            /\ UNCHANGED <<mode, boot, tables, req>>

(***************************************************************************)
(* One turn of alloc_pt's loop, on s = [mode, dir, tables, free].  A table *)
(* is taken and cleared where the directory has none.  Where it has a big  *)
(* page, the loop takes the memory behind it for a table.                  *)
(***************************************************************************)
MapAlwaysNew(s, va, pa) ==          \* mutant: a table is taken every time
    LET f == AllocPages(s.free, PgSize) IN
    [s EXCEPT !.free = @ \ {f}, !.dir[Pde(va)] = Entry(f, UserFlags),
              !.tables[f] = [EmptyTable EXCEPT ![Pte(va)] = Entry(pa, UserFlags)]]
MapOne(s, va, pa) ==
    LET e == s.dir[Pde(va)]
        f == AllocPages(s.free, PgSize)
    IN  IF s.mode # "run" THEN s ELSE
        CASE "PSE" \in e.fl -> [s EXCEPT !.mode = "smashed"]
          [] "PSE" \notin e.fl /\ ~Present(e) /\ s.free = {} -> [s EXCEPT !.mode = "fault"]
          [] "PSE" \notin e.fl /\ ~Present(e) /\ s.free # {} ->
                [s EXCEPT !.free = @ \ {f},
                          !.dir[Pde(va)] = Entry(f, UserFlags),
                          !.tables[f] = [EmptyTable EXCEPT ![Pte(va)] = Entry(pa, UserFlags)]]
          [] OTHER ->
                [s EXCEPT !.dir[Pde(va)].fl = @ \cup UserFlags,
                          !.tables[e.a][Pte(va)] = Entry(pa, UserFlags)]

alloc_pt(s, va, pa, len) ==
    LET n == roundup(len, PgSize) \div PgSize
        turn[i \in 0..n] ==
            IF i = 0 THEN s
            ELSE MapOne(turn[i - 1],
                        (rounddown(va, PgSize) + (i - 1) * PgSize) % Span,
                        (rounddown(pa, PgSize) + (i - 1) * PgSize) % Span)
    IN  turn[n]

Space(p, F) == [mode |-> mode, dir |-> pagedir[p], tables |-> tables, free |-> F]

(***************************************************************************)
(* What the caller of alloc_pt means: page after page, from va on.         *)
(***************************************************************************)
Wanted(w, va, pa, len) ==
    [a \in UserPages |->
        LET d == a - rounddown(va, PgSize) IN
        IF d >= 0 /\ d < roundup(len, PgSize) THEN (rounddown(pa, PgSize) + d) % Span ELSE w[a]]

Became(p, s, w) ==
    /\ mode' = s.mode
    /\ pagedir' = [pagedir EXCEPT ![p] = s.dir]
    /\ tables' = s.tables
    /\ free' = s.free
    /\ want' = IF s.mode = "run" THEN [want EXCEPT ![p] = w] ELSE want
    /\ UNCHANGED boot

(***************************************************************************)
(* loadelf and sys_fork map a region.                                      *)
(***************************************************************************)
MapRegion(p, r) ==
    /\ mode = "run" /\ pagedir[p] # NoDir
    /\ Became(p, alloc_pt(Space(p, free), r.va, r.pa, r.len),
                 Wanted(want[p], r.va, r.pa, r.len))
    /\ UNCHANGED <<mmapbase, req>>

(***************************************************************************)
(* sys_mmap: len is rounded and added in u32.  An anonymous mapping takes  *)
(* its pages, unchecked (alloc_pages(0) gives back what it took, but the   *)
(* only block of the list is lost that way); the frame buffer sets pa to   *)
(* its address and puts no bound on len; a closed descriptor returns -1.   *)
(***************************************************************************)
Refused(p, len) == (mmapbase[p] + len) % Span >= MMAP_LIMIT

NextBase(p, len) == (mmapbase[p] + len) % Span

MapAt(p, pa, len, F) ==
    /\ Became(p, alloc_pt(Space(p, F), mmapbase[p], pa, len),
                 Wanted(want[p], mmapbase[p], pa, len))
    /\ mmapbase' = [mmapbase EXCEPT ![p] = NextBase(p, len)]
    /\ req' = [base |-> mmapbase[p], len |-> len]

Anonymous(p, len) ==
    CASE len = 0 -> \E F \in {free, {}} : MapAt(p, 0, 0, F)
      [] len > 0 /\ Fits(free, len) ->
            MapAt(p, AllocPages(free, len), len, free \ Run(AllocPages(free, len), len))
      [] OTHER -> mode' = "fault" /\ UNCHANGED <<boot, space>>

SysMmap(p, bytes, kind) ==
    /\ mode = "run" /\ pagedir[p] # NoDir
    /\ LET len == roundup(bytes, PgSize) IN
       IF Refused(p, len) \/ kind = "closed"
       THEN UNCHANGED vars
       ELSE CASE kind = "anon" -> Anonymous(p, len)
              [] kind = "fb" -> MapAt(p, fb.addr, len, free)

Stopped == mode \in {"fault", "smashed"} /\ UNCHANGED vars

Next ==
    \/ PgClear \/ PgIdentity \/ PgEnable \/ PgClearIdentity
    \/ \E p \in Procs :
          \/ NewDirectory(p)
          \/ \E r \in Regions : MapRegion(p, r)
          \/ \E n \in Lens : \E kind \in {"anon", "fb", "closed"} : SysMmap(p, n, kind)
    \/ Stopped

Spec == Init /\ [][Next]_vars

-----------------------------------------------------------------------------
(***************************************************************************)
(* The processor's walk: the address a virtual address reaches in a        *)
(* directory, and whether user code may use it.                            *)
(***************************************************************************)
NoPage == [a |-> Unmapped, user |-> FALSE]
Walk(d, va) ==
    LET e == d[Pde(va)]
        t == tables[e.a][Pte(va)]
    IN  CASE ~Present(e) -> NoPage
          [] Present(e) /\ "PSE" \in e.fl ->
                [a |-> e.a + (va % BigSize), user |-> "US" \in e.fl]
          [] OTHER -> IF Present(t)
                      THEN [a |-> t.a + (va % PgSize),
                            user |-> "US" \in e.fl /\ "US" \in t.fl]
                      ELSE NoPage

Directories == {kpagedir} \cup {pagedir[p] : p \in {q \in Procs : pagedir[q] # NoDir}}

(***************************************************************************)
(* Types.                                                                  *)
(***************************************************************************)
TypeOK ==
    /\ mode \in {"boot", "clear", "identity", "paging", "run", "fault", "smashed"}
    /\ fb \in Fbs
    /\ \A d \in Directories : DOMAIN d = Pdes
    /\ free \subseteq Frames
    /\ mmapbase \in [Procs -> 0..(Span - 1)]
    /\ want \in [Procs -> [UserPages -> {Unmapped} \cup (0..(Span - 1))]]

(***************************************************************************)
(* What p2v relies on: in every directory the machine may have loaded, the *)
(* kernel's own and each process's, the kernel reaches each page of the    *)
(* allocator at p2v of its address, and user code does not, unless the     *)
(* frame buffer's entries hide the page.                                   *)
(***************************************************************************)
KernelReaches ==
    mode = "run" => \A d \in Directories, f \in Frames :
        Pde(p2v(f)) \notin FbPdes(fb) => Walk(d, p2v(f)) = [a |-> f, user |-> FALSE]

(***************************************************************************)
(* The console writes to the frame buffer at its physical address, in the  *)
(* directory of whatever process runs: all of it is mapped there, for a    *)
(* frame buffer in the upper half that starts on a big page and ends       *)
(* below 4 GiB.  (One in the lower half is lost in copykvm, one that       *)
(* starts inside a big page may lose its end.)                             *)
(***************************************************************************)
FbReached ==
    LET end == fb.addr + roundup(fb.size, BigSize) IN
    mode = "run" /\ fb.addr % BigSize = 0 /\ fb.addr >= KERNEL_OFFSET /\ end < Span =>
        \A d \in Directories, va \in fb.addr..(fb.addr + fb.size - 1) :
            Walk(d, va) = [a |-> va, user |-> FALSE]

(***************************************************************************)
(* A process sees at each of its pages the page it was last given there,   *)
(* through any order of copykvm, alloc_pt and sys_mmap, and nothing where  *)
(* it was given none: regions that share a page table do not disturb each  *)
(* other.                                                                  *)
(***************************************************************************)
WalkAgrees ==
    mode = "run" => \A p \in Procs : pagedir[p] # NoDir =>
        \A va \in UserPages :
            Walk(pagedir[p], va) = [a |-> want[p][va], user |-> want[p][va] # Unmapped]

(***************************************************************************)
(* sys_mmap's test against MMAP_LIMIT keeps alloc_pt out of the kernel     *)
(* half, and leaves the page of the stack alone, for every length whose    *)
(* sum with mmap_base does not wrap.                                       *)
(***************************************************************************)
LimitHolds ==
    req.base + req.len < Span => mode # "smashed" /\ req.base + req.len <= MMAP_LIMIT

(***************************************************************************)
(* What the kernel needs in every directory: its own half and the frame    *)
(* buffer.                                                                 *)
(***************************************************************************)
Reached == KernelReaches /\ FbReached

(***************************************************************************)
(* What processes need: the pages they were given, and nothing of          *)
(* sys_mmap's above its limit.                                             *)
(***************************************************************************)
Mapped == WalkAgrees /\ LimitHolds
=============================================================================
