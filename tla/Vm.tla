--------------------------------- MODULE Vm ---------------------------------
(***************************************************************************)
(* The address spaces of trunix: what loadelf, sys_fork and sys_execve     *)
(* (kernel/proc.c) and sys_mmap (kernel/mem.c) do to a process's regions   *)
(* and to physical memory.  A region maps n virtual pages from va to the n *)
(* frames from pa.  alloc_pages is taken at the word of PagePool: a run of *)
(* frames nobody holds, or NULL.  A page directory and its page tables     *)
(* count as one frame.  System calls run with interrupts off, one at a     *)
(* time, in any order of the processes.                                    *)
(***************************************************************************)
EXTENDS Integers, SequencesExt

CONSTANTS
    MaxPid,      \* bound: pids handed out
    Frames,      \* the frames of physical memory that can be allocated
    Device,      \* the first frame of the frame buffer
    FbPages,     \* how many pages the frame buffer has
    Images,      \* executables: sequences of PT_LOAD segments [va, memsz]
    InitImage,   \* /sbin/init
    StackPages,  \* STACK_SIZE in pages
    KernelPage,  \* KERNEL_OFFSET in pages
    MmapLimit,   \* MMAP_LIMIT in pages
    MmapLens,    \* bound: lengths, in pages, that are mapped
    JunkSz       \* what memtab[].sz may hold before loadelf sets it

PGSIZE == 4096
Procs == 1..MaxPid
Run(f, n) == f..(f + n - 1)

roundup(x) == ((x + PGSIZE - 1) \div PGSIZE) * PGSIZE

(***************************************************************************)
(* The pages a segment touches, and the pages loadelf moves on by.         *)
(***************************************************************************)
SegPages(s) == roundup(s.memsz + (s.va % PGSIZE)) \div PGSIZE
SegStep(s) == roundup(s.memsz) \div PGSIZE
SegFirst(s) == s.va \div PGSIZE

(***************************************************************************)
(* Linkers align segments to pages: no two of an image touch the same one. *)
(***************************************************************************)
ASSUME ImagesAssumption ==
    /\ InitImage \in Images
    /\ \A img \in Images :
          /\ img \in Seq([va : Nat, memsz : Nat]) /\ Len(img) > 0
          /\ \A i \in DOMAIN img : img[i].va >= PGSIZE /\ img[i].memsz > 0
          /\ \A i, j \in DOMAIN img : i < j =>
                SegFirst(img[i]) + SegPages(img[i]) <= SegFirst(img[j])
ASSUME LayoutAssumption ==
    /\ MaxPid \in Nat \ {0} /\ Frames \subseteq Nat /\ Device \in Nat
    /\ StackPages \in Nat \ {0} /\ KernelPage \in Nat /\ MmapLimit \in Nat /\ MmapLimit < KernelPage
    /\ MmapLens \subseteq Nat /\ JunkSz \subseteq Nat /\ FbPages \in Nat
    /\ Run(Device, FbPages) \cap Frames = {}

(***************************************************************************)
(* Images are linked below the end of the addresses sys_mmap gives out;    *)
(* loadelf does not check it.                                              *)
(***************************************************************************)
ASSUME AddressesAssumption ==
    /\ StackPages <= KernelPage
    /\ \A img \in Images : \A i \in DOMAIN img :
          SegFirst(img[i]) + SegPages(img[i]) <= MmapLimit

VARIABLES
    proc,       \* each process: "none", "live" or "dead"
    image,      \* the image each process runs
    regions,    \* memtab[]'s list of regions, newest first
    memsz,      \* memtab[].sz, in pages
    mmapbase,   \* where the next mmap goes
    free,       \* frames alloc_pages can give
    kern,       \* frames of kernel stacks and page directories
    pid,        \* the next pid
    mode,       \* "run", or how the machine stopped: "assert" (the kernel
                \* stack of alloc_thread), "fault" (a NULL that was not
                \* checked), "panic" (init exits), "overrun" (sys_fork has
                \* copied over the kernel's own data)
    stray       \* history: the processes whose present regions go past the
                \* memory they were given, by one of two ways: sys_fork had
                \* more to copy than it allocated, or sys_mmap mapped more of
                \* the frame buffer than there is

vars == <<proc, image, regions, memsz, mmapbase, free, kern, pid, mode, stray>>

(***************************************************************************)
(* alloc_pages: where n pages can be had.                                  *)
(***************************************************************************)
Fits(F, n) == \E f \in F : Run(f, n) \subseteq F
AllocPages(F, n) == CHOOSE f \in F : Run(f, n) \subseteq F

(***************************************************************************)
(* Frames for consecutive pieces of the given lengths, from mem on.        *)
(***************************************************************************)
Offsets(steps, mem) ==
    LET off[i \in 0..Len(steps)] == IF i = 0 THEN mem ELSE off[i - 1] + steps[i]
    IN  off

TotalPages(list) == Offsets([i \in DOMAIN list |-> list[i].n], 0)[Len(list)]

(***************************************************************************)
(* loadelf: the size it allocates, and the regions it builds.  A region    *)
(* covers the pages the segment touches, but mem advances by the pages of  *)
(* the segment's size alone.                                               *)
(***************************************************************************)
ImageEnd(img) == Max({SegFirst(img[i]) + SegPages(img[i]) : i \in DOMAIN img})
ImageSize(img) ==
    ImageEnd(img) - Min({SegFirst(img[i]) : i \in DOMAIN img}) + StackPages

(***************************************************************************)
(* memtab[].sz: what sys_fork will allocate for a copy.                    *)
(***************************************************************************)
SizeNoStack(img) == ImageSize(img) - StackPages     \* mutant: no stack in sz
RecordedSize(img) == ImageSize(img)

NextMemSame(s) == 0                                 \* mutant: mem never moves
NextMem(s) == SegStep(s)

Layout(img, mem) ==
    LET off == Offsets([i \in DOMAIN img |-> NextMem(img[i])], mem)
        segs == [i \in DOMAIN img |->
                    [va |-> SegFirst(img[i]), pa |-> off[i - 1], n |-> SegPages(img[i])]]
        stack == [va |-> KernelPage - StackPages, pa |-> off[Len(img)], n |-> StackPages]
    IN  Reverse(Append(segs, stack))

(***************************************************************************)
(* initsys has loaded /sbin/init, for which there was memory; pid 1 has a  *)
(* kernel stack and a page directory.                                      *)
(***************************************************************************)
ASSUME InitFits ==
    LET ks == AllocPages(Frames, 1)
        pd == AllocPages(Frames \ {ks}, 1)
    IN  Fits(Frames \ {ks, pd}, ImageSize(InitImage))

Init ==
    LET ks == AllocPages(Frames, 1)
        pd == AllocPages(Frames \ {ks}, 1)
        rest == Frames \ {ks, pd}
        sz == ImageSize(InitImage)
        mem == AllocPages(rest, sz)
    IN  /\ proc = [p \in Procs |-> IF p = 1 THEN "live" ELSE "none"]
        /\ image = [p \in Procs |-> InitImage]
        /\ regions = [p \in Procs |-> IF p = 1 THEN Layout(InitImage, mem) ELSE <<>>]
        /\ \E junk \in JunkSz :
              memsz = [p \in Procs |-> IF p = 1 THEN RecordedSize(InitImage) ELSE junk]
        /\ mmapbase = [p \in Procs |-> IF p = 1 THEN ImageEnd(InitImage) ELSE 0]
        /\ free = rest \ Run(mem, sz)
        /\ kern = {ks, pd}
        /\ pid = 2
        /\ mode = "run"
        /\ stray = {}

Caller(p) == mode = "run" /\ proc[p] = "live"

Stop(how) ==
    /\ mode' = how
    /\ UNCHANGED <<proc, image, regions, memsz, mmapbase, free, kern, pid, stray>>

(***************************************************************************)
(* sys_fork copies the parent's regions, in list order, one after the      *)
(* other; the child's list comes out in the opposite order.                *)
(***************************************************************************)
CopySamePlace(list, mem) == list    \* mutant: the child keeps the parent's frames

Copy(list, mem) ==
    LET off == Offsets([i \in DOMAIN list |-> list[i].n], mem)
    IN  Reverse([i \in DOMAIN list |-> [list[i] EXCEPT !.pa = off[i - 1]]])

(***************************************************************************)
(* Where the copy goes past the block, which nothing checks.  What it hits *)
(* may be another process's memory or pixels, and the machine goes on; or  *)
(* a free block, with its header, a kernel stack, a page directory or      *)
(* memory alloc_pages never had, and nothing is said of what the kernel    *)
(* does after that.                                                        *)
(***************************************************************************)
Spills(p) == TotalPages(regions[p]) > memsz[p]
Spill(p, mem) == Run(mem + memsz[p], TotalPages(regions[p]) - memsz[p])
NoKernelData(F, K) == (Frames \ (F \cup K)) \cup Run(Device, FbPages)

(***************************************************************************)
(* The child is made, whether the copy fits or not.  Its mmap_base and     *)
(* memtab size stay as they are: mmap_base is 0 from the cleared kernel    *)
(* stack page, the size whatever was there.                                *)
(***************************************************************************)
ForkChild(p, ks, mem, pd) ==
    /\ proc' = [proc EXCEPT ![pid] = "live"]
    /\ image' = [image EXCEPT ![pid] = image[p]]
    /\ regions' = [regions EXCEPT ![pid] = Copy(regions[p], mem)]
    /\ free' = free \ (Run(mem, memsz[p]) \cup {ks, pd})
    /\ kern' = kern \cup {ks, pd}
    /\ pid' = pid + 1
    /\ \/ ~Spills(p) /\ UNCHANGED <<mode, stray>>
       \/ /\ Spills(p)
          /\ stray' = stray \cup {pid}
          /\ mode' = IF Spill(p, mem) \subseteq NoKernelData(free', kern')
                     THEN "run" ELSE "overrun"
    /\ UNCHANGED <<memsz, mmapbase>>

(***************************************************************************)
(* sys_fork gives up without the child's memory: pid and stack are gone.   *)
(***************************************************************************)
ForkNoMemory(p, ks) ==
    /\ ~Fits(free \ {ks}, memsz[p])
    /\ free' = free \ {ks}
    /\ kern' = kern \cup {ks}
    /\ pid' = pid + 1
    /\ UNCHANGED <<proc, image, regions, memsz, mmapbase, mode, stray>>

SysFork(p) ==
    /\ Caller(p)
    /\ pid <= MaxPid
    /\ \/ free = {} /\ Stop("assert")
       \/ /\ free # {}
          /\ LET ks == AllocPages(free, 1)
                 F1 == free \ {ks}
                 mem == AllocPages(F1, memsz[p])
                 F2 == F1 \ Run(mem, memsz[p])
             IN  \/ ForkNoMemory(p, ks)
                 \/ Fits(F1, memsz[p]) /\ F2 = {} /\ Stop("fault")
                 \/ /\ Fits(F1, memsz[p]) /\ F2 # {}
                    /\ ForkChild(p, ks, mem, AllocPages(F2, 1))

(***************************************************************************)
(* sys_execve: the new page directory, then the new memory, neither of     *)
(* them checked.  The old regions are forgotten, not freed.                *)
(***************************************************************************)
SysExecve(p, img) ==
    /\ Caller(p)
    /\ LET pd == AllocPages(free, 1)
           F1 == free \ {pd}
           sz == ImageSize(img)
           mem == AllocPages(F1, sz)
       IN  \/ free = {} /\ Stop("fault")
           \/ free # {} /\ ~Fits(F1, sz) /\ Stop("fault")
           \/ /\ free # {} /\ Fits(F1, sz)
              /\ image' = [image EXCEPT ![p] = img]
              /\ regions' = [regions EXCEPT ![p] = Layout(img, mem)]
              /\ memsz' = [memsz EXCEPT ![p] = RecordedSize(img)]
              /\ mmapbase' = [mmapbase EXCEPT ![p] = ImageEnd(img)]
              /\ free' = F1 \ Run(mem, sz)
              /\ kern' = kern \cup {pd}
              /\ stray' = stray \ {p}
              /\ UNCHANGED <<proc, pid, mode>>

(***************************************************************************)
(* sys_execve of a dynamically linked file returns -1, after copykvm.      *)
(***************************************************************************)
ExecveDynamic(p) ==
    /\ Caller(p)
    /\ free # {}
    /\ LET pd == AllocPages(free, 1)
       IN  free' = free \ {pd} /\ kern' = kern \cup {pd}
    /\ UNCHANGED <<proc, image, regions, memsz, mmapbase, pid, mode, stray>>

(***************************************************************************)
(* sys_mmap puts the region at mmap_base, whatever is there.               *)
(***************************************************************************)
MapAt(p, pa, n) ==
    /\ regions' = [regions EXCEPT ![p] =
                       <<[va |-> mmapbase[p], pa |-> pa, n |-> n]>> \o @]
    /\ mmapbase' = [mmapbase EXCEPT ![p] = @ + n]
    /\ UNCHANGED <<proc, image, memsz, kern, pid, mode>>

LimitReached(p, n) == mmapbase[p] + n >= MmapLimit

MmapAnon(p, n) ==
    /\ Caller(p)
    /\ ~LimitReached(p, n)
    /\ \/ ~Fits(free, n) /\ Stop("fault")
       \/ /\ Fits(free, n)
          /\ MapAt(p, AllocPages(free, n), n)
          /\ free' = free \ Run(AllocPages(free, n), n)
          /\ UNCHANGED stray

(***************************************************************************)
(* Neither sys_mmap nor fbdev_mmap compares the length with the frame      *)
(* buffer's.                                                               *)
(***************************************************************************)
MmapDevice(p, n) ==
    /\ Caller(p)
    /\ ~LimitReached(p, n)
    /\ MapAt(p, Device, n)
    /\ stray' = stray \cup {q \in {p} : n > FbPages}
    /\ UNCHANGED free

(***************************************************************************)
(* /dev/console, open in every process, has no mmap: sys_mmap calls NULL.  *)
(***************************************************************************)
MmapConsole(p, n) == Caller(p) /\ ~LimitReached(p, n) /\ Stop("fault")

(***************************************************************************)
(* sys_exit releases nothing.                                              *)
(***************************************************************************)
SysExit(p) ==
    /\ Caller(p)
    /\ \/ p = 1 /\ Stop("panic")
       \/ /\ p # 1
          /\ proc' = [proc EXCEPT ![p] = "dead"]
          /\ UNCHANGED <<image, regions, memsz, mmapbase, free, kern, pid, mode, stray>>

Stopped == mode # "run" /\ UNCHANGED vars

Next ==
    \/ \E p \in Procs :
          \/ SysFork(p)
          \/ \E img \in Images : SysExecve(p, img)
          \/ ExecveDynamic(p)
          \/ \E n \in MmapLens :
                MmapAnon(p, n) \/ MmapDevice(p, n) \/ MmapConsole(p, n)
          \/ SysExit(p)
    \/ Stopped

Spec == Init /\ [][Next]_vars

-----------------------------------------------------------------------------
(***************************************************************************)
(* Properties                                                              *)
(***************************************************************************)

(***************************************************************************)
(* The frames a list of regions maps.                                      *)
(***************************************************************************)
FramesOf(list) == UNION {Run(list[i].pa, list[i].n) : i \in DOMAIN list}

(***************************************************************************)
(* Types; in particular every region lies below the kernel, and in         *)
(* physical memory or in the frame buffer unless its process is astray.    *)
(***************************************************************************)
TypeOK ==
    /\ proc \in [Procs -> {"none", "live", "dead"}]
    /\ \A p \in Procs : \A i \in DOMAIN regions[p] :
          LET r == regions[p][i] IN
          /\ r.va >= 0 /\ r.va + r.n <= KernelPage
          /\ p \in stray \/ Run(r.pa, r.n) \subseteq Frames \/ r.pa = Device
    /\ image \in [Procs -> Images]
    /\ memsz \in [Procs -> Nat] /\ mmapbase \in [Procs -> 0..MmapLimit]
    /\ free \subseteq Frames /\ kern \subseteq Frames
    /\ pid \in 2..(MaxPid + 1)
    /\ mode \in {"run", "assert", "fault", "panic", "overrun"}
    /\ stray \subseteq Procs

(***************************************************************************)
(* Through fork, execve, mmap and exit in any order, a process reaches no  *)
(* memory of another process, of the kernel, or that alloc_pages may still *)
(* give away, but by the two ways the code leaves open: a fork that had    *)
(* more to copy than it allocated, and a mapping past the end of the frame *)
(* buffer.  Those who came to their regions in neither of these ways stay  *)
(* apart from one another while others go astray, and execve brings a      *)
(* process that is astray back.                                            *)
(***************************************************************************)
Isolation ==
    \A p \in Procs \ stray :
        LET mine == FramesOf(regions[p]) \cap Frames IN
        /\ mine \cap (free \cup kern) = {}
        /\ \A q \in Procs \ (stray \cup {p}) : mine \cap FramesOf(regions[q]) = {}

(***************************************************************************)
(* A segment whose last byte lies on a page its size alone does not        *)
(* account for: its region is longer than the memory set aside for it.     *)
(***************************************************************************)
Crossing(img) == \E i \in DOMAIN img : SegPages(img[i]) # SegStep(img[i])

(***************************************************************************)
(* Within a process, text, data, stack and mappings have frames of their   *)
(* own, unless the image has a segment that crosses into one more page or  *)
(* the process is astray.                                                  *)
(***************************************************************************)
NoAliasing ==
    \A p \in Procs \ stray : proc[p] # "none" /\ ~Crossing(image[p]) =>
        \A i, j \in DOMAIN regions[p] :
            i # j /\ regions[p][i].pa # Device =>
                Run(regions[p][i].pa, regions[p][i].n)
                    \cap Run(regions[p][j].pa, regions[p][j].n) = {}

(***************************************************************************)
(* sys_fork copies into the memory it allocated: the size loadelf recorded *)
(* covers the regions it built.  It copies past it only for a process that *)
(* has mapped memory since, or that was itself forked and never exec'd     *)
(* (whose recorded size is junk): no other fork leads a child astray.      *)
(***************************************************************************)
ForkFits ==
    \A p \in Procs :
        /\ proc[p] = "live"
        /\ mmapbase[p] = ImageEnd(image[p])
        /\ Len(regions[p]) = Len(image[p]) + 1
        => ~Spills(p)

(***************************************************************************)
(* sys_mmap finds a free region ("find free region at least len bytes      *)
(* long"): no two regions of a process cover the same virtual page.        *)
(***************************************************************************)
MmapUnused ==
    \A p \in Procs : \A i, j \in DOMAIN regions[p] :
        i # j => Run(regions[p][i].va, regions[p][i].n)
                     \cap Run(regions[p][j].va, regions[p][j].n) = {}

(***************************************************************************)
(* sys_fork without memory for the child's kernel stack returns -1         *)
(* ("if (n == NULL) return -1;") and the machine goes on, at the very      *)
(* least when every process but init has exited.                           *)
(***************************************************************************)
ForkReports == mode = "assert" => \E p \in Procs \ {1} : proc[p] = "live"
=============================================================================
