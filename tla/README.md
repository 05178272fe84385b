# A verification project for trunix

trunix is a small Unix-like kernel for 32-bit x86 with a libc and two user
programs. This directory holds TLA+ modules that model it, TLC configurations
that check the modules on small instances, and TLAPS proofs of the properties
that matter most. `PROJECT.json` maps every definition to the source lines it
models, and lists the runs, the mutants, the hazards and the theorems.

## 1. Inventory

**How the parts interact.** The boot loader enters `head.S`; `init_trunix`
builds the memory map and turns paging on; `kmain` sets up the tables, fills
the page allocator from the map (`init_mem`), reads the initrd into tables of
inodes, creates pid 1 from `/sbin/init` and calls the scheduler. From then on
the kernel runs only inside gates: the timer calls `yield`, `int 0x80` calls a
system call, the fatal exceptions print and halt, the others return. All gates
but two are interrupt gates; the trap gates, 0x01 and 0x03 (`gate.S:116`,
`gate.S:132`), lead to a lone `iret`. So the interrupt flag is clear in all of the
kernel that does anything and *each entry is atomic with respect to the others*. What is concurrent is the user code of the processes:
ticks and system calls come in any order.

| Component | State | Operations | Used by / uses | What makes it correct |
|---|---|---|---|---|
| Scheduler (`proc.c`, `switch.S`) | `queue`, `curthread`, `idle`, `state` and `context` of each process, `cr3`, `tss.esp0` | `scheduler`, `yield`, `sys_fork`, `sys_execve`, `sys_exit` | timer gate, system calls | every process is in the queue or on the CPU, once; only the dispatched one is RUNNING; it runs on its own address space; dead processes stay dead; round robin; no starvation |
| Gates (`gate.S`, `interrupt.S`) | interrupt flag, IDT | timer, exceptions, `int 0x80` | call everything | nothing in the kernel is interrupted |
| Page allocator (`mem.c`) | `freelist` | `init_mem`, `alloc_pages`, `free_pages` | stacks, page directories, images, mappings, heap | a page is free or held, never both; nothing is lost; first block that fits |
| Address spaces (`proc.c`, `mem.c`) | `memtab[]` (regions and size per pid), `mmap_base`, page tables | `loadelf`, `sys_fork`, `sys_execve`, `sys_mmap` | page allocator, kernel heap | processes share no memory with each other, the kernel or the free list; regions do not overlap; fork's copy fits |
| Boot memory map (`init.c`, `paging.c`) | `k.memmap`, `k.mmap_n` | `add_memmap`, `cut_memmap` | `init_mem` | exactly the available pages that are not reserved, each once |
| Page directories and tables (`paging.c`, `pg_utils.S`, `mem.c`) | `pagedir`, each process's directory and tables | `pg_clear`, `pg_identity`, `pg_enable`, `pg_clear_identity`, `copykvm`, `alloc_pt`, `sys_mmap` | boot, loader | kernel half shared, user half private, frame buffer reachable |
| Linked lists (`sys/queue.h`) | heads and links in the elements | the macros of six families | run queue, free list, heaps, regions | pointers spell out the list, whatever removed elements still hold |
| Kernel heap (`mem.c`) | `heap` | `kmalloc`, `kfree` | regions, files, console | blocks disjoint, headers intact |
| Initrd and files (`fs.c`) | `ino_tbl`, `dir_tbl`, `ofile[]` | `load_initrd`, `file_open`, `sys_open`, `sys_read`, `sys_write` | console, frame buffer | a descriptor is below MAXFILES and leads to the file opened |
| Console (`console.c`) | cursor `x`, `y` | `fbcon_open`, `fbcon_write`, `fbconchar` | frame buffer | cells show what was drawn last; nothing outside the frame buffer |
| Frame buffer (`fbdev.c`) | `struct fbdev` | open, read, write, mmap | user programs | maps the device only |
| libc (`lib/libc`) | malloc's list, stdio buffers | `malloc`, `free`, `printf`, `fflush`, strings | system calls | blocks disjoint; output in order |
| Strings (`string.c`, `string.S`, libc's) | none | `memmove`, `memcpy`, `memcmp`, `str*` | everything | copies what it says, no more |
| Serial line (`serial.c`, `com.S`) | the UART's registers | `init_serial`, `write_serial`, `printk` | panic, exceptions | every character once, in order; printk returns |
| Boot (`head.S`, `init.c`, `main.c`) | the boot information `k` | `init_trunix`, `kmain` | all initialisation | nothing is used before it is set up or after it is unmapped |
| Others | | fonts, `init`, `test`; not built: keyboard, `/dev/null` and friends, text mode | | |

**What is hard.** Order of ticks and system calls of several processes
(scheduler); state that one call leaves and a later one relies on (`sz`,
`mmap_base`, the order of the free list, freed slots of the map); failures in
the middle of fork and execve; limits (file table, free list empty, slots);
rounding and widths. There are no locks, no second CPU, no storage that
survives a crash and no messages, so there are no hazards of those kinds.
`PROJECT.json` lists each hazard at its line.

## 2. Modules

### Sched: processes, run queue, context switch
`Sched.tla` has the run queue, the state word of each process, `curthread`, the
saved context of the idle thread (`idlectx`: "saved" while the scheduler waits
inside `switch_to`, "popped" once it was resumed), the loaded `cr3` and
`esp0`, and the number of open files. `cpu` says whose code runs: a user
process, the scheduler, the idle loop, or how the machine ended. Actions:
`Scheduler` (one turn of the loop: dispatch or go idle), `TimerTick`,
`Trap`, `SysFork`, `SysExecve`, `SysExit`, `SysOpen`. Because a process's
`state` lies right behind `ofile[MAXFILES]`, the model carries the state
"FILE" for a state word that a file pointer was written over.
Allocation in fork and execve succeeds or fails nondeterministically.

### PageAlloc and PagePool: physical pages
`PageAlloc.tla` is `init_mem`, `alloc_pages` and `free_pages` on addresses and
sizes in bytes, with the list in its order. `PagePool.tla` is the promise:
a set of free pages and a set of held ones; an allocation moves a run of free
pages to the caller, and memory may be lost only when nothing is left in the
list. `PageAlloc` implements it under the mapping "free = pages of the list".

### Vm: address spaces
`Vm.tla` takes the allocator at PagePool's word and models what `loadelf`,
`sys_fork`, `sys_execve` and `sys_mmap` build: per process a list of regions
(virtual page, frame, length), the recorded size, `mmap_base`. Every NULL the
code does not check and every failed assertion is a way for the machine to stop
(`mode`), so that what comes after is not explored. A page directory with its page
tables counts as one frame.

Two things go past the memory they should stay in without stopping anything, and
the model goes on as the code does: `sys_fork` copies and maps the parent's regions
of now into a block of the size that the last `loadelf` recorded, and `sys_mmap`
maps any length of the frame buffer. The history variable `stray` has the
processes whose present regions came from such a call; `execve` gives a process
new regions and takes it out. A fork's copy that hits memory of processes or
pixels leaves the machine running; when it hits a free block (whose header is in
it), a kernel stack, a page directory or memory the allocator never had, the model
stops ("overrun"), because the kernel's own data are gone. What an astray process
then writes into the frames of others is not modelled, nor a copy so long that
physical addresses wrap.

### MemMap: the boot memory map
`MemMap.tla` is `init_trunix` up to paging: one step per `add_memmap` of the
firmware's regions and per turn of `cut_memmap`'s loop. Addresses are modulo
`WORD` (2^32), as the code's u32 are. `Reserved` stands for the three ranges
`init_trunix` cuts.

### KHeap: the kernel heap
`KHeap.tla` is `kmalloc` and `kfree` on a list of blocks in bytes, headers
included. `kfree` has no caller yet; it is modelled for one that frees each
block once. Where it reads a pointer that is NULL or was never set the model
stops ("fault", "wild"): that is every free of the block right in front of the
first free one, or behind the last.

### Files: initrd, descriptors, console
`Files.tla` is `load_initrd` over the blocks of the archive (a step per block),
the table of devices, `sys_open` with the opens it leads to (a console opens
the frame buffer in turn), the descriptors `sys_fork` copies, and the cursor of
`fbcon_write`. Names and contents of files are model values; a block either has
the ustar magic or not, and sizes and device numbers are the octal text of the
header, read by `oct2int`. A descriptor table is modelled up to the bound
`MaxOpen` and the entry behind it; `sys_open` and `sys_fork` search it for the
first free entry as the code does. `sys_read` and `sys_write` return -1 for a free
entry; neither bounds `fd` (`fs.c:177`, `fs.c:194`), and an `fd` outside of the
table, which reads a pointer from whatever is there, is not modelled. The machine stops ("fault", "nomem", "panic",
"overrun", "offscreen") where the code goes through NULL, past a table or below
the screen.

### PageTables: directories and tables
`PageTables.tla` is `pg_clear` to `pg_clear_identity` at boot and then
`copykvm`, `alloc_pt` and `sys_mmap`, entry by entry; an address is a number
below `Span`, where sums wrap as u32 does. `Walk` is the processor's look-up in
the tables as they are: there is no TLB, so that `write_cr3` leaves it alone when
`cr3` does not change (`pg_utils.S:23`) has no effect here.
`want` records what each process was given; the walk must agree with it. When
`alloc_pt` goes through the kernel's half or the stack after a sum that wrapped,
the model stops ("smashed").

### Elf: the loader, byte by byte
Where `Vm` counts frames of several processes, `Elf.tla` follows one `loadelf`
at a time through both passes over the program headers, with the bytes it
copies, the directory and the region list. The loader works on a copy of
`struct proc` but on the process's own region list and trap frame, so a failure
half way matters: the process must still have its old image.

### Context: registers and kernel stacks
`Context.tla` has the words of every kernel stack: what the processor, the
gates, `pushal` and `switch_to` push, what `alloc_thread`, `sys_fork` and
`loadelf` write into a new stack through the structs, and what `trapret` and
`iret` take off. A step is a stretch of kernel code up to the next `ret`, `iret`
or switch. `want` is what user code may expect in each register when it comes
back. C code appears as its calls, arguments and return addresses, without
locals. `INT_0x80` jumps through `tbl_syscall` without a bound on `eax`
(`interrupt.S:236`); the model has only numbers that are in the table. Which process is picked is `Sched`'s subject; here it may be any.

### Queues and XQueues: sys/queue.h
`Queues.tla` has the macros of five families as assignments to pointers beside
the sequence each list stands for; callers respect the macros' conditions (an
element is inserted when it is on no list) but removed elements keep their
pointers, since `_Q_INVALIDATE` is empty. `XQueues.tla` has the XOR simple
queues, whose pointers are combined with a cookie of the head, and shows that
they implement the simple queues of `Queues` (`SimpleQueues`, an INSTANCE with
the cookies taken off).

### Strings
`Strings.tla` has the kernel's and libc's routines as functions on a small
memory: each call is a step that leaves the old memory beside the new. Addresses
are signed in `memmove`'s comparison, `char` is signed in `strcmp`.

### Format, Stdio and Serial: output
`Format.tla` has both `itoa`s for an int of `Width` bits and what a number
should look like. `Stdio.tla` has the buffers of stdout and stderr; `vfprintf`
takes a step per directive, of any kind, and stops the model where it stores
behind a buffer or converts with a base that was never set. `Serial.tla` has
`printk` sending character by character to a device with a holding register.
`%c` asks `va_arg` for a `char`, which is undefined; clang, the compiler of the
Makefile, takes the low byte of the int that was passed, and so does the model.

### Malloc: libc's heap
`Malloc.tla` keeps the list in the memory it describes: a free that writes over
a neighbour tears the list, and so does a `malloc(0)` that splits a block of the
list: the rest of the block begins 4 bytes on, with its size in the link of the
block it came from (`malloc.c:75-77`). Of sizes it keeps what `malloc` asks of
them: the first block's is negative and so never too small, and neither is an
address that comes to stand where a size was.

### Console: pixels
`Console.tla` is `fbcon_write`, `fbconchar` and `fbdev_write` in the bytes of
the frame buffer, with the first glyphs of the font in use. `shown` is the
character each cell should show.

### Boot: the order of initialisation
`Boot.tla` takes `head.S`, `init_trunix` and `kmain` step by step; each step has
what it needs and what it sets up or takes away. The boot information is any
combination of flags, map and module; fields whose flag is not set hold
anything.

### Composition
`PagePool` is the interface between the allocator and `Vm`; the map that
`MemMap` leaves is what `PageAlloc` assumes of `MemMaps` (`TypeOK` and
`EntriesDisjoint` of `MemMap`, parts of `MapRight`, are the two halves of `MemMapsAssumption`, but for
the number of empty entries). `Sched` and `Vm` share the system calls: each has
the part of a call that touches its own state; `Context` has their registers.
`PageTables` has the entries behind `Vm`'s regions, `Elf` the bytes behind its
images, `Queues` the pointers behind the sequences of `Sched`, `PageAlloc`,
`KHeap` and `Vm`. `Format` is shared by `Stdio` and `Serial`. Two refinements
are checked: `PageAlloc` implements `PagePool`, `XQueues` implements `Queues`.

## 3. Runs

Modules that share no state are checked in one run. `Memory` (over `Vm`: `Elf`,
`PageTables`), `Library` (over `KHeap`: `Malloc`, `Strings`, `Stdio`), `Devices`
(`Files`, `Console`, `Serial`), `MCBoot` (`MemMap`, `Boot`) and `MCQueues`
(`Queues`, `XQueues`) instantiate them side by side, and a variable (`part`,
`device`), set by the initial state, says which one moves; the others rest in
one initial state, so each behaviour is one of a single module. The composed
module gives the instances' properties and assumptions the names under which
they are checked, and proved. The values of the constants are in the MC module
and its cfg. Where a property below is a conjunction, its parts have names and comments
of their own in the component's module, and `TypeOK` of the module is checked
with one of them.

| Run | Modules and bounds | Shows |
|---|---|---|
| `sched` | `Sched`: 3 processes, 4 files per table, 5 page directories | `QueueInv`, `RunningIsCurrent`, `OwnAddressSpace`, `NeverIdle`, `DeadForever`, `NoOvertaking`, and liveness `ReadyRuns`. Three processes are enough for one running, one queued and one dead or being created; tables of 4 leave init (3 files open) one free entry, so that the overrun happens. |
| `sched_files` | same | violated: `FilesBounded` |
| `context` | `Context`: 3 processes, 2 values of registers | `ResumesWhole`, `Balanced` (the scheduler's stack included), `OwnStack`. Three processes: one running, one switched out in a tick, one in a call or newly forked. `Depth` is the deepest a kernel stack gets; it is not a bound on behaviour. |
| `page_alloc` | `PageAlloc`: 5 maps of up to 3 regions and 8 pages, sizes 0, 4095, 4096, 4097, heap of 2 pages | `NoSharing`, `ForgetsOnlyWhenEmpty`, `StaysOrdered`, `PoolSpec` (refinement of `PagePool`). The maps make the list empty, one block, several, out of order, and too small for the heap. |
| `page_forget` | same | violated: `NothingForgotten` |
| `vm` | `Vm`: 3 processes, 12 frames around a frame buffer of 1 page, two images, mappings of 1 and 2 pages | `Isolation`, `NoAliasing`, `ForkFits`. 12 frames hold init and one or two more address spaces: every allocation of fork, execve and mmap both succeeds and fails. Nine frames lie before the frame buffer and three behind it, so that a copy past its block meets the pixels alone or kernel data, and a mapping of two pages of the frame buffer reaches the frame behind it, free or another's. (That a copy meets another process's frames takes more memory; the theorem has it.) One image has two aligned segments, the other a segment that crosses a page. A fresh `memtab` size is 0 or 4. |
| | `Elf`: pages of 4 bytes, 256 pairs of segments, 8 other images, 3 calls, 52 bytes of memory | `RunsImage` (the bytes of the image are where its headers say), `Described` (region list, size and room for mappings agree with it). Segments are aligned or not, cross and share pages, come in either order; images are refused before and after the first pass; memory runs out. |
| | `PageTables`: pages of 2 bytes, 2 entries to a table, 16 to a directory; 4 frame buffers, 2 processes, 3 regions, 3 lengths | `Reached` (kernel half and frame buffer through every directory), `Mapped` (the walk agrees with what was mapped; the limit holds). The frame buffers are aligned, not aligned, at the end of memory and in the lower half; regions share tables and pages; a length rounds to 0, another makes the sum wrap. |
| `vm_mmap`, `vm_fork` | `Vm` as above | violated: `MmapUnused`, `ForkReports` |
| `memmap` | `MemMap`: pages of 4 bytes, address space of 16 pages, 5 slots, 599 firmware maps, 15 initrds | `MapRight` (exactly the available pages outside what is reserved, each in one entry, no panic before the slots are used up), liveness `BootEnds`. The maps overlap, start inside a page, wrap and fill the slots. |
| | `Boot`: no bound needed | `BootSafe`, for every boot information: every step finds what it needs, init is started only from a module, a panic is heard |
| `kheap` | `KHeap`: heap of 8 units, six sizes on both sides of the rounding | `Coalesced`, `HeapTiles`, `PayloadFits` |
| | `Malloc`: pages of 48 bytes from 262176 on, six sizes | `HeapSound` (payloads apart, lists and sizes torn only by a free of at most one word or a `malloc(0)`, faults only at the end of the mapping). Sizes on both sides of a word, and so close to the page that the rest of the list does not fit. |
| | `Strings`: 6 addresses, three byte values | `RoutinesRight`, on every memory and every argument |
| | `Stdio`: ints of 4 bits, a buffer of 3 characters | `OutputRight` (in order, inside the buffer, flushed when the mode says, numbers as they should look), `ReturnsWritten`. The buffer is smaller than one number, so it fills in the middle of conversions. |
| `files` | `Files`: 9 initrds, 3 processes, 4 descriptors each, 24 heap objects, a screen of 2 columns and 1 row | `ListsMembers` (against a walk of the archive by member sizes), `DescriptorsRight` (no gaps, the right files, the console first). The initrds lack init, console or frame buffer, number a device wrongly, contain a header in a file, and overflow the tables. |
| | `Console`: 3 screens of two cells; newline, backspace and a glyph without symmetry | `ScreenShows`. With and without slack behind a line, and 3 bytes to the pixel. A backspace at the start of a line is drawn: its blank is the second glyph. |
| | `Serial`: ints of 4 bits | `LineInOrder`, liveness `PrintkReturns` |
| `queues` | `Queues`: 2 heads, 4 elements, each family | `Links`, `LoopsVisit`. Four elements: one in front, one behind, the one moved, one elsewhere with stale pointers. |
| | `XQueues`: 2 heads with changing cookies, 4 elements | `LoopsVisit`, `SimpleQueues` (refinement of `Queues`) |

Each property of a passing run has a mutant: a plausible bug in a mapped
definition under which TLC finds the property violated. The mutated forms stand
next to the definitions, marked `mutant`.

**Fairness.** `Sched` assumes weak fairness of the scheduler's step and of the
timer tick: kernel code between two switches is straight-line with interrupts
off, and the PIT is programmed to tick for ever (`gate.S`), with interrupts on
in all user code. No fairness is assumed of system calls: a process may
compute for ever. `MemMap` assumes that the boot code, which runs alone, goes
on. `Serial` assumes weak fairness of the device, which sends what it holds, and
of `write_serial`, a loop with interrupts off, and strong fairness of `printk`'s
return: a format ends, although the model may always choose one more directive.
The other modules state only safety.

**Deadlock** is checked in all runs; a stopped machine is an explicit
stuttering action.

## 4. Findings

* `sched_files`: the table of open files is overrun by one entry
  (`fs.c:157`); the state word becomes a pointer and the process never runs
  again.
* `page_forget`: `free_pages` into an empty list loses the memory
  (`mem.c:98`); splitting the last block loses all that is left.
* `vm_mmap`: a forked child's mappings start at address 0 and grow over its
  own image (`mem.c:298`, `mmap_base` not set by `sys_fork`).
* `vm_fork`: fork without memory hits an assertion before the test that
  would return -1 (`proc.c:116` and `proc.c:430`), and exits never free.

Three more disagreements were met and have no run of their own; the models do
what the code does:
* `FLAGS` has no parentheses, so `init_trunix` accepts a loader that passed no
  memory map (`init.c:25`, `init.c:39`; `Boot`).
* `pg_identity` maps the whole lower half, its comment says up to the end of
  the kernel (`paging.c:111`; `PageTables`).
* libc's `__assert_fail`, declared not to return, returns (`assert.c:8`;
  `Stdio`).

Some properties hold only with a condition that names what the code does
outside it; the comment at the property says which: `memmove` copies
overlapping ranges in the wrong direction (`CopiesAll` in `Strings`), `sys_fork`
of a process with mappings and a long mapping of the frame buffer give a process
frames that are not its own (`stray` in `Vm`), `free` damages memory after blocks
of at most one word and `malloc` after a request of 0 (`WildOnlyAfterSmall` in
`Malloc`), `vfprintf` stores past the buffer (`WithinBuffer` in `Stdio`), images
whose segments share a page overrun `sz` (`WithinSize` in `Elf`), a frame buffer
in the lower half or inside a big page is not fully mapped (`FbReached` in
`PageTables`), a length whose sum with `mmap_base` wraps passes the limit
(`LimitHolds` in `PageTables`).

## 5. Proofs

A proof module extends the modules it is about. Each proof has the
same shape: an inductive invariant, a lemma per action that keeps it, and
theorems that follow from it. All hold for every value of the constants that
the named assumptions allow.

| Proof module | About |
|---|---|
| `CommonLemmas` | sequences, quotients, induction, loops, powers and digits; no component |
| `SchedProofs`, `ContextProofs` | `Sched`; `Context` |
| `PageAllocProofs` | `PageAlloc` and its refinement of `PagePool` |
| `VmProofs` | `Vm`, `PageTables`, `Elf` |
| `MemMapProofs` | `MemMap`, `Boot`, `Files`, `Serial`, `Console` |
| `KHeapProofs` | `KHeap`, `Malloc`, `Strings`, `Stdio` |
| `QueuesProofs` | `Queues`, `XQueues` and its refinement of `Queues` |

`CommonLemmas`: what `RemoveAt`, `InsertAt` and `Append` do to the elements of a
sequence, and that they keep it free of repetitions; quotient and remainder; the
least element of a set of naturals, and induction over the naturals in terms of
sets (`NatMin`, `NatInd`), a form that the provers can instantiate. `LoopRuns` and
`LoopKeeps` are what the recursive functions of the models need: a function given
by its first value and its next one exists, and keeps what each pass keeps. About
`itoa` (`Format`, shared by `printk` and `vfprintf`) there are lemmas on powers,
on the digits that repeated division leaves and on their weighted sum:
`NumbersRead` says that what is printed of any word of any width, in any base,
reads back as that word, the most negative one included, and how many digits it
has. Powers are the recursive function `Power`, which the provers can unfold.

`SchedProofs` proves, for any number of processes and any `MAXFILES`, type
correctness, `QueueInv`, `RunningIsCurrent`, `OwnAddressSpace`, `NeverIdle`,
`DeadForever` and `NoOvertaking`. None is inductive alone. `IInv` adds
* `CpuInv`: what `cpu` says about the idle context and `curthread` (the
  scheduler's context is "saved" exactly while a process is dispatched);
* `FreshInv`: pids not handed out yet are unused;
* `AddressInv`: page directories of different processes differ and the next
  one is fresh, which is what makes `OwnAddressSpace` survive fork and execve;
* `FileInv`: a state word is a pointer exactly for an overrun table, which
  `NeverIdle` needs: there is a READY process as long as init's state word is
  intact, because init can only be READY, RUNNING or overrun.

`ContextProofs` proves `ResumesWhole`, `Balanced` and `OwnStack` for any number
of processes, any register values and stacks of any depth that holds what the
code pushes. All three speak of the moment a process is back in user mode; the
invariant `ContextInv` says why it will be right then. A READY process is
`Resumable`: its trap frame lies at the bottom of its stack with the registers
it expects (`Framed`), its saved context points into its own stack, and the
return addresses above the frame lead through the calls it was switched out of
to the frame alone (`Unwinds`, one case for each of a new process, one the
timer preempted and one inside execve). While a process runs, the TSS names its
stack and the scheduler's context lies on the boot stack with the process in
`ebx` (`Dispatched`). The lemmas about `trapframe`, `context` and the gates'
pushes compare the structs with the order of the pushes field by field.

`PageAllocProofs` proves type correctness, `NoSharing`,
`ForgetsOnlyWhenEmpty`, `StaysOrdered` and the refinement of `PagePool` for
every memory map that is aligned and disjoint and every request size. The
inductive invariant has the free list aligned and disjoint, disjoint from what
is held and from the entries `init_mem` has not linked yet; that alignment is
what makes the comparison with the size before rounding harmless.

`VmProofs` proves of `Vm` its types, `Isolation`, `NoAliasing` and `ForkFits` for
any number of processes and frames, any images and mappings, and whether or not
each allocation succeeds, and whatever processes astray do meanwhile. `VmInv` adds
to `Isolation` and `NoAliasing`
* `Placed`: a region of a process that is not astray lies in memory or in the frame
  buffer, not across the end of either;
* pids not handed out have no regions and `mmap_base` 0;
* `Sized`: with no mappings beyond its image, a process is a child that never
  exec'd or its recorded size covers its regions.

`loadelf` and `sys_fork` place regions one behind the other in the block they
were given; the places are the recursive function `Offsets`, so the proof shows
first that the recursion defines a function, then that places grow by the
lengths and end within the block. The types say that regions stay below the
kernel, which follows from where images are linked (`AddressesAssumption`) and
from `sys_mmap`'s limit.

Of `PageTables` it proves `Reached` and `Mapped`, for any sizes of pages, tables
and directories, any pages, frame buffers, regions and requests. Addresses are
taken apart into entry, table entry and offset first (`Spans`, `EntryOf`), in
arithmetic that wraps. `PtInv` has a part for each stage of the boot (`Kernel`:
which half of the kernel's directory is filled in) and a part for the processes
(`Spaces`: the upper half of each directory is the kernel's, the lower half points
to tables of its own, no table is free or another's, and each page shows what
`want` says). A turn of `alloc_pt`'s loop changes one page's entry and perhaps
adds a table (`Turned`); the loop over the pages of a region is then an induction
over its turns (`Filled`), and `BecameKeeps` carries the result over to the other
processes, whose tables it did not touch.

Of `Elf` it proves `RunsImage` and `Described`, for any page and word size, any
memory and any headers a linker makes (`ElfAssumption`). `ElfInv` follows the
call through its two passes. In the first, the bounds found so far hold the
segments seen so far (`Found`). In the second, three things are needed at once
(`LoadAt`): the segments loaded so far read back through the new directory
(`HasSegs`), the rest of the new memory is still zero (`ClearFrom`), and there is
room for the rest. The room is a count: each segment takes at most as many pages
as it touches, segments that share no page touch different ones, all between the
bounds, so the pages used are at most the cardinality of the pages touched
(`Taken`), which with the stack is at most what was allocated (`Holds`). Without
the count the last copy could run past the memory of the new process. Meanwhile
the old image stays: everything the running process reads lies below where the
new memory starts (`RunsInv`, up to `Floor`), and every step changes memory
only above (`AlikeBelow`). `Describes` carries the agreement of directory and
region list through each `alloc_pt`.

`MemMapProofs` proves `MapRight` (with its type correctness) for any page size,
any word that is a multiple of it, any number of slots, any map of the firmware
and any ranges that end a page below the top of the address space. The arithmetic of
`pg_roundup` and `pg_rounddown` in u32 is proved to be that of whole pages first
(`RoundPages`, `RegionPages`, `RangePages`). `MapInv` says of every step what
`ExactMap` says of the last: while regions are added, the map holds those so far
in at most as many slots (`AddInv`); while range `r` is cut, it holds what the
earlier ranges left except perhaps pages of this range, which are no longer in
the slots that had their turn (`CutInv`). That includes slots which a cut
freed and used again. The count of slots needs the case that an entry lies on
both sides of the range: it takes one slot more, but then the whole range was in
that entry, no other entry of this range is cut, and one slot per range is
enough.

Of `Boot` it proves `BootSafe` with `BootInv`: what has been set up by the time of
each step, and what the boot information must have been for the boot to get
there. Of `Files` it proves `ListsMembers` and
`DescriptorsRight`. `LoadInv` says that after some blocks of the archive the inodes
are those of the members begun so far; that needs `oct2int` to give back the
number whose digits tar wrote, for every number of digits, which is an induction
over the digits. `FInv` adds what the opens of each stage of `kmain` have done to
the tables, that each table is used from 0 up to its first free entry (`Tabled`),
from which `FreeSlot` says where the loops of `sys_open` and `sys_fork` end, that
inodes and descriptors refer to each other's entries, that pids not handed out
have no descriptors, and that the cursor stays where the console
puts it, an induction over the characters written.

Of `Serial` it proves `LineInOrder` for any word size: in `SerialInv` the line, the
holding register and what printk has still to send are together what was
printed. Of `Console` it proves `ScreenShows`, for every frame buffer whose pitch
holds its lines, with 2 to 4 bytes to the pixel, and any font. The proof is about
which pixels of the cell being drawn write a given byte (`WritersReach`): only one
in the same scan line at most one pixel to the left, or the last ones of the scan
line above. From that, `ReachedBytes` says which bytes of another cell a drawing can
reach: those `Exposed` names, and those of the first column under a character
drawn past the last. `GlyphDrawn` is the cell itself, where the pixel drawn last
is the one whose byte it is. `ConsoleInv` is `ScreenShows` with the cursor and the
frame buffer's size.

`KHeapProofs` proves of `KHeap` type correctness, `Coalesced`, `HeapTiles` and
`PayloadFits` for a heap of any size. Here the conjunction of the properties is
inductive (`HeapInv`): `kfree` joins the right neighbours only because the list
is in order of addresses, and the list stays in order only because the blocks
tile the heap. Of `Malloc` it proves `HeapSound`: `UserHeap` says that the blocks
handed out lie one behind the other from the start of the heap to the one block
that is split next, each with its header, and that nothing is torn as long as
no block of at most one word was freed and no `malloc(0)` split a block of the
list; after that, the model stops at the first use of what was torn.

Of `Strings` it proves `RoutinesRight`, for memories of any size and any bytes. The
copying loops are recursive functions; `CopyUpRight` and `CopyDownRight` say what
they leave after each byte, upwards and downwards, for ranges that lie apart.
`StrcmpDecides` names the one place at which a comparison is decided, from which
sign, symmetry and transitivity follow. Of `Stdio` it proves `OutputRight` and
`ReturnsWritten`. `StdioInv` says that the written and the buffered characters of
each stream are what was asked for, and that a call in progress has put into the
buffer exactly as much as it was asked to print since it began, which is what
`%n` counts.

`QueuesProofs` proves type correctness, `Links`, `SafeLoop` and `LoopsVisit` for the five
families of `sys/queue.h`, any number of heads and elements. `Links` is
inductive with the types; a lemma per shape (insertion, removal, replacement,
concatenation) says what an assignment to two or three pointers does to the
sequence. `SafeLoop` needs `LoopInv`: the list of a running loop ends with the
elements still to be visited. `LoopsVisit` follows from `Links` by induction over
the passes of a loop. `XorQueuesAreQueues` is the refinement of the simple queues
by the XOR ones, for any cookies: `XInv` says that every pointer of a list, taken
together with the cookie of its head, is the one that `Links` wants, and each
macro is then shown to be the plain macro or a stuttering step.

**Assumptions** are those named in the modules: sizes and counts are naturals
(positive where the code needs it); memory maps handed to `init_mem` are aligned
and disjoint with distinct addresses; the headers of an image are in order, do
not overlap and start above page 0 (of headers that are not LOAD nothing is assumed); the image of init fits into memory
(`InitFits`: without it there is no system); the frame buffer's own pages are
none that can be allocated (a mapping may still go past them); libc's heap lies at
2^18 or above, since the linker (lld) puts programs at 4 MiB and `mmap_base` is behind the
image (a child that calls `malloc` before `execve` maps from 0: `vm_mmap`), and
requests are below 2^16;
ranges to cut end below the top of the address space; a kernel stack has room
for the 29 words that are pushed; images are linked below `MMAP_LIMIT`, for the
types alone; a page table and a directory have at least two entries, the regions of
an image lie in the lower half, and pages to give away lie in the half that the
kernel maps; the numbers in an archive fit an int; segments start
above page 0 and end below the stack, with no more bytes in the file than in memory;
a screen is at least a cell wide and high, its pixels have 16, 24 or 32 bits and its
pitch holds a line; a byte is one of 0 to 255. The modules that are
instantiated state theirs as definitions (`ElfAssumption`, `MallocAssumption` and
so on), and the composed modules assume them of the values they substitute.

**Only model-checked:** `ReadyRuns`, `BootEnds` and `PrintkReturns`: liveness is out
of the prover's reach. All other properties of the passing runs, invariants, action
properties and refinements, have a theorem.

## 6. Not modelled

* Encodings of descriptors, PIC and PIT programming, the UART's line settings.
* C locals on the kernel stacks, and so the depth of a stack.
* After a NULL is dereferenced or the kernel's own memory overrun the models stop;
  in the machine a process that mapped page 0 would not even fault.
* `dequeue`, `proc_destroy`, `free_uvm`, `kfree`, `read_serial`: no caller
  (`kfree` is modelled all the same). SLEEPING and BLOCKED: never set.
  `sys_munmap`: empty.
* Only the unpaged part of the kernel is cut from the map (`init.c:58`); what
  should be reserved follows from the linker script and is not in the model.
* More than 128 processes: `memtab` has no check (`proc.c:433`).
* Keyboard, memory devices and text mode: not built. The font `unifont` and
  most glyphs of the other: data. Tables of errno and strerror.
* `init` and `test`: a handful of calls each, whose every order `Sched`, `Vm`
  and `Stdio` allow.

## 7. What is left

1. Every component that is built is modelled, but for the encodings above, and
   every safety property is proved. Liveness is model-checked.
2. A composition of `Sched` and `Vm` over the system calls they share.
