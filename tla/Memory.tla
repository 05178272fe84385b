------------------------------- MODULE Memory -------------------------------
(***************************************************************************)
(* The three views of an address space: regions over frames (Vm), the      *)
(* bytes that loadelf puts there (Elf) and the entries of directories and  *)
(* page tables (PageTables).  They share no state: part says which one is  *)
(* looked at.                                                              *)
(***************************************************************************)
EXTENDS Vm

CONSTANTS
    ElfPage, Word, ElfKernel, ElfStack, Ram, Execs, InitFile, MaxCalls,     \* those of Elf
    PgBytes, NEntries, NDir, KPhysBase, KUnpagedEnd, StackBytes, PtFrames, Fbs, Users,
    Mapping, Lens                                                           \* of PageTables

VARIABLES
    part,                                           \* "vm", "elf" or "tables"
    phys, next, eregions, ememsz, eip, cur, eimage, calls, at, loc,     \* of Elf
    tmode, fb, kpagedir, pagedir, tables, tfree, base, want, req        \* of PageTables

elf == <<phys, next, eregions, ememsz, eip, cur, eimage, calls, at, loc>>
paging == <<tmode, fb, kpagedir, pagedir, tables, tfree, base, want, req>>

E == INSTANCE Elf WITH
        Page <- ElfPage, Kernel <- ElfKernel, Stack <- ElfStack, Memory <- Ram,
        regions <- eregions, memsz <- ememsz, image <- eimage
T == INSTANCE PageTables WITH
        PgSize <- PgBytes, StackSize <- StackBytes, Frames <- PtFrames, Procs <- Users,
        Regions <- Mapping, mode <- tmode, free <- tfree, mmapbase <- base

ASSUME LoaderAssumption == E!ElfAssumption
ASSUME PagingAssumption == T!SizesAssumption /\ T!RegionsAssumption

MemoryInit ==
    /\ part \in {"vm", "elf", "tables"}
    /\ Init /\ (part = "vm" \/ memsz[2] = 0)
    /\ E!Init
    /\ T!Init /\ (part = "tables" \/ <<fb, kpagedir>> = <<CHOOSE b \in Fbs : TRUE, T!EmptyDir>>)
MemoryNext ==
    \/ part = "vm" /\ Next /\ UNCHANGED <<part, elf, paging>>
    \/ part = "elf" /\ E!Next /\ UNCHANGED <<part, vars, paging>>
    \/ part = "tables" /\ T!Next /\ UNCHANGED <<part, vars, elf>>
MemorySpec == MemoryInit /\ [][MemoryNext]_<<part, vars, elf, paging>>

(***************************************************************************)
(* loadelf: Elf's RunsImage.                                               *)
(***************************************************************************)
RunsImage == E!RunsImage

(***************************************************************************)
(* loadelf: Elf's Described.                                               *)
(***************************************************************************)
Described == E!Described

(***************************************************************************)
(* paging.c and copykvm: PageTables' Reached.                              *)
(***************************************************************************)
Reached == T!Reached

(***************************************************************************)
(* alloc_pt and sys_mmap: PageTables' Mapped, with the types of Vm and     *)
(* PageTables.                                                             *)
(***************************************************************************)
Mapped == TypeOK /\ T!TypeOK /\ T!Mapped
=============================================================================
