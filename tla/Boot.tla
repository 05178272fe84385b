-------------------------------- MODULE Boot --------------------------------
(***************************************************************************)
(* From the boot loader to the scheduler: head.S, init_trunix (init.c) and *)
(* kmain (main.c), in their order.  What each part builds is the subject   *)
(* of a module of its own; here it is a fact that later parts need.        *)
(* init_trunix is linked at its physical address and runs before paging,   *)
(* kmain and all behind it in the upper half.  Fields of the boot          *)
(* information whose flag is not set hold anything.                        *)
(***************************************************************************)
EXTENDS Integers, Sequences

VARIABLES
    mbi,    \* what the loader left: magic, flags and the fields it filled
    map,    \* k.memmap: "none", "real", "junk"
    initrd, \* what initrd_start leads to: "init", "other", "junk"
    pc,     \* "head", "add", "cut", "paging", then steps of kmain
    have,   \* facts: what has been set up, or is mapped
    mode    \* "boot", "sched", "panic", "reset"; "wild": used before set up

vars == <<mbi, map, initrd, pc, have, mode>>

(***************************************************************************)
(* struct multiboot_info: the loader's magic, the flags of the parts the   *)
(* kernel reads, the memory map's entries, and the module, an archive with *)
(* /sbin/init or another.                                                  *)
(***************************************************************************)
Flags == {"MEM_MAP", "FRAMEBUFFER_INFO", "MODS"}
Entries(flags) == IF "MEM_MAP" \in flags THEN {"real"} ELSE {"none", "junk"}
Modules == {"init", "other"}
MultibootInfo == [magic : BOOLEAN, flags : SUBSET Flags, module : Modules]

Init ==
    /\ mbi \in MultibootInfo
    /\ map = "none" /\ initrd = "junk"
    /\ pc = "head" /\ have = {} /\ mode = "boot"

Goto(l) == pc' = l
Stop(how) == mode' = how /\ UNCHANGED <<pc, have>>

(***************************************************************************)
(* init_trunix returns NULL without the loader's magic; kmain, called all  *)
(* the same, is not mapped.  flags & FLAGS is (flags & MEM_MAP) |          *)
(* FRAMEBUFFER_INFO, as the macro has no parentheses.                      *)
(***************************************************************************)
FlagsTest(flags) == (flags \cap {"MEM_MAP"}) \cup {"FRAMEBUFFER_INFO"}

MagicTest == mbi.magic

Enter ==
    /\ pc = "head" /\ mode = "boot"
    /\ IF MagicTest /\ FlagsTest(mbi.flags) # {}
       THEN Goto("add") /\ have' = have \cup {"mbi"} /\ UNCHANGED mode
       ELSE Stop("reset")
    /\ UNCHANGED <<mbi, map, initrd>>

(***************************************************************************)
(* The loop over the loader's map: mmap_length may be 0 or anything.       *)
(* add_memmap panics when the slots run out.                               *)
(***************************************************************************)
AddRegions ==
    /\ pc = "add" /\ mode = "boot"
    /\ map' \in Entries(mbi.flags)
    /\ Stop("panic") \/ (Goto("cut") /\ UNCHANGED <<have, mode>>)
    /\ UNCHANGED <<mbi, initrd>>

(***************************************************************************)
(* The cuts; mods_addr is followed whether or not there is a module.       *)
(***************************************************************************)
CutRegions ==
    /\ pc = "cut" /\ mode = "boot"
    /\ initrd' = IF "MODS" \in mbi.flags THEN mbi.module ELSE "junk"
    /\ Stop("panic") \/ (Goto("paging") /\ UNCHANGED <<have, mode>>)
    /\ UNCHANGED <<mbi, map>>

(***************************************************************************)
(* pg_clear, pg_identity, pg_enable: the kernel is in the upper half, and  *)
(* still at its physical address, where k of init_trunix lies.  A frame    *)
(* buffer that is not there may be mapped over the kernel.                 *)
(***************************************************************************)
StepOrder ==
    <<"descriptors", "init_serial", "memcpy", "pg_clear_identity", "init_mem",
      "load_initrd", "init_pmm", "initsys", "init_sched">>

Paging ==
    /\ pc = "paging" /\ mode = "boot"
    /\ \/ /\ Goto(StepOrder[1])
          /\ have' = have \cup {"low", "upper"} /\ UNCHANGED mode
       \/ "FRAMEBUFFER_INFO" \notin mbi.flags /\ Stop("reset")
    /\ UNCHANGED <<mbi, map, initrd>>

-----------------------------------------------------------------------------
(***************************************************************************)
(* kmain: what each step reads, what it sets up, and what it takes away.   *)
(* kmain's k is a copy of init_trunix's; kpagedir is set in init_mem.      *)
(***************************************************************************)
Needs(s) ==
    CASE s = "descriptors" -> {"upper"}
      [] s = "init_serial" -> {"upper"}
      [] s = "memcpy" -> {"upper", "low", "mbi"}
      [] s = "pg_clear_identity" -> {"upper"}
      [] s = "init_mem" -> {"k"}
      [] s = "load_initrd" -> {"k", "pages"}
      [] s = "init_pmm" -> {"pages"}
      [] s = "initsys" -> {"k", "pages", "files", "memtab", "kpagedir"}
      [] s = "init_sched" -> {"pages", "tss", "process"}

Gives(s) ==
    CASE s = "descriptors" -> {"gdt", "tss", "idt"}
      [] s = "init_serial" -> {"serial"}
      [] s = "memcpy" -> {"k"}
      [] s = "pg_clear_identity" -> {}
      [] s = "init_mem" -> {"pages", "kpagedir"}
      [] s = "load_initrd" -> {"files"}
      [] s = "init_pmm" -> {"memtab"}
      [] s = "initsys" -> {"process"}
      [] s = "init_sched" -> {"idle"}

Takes(s) == IF s = "pg_clear_identity" THEN {"low"} ELSE {}

(***************************************************************************)
(* The assertions on the way: init_pmm's on memtab, alloc_thread's on the  *)
(* kernel stack, initsys's on /sbin/init.  Before them NULL is written     *)
(* through, at address 0, which is still mapped.                           *)
(***************************************************************************)
MayFail(s) == s \in {"init_pmm", "initsys", "init_sched"}
MustFail(s) ==
    \/ s = "init_pmm" /\ map = "none"
    \/ s = "initsys" /\ initrd # "init"

SwapTwo(i) ==                       \* mutant: the identity mapping goes first
    IF i = 3 THEN StepOrder[4] ELSE IF i = 4 THEN StepOrder[3] ELSE StepOrder[i]
Step(i) == StepOrder[i]

Kmain(i) ==
    LET s == Step(i) IN
    /\ pc = StepOrder[i] /\ mode = "boot"
    /\ \/ (MayFail(s) \/ MustFail(s)) /\ Stop("panic")
       \/ /\ ~MustFail(s)
          /\ have' = (have \ Takes(s)) \cup Gives(s)
          /\ pc' = IF i < Len(StepOrder) THEN StepOrder[i + 1] ELSE pc
          /\ mode' = IF ~(Needs(s) \subseteq have) THEN "wild"
                     ELSE IF i < Len(StepOrder) THEN mode ELSE "sched"
    /\ UNCHANGED <<mbi, map, initrd>>

Ended == mode # "boot" /\ UNCHANGED vars

Next ==
    \/ Enter \/ AddRegions \/ CutRegions \/ Paging
    \/ \E i \in DOMAIN StepOrder : Kmain(i)
    \/ Ended

Spec == Init /\ [][Next]_vars

-----------------------------------------------------------------------------
(***************************************************************************)
(* No step of the boot uses what an earlier one should have set up and has *)
(* not, or has taken away: in particular kmain copies the boot information *)
(* while the place it lies in is still mapped.                             *)
(***************************************************************************)
InOrder == mode # "wild"

(***************************************************************************)
(* Whatever the loader left out, the scheduler starts only with a process  *)
(* made from /sbin/init of a module the loader passed, and only under a    *)
(* loader with the right magic.                                            *)
(***************************************************************************)
StartsInit ==
    mode = "sched" =>
        mbi.magic /\ "MODS" \in mbi.flags /\ mbi.module = "init" /\ "process" \in have

(***************************************************************************)
(* A panic or a failed assertion is reported over a serial line that has   *)
(* been set up, except that of a full memory map, before paging.           *)
(***************************************************************************)
PanicHeard == mode = "panic" => "serial" \in have \/ pc \in {"add", "cut"}

(***************************************************************************)
(* Whatever the loader passed, the boot uses only what it has set up, ends *)
(* in a scheduler that has init to run, or in a panic that is heard.       *)
(***************************************************************************)
BootSafe == InOrder /\ StartsInit /\ PanicHeard
=============================================================================
