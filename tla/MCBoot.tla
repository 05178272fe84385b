------------------------------ MODULE MCBoot ------------------------------
(***************************************************************************)
(* Model checking of the boot. part says which side of it is looked at:    *)
(* the memory map in detail (MemMap), or the order of all steps for every  *)
(* combination of what a loader passes (Boot), with the map at rest.       *)
(* MemMap has pages of four bytes in a 16 page address space and five      *)
(* slots. The firmware's maps are all pairs of regions out of a few (some  *)
(* overlap, some start inside a page or end beyond the address space),     *)
(* single regions, and maps of three and five that fill the slots, and one *)
(* of six that does not fit. The kernel lies on pages 3 and 4; the initrd  *)
(* moves.                                                                  *)
(***************************************************************************)

EXTENDS MemMap

VARIABLES
    part,                                   \* "map" or "order"
    mbi, map, initrd, pc, have, mode        \* the state of Boot

order == <<mbi, map, initrd, pc, have, mode>>

B == INSTANCE Boot

Region(addr, len) == [addr |-> addr, len |-> len]
Extent(start, end) == [start |-> start, end |-> end]

Regions ==
    {Region(4 * a, 4 * n) : a \in {0, 1, 3, 5}, n \in {1, 2, 5, 9}}
    \cup {Region(0, 0), Region(24, 10), Region(8, 3),     \* odd lengths
          Region(18, 9),                                  \* starts inside a page
          Region(60, 4), Region(64, 8), Region(40, 30)}   \* up to and beyond WORD

MCFirmware ==
    {<<a>> : a \in Regions}
    \cup {<<a, b>> : a, b \in Regions}
    \cup {<<Region(0, 8), a, Region(36, 16)>> : a \in Regions}
    \cup {<<Region(0, 8), a, Region(32, 12), Region(44, 8), Region(56, 4)>> :
             a \in Regions}
    \cup {[i \in 1..6 |-> Region(8 * i, 4)]}

MCReserved == {<<Extent(12, 18), Extent(0, 4), Extent(s, s + n)>> :
                  s \in {0, 5, 20, 26, 36}, n \in {3, 7, 12}}

MapDone ==
    /\ firmware = <<>> /\ reserved = <<>> /\ r = 1
    /\ memmap = [i \in Slots |-> Empty] /\ mmap_n = 0 /\ m = 0
    /\ phase = "done"

BootInit ==
    \/ /\ part = "map" /\ Init
       /\ B!Init /\ mbi = [magic |-> TRUE, flags |-> B!Flags, module |-> "init"]
    \/ part = "order" /\ MapDone /\ B!Init
BootNext ==
    \/ part = "map" /\ Next /\ UNCHANGED <<part, order>>
    \/ part = "order" /\ B!Next /\ UNCHANGED <<part, vars>>
BootSpec == BootInit /\ [][BootNext]_<<part, vars, order>> /\ WF_vars(Step)

(***************************************************************************)
(* head.S, init_trunix and kmain: Boot's BootSafe.                         *)
(***************************************************************************)
BootSafe == B!BootSafe
=============================================================================
