---------------------------- MODULE MCPageAlloc ----------------------------
(***************************************************************************)
(* Model checking of PageAlloc on small memories: one region, two regions, *)
(* three regions that init_mem links out of order, a memory too small for  *)
(* the heap, and a map with an entry that was cut out completely.  The     *)
(* heap is two pages.  The sizes asked for include 0 (what sys_mmap's      *)
(* rounding makes of a length near 2^32), a size that is not a multiple of *)
(* the page and one that takes two pages.                                  *)
(***************************************************************************)
EXTENDS PageAlloc

Region(page, n) == [addr |-> page * PGSIZE, sz |-> n * PGSIZE]

MCMemMaps == {
    <<Region(1, 4)>>,
    <<Region(1, 2), Region(4, 3)>>,
    <<Region(1, 1), Region(3, 4), Region(9, 2)>>,
    <<Region(0, 0), Region(1, 3), Region(4, 2)>>,
    <<Region(1, 1)>>}

MCSizes == {0, 4095, 4096, 4097}

MCHeapSize == 2 * PGSIZE
=============================================================================
