-------------------------------- MODULE MCVm --------------------------------
(***************************************************************************)
(* Model checking of Vm.  Twelve frames hold init and one or two more      *)
(* address spaces, so that every allocation both succeeds and fails.  They *)
(* lie on both sides of a frame buffer of one page: a fork's copy can go   *)
(* past its block into the pixels alone, or into kernel data, and a        *)
(* mapping of two pages of the frame buffer reaches the frame behind it,   *)
(* be it free or another's.                                                *)
(* The images are one of two page aligned segments and one whose segment   *)
(* starts inside a page and ends on the next.                              *)
(***************************************************************************)
EXTENDS Vm

Seg(va, sz) == [va |-> va, memsz |-> sz]

SmallImage == <<Seg(2 * PGSIZE, 100), Seg(3 * PGSIZE, PGSIZE)>>
CrossingImage == <<Seg(2 * PGSIZE + 3000, 2000)>>
MCImages == {SmallImage, CrossingImage}
MCFrames == 1..9 \cup 11..13
=============================================================================
