------------------------------ MODULE PagePool ------------------------------
(***************************************************************************)
(* What the physical page allocator of kernel/mem.c promises its callers:  *)
(* a page is free or held, never both; alloc_pages hands out a run of      *)
(* consecutive free pages and free_pages takes such a run back.  The one   *)
(* thing it does not promise is to remember memory it has freed into an    *)
(* empty pool.                                                             *)
(***************************************************************************)
EXTENDS Integers

CONSTANT Page       \* the page numbers of usable memory, a set of integers

VARIABLES
    free,   \* pages that can be allocated
    held    \* pages that belong to a caller

vars == <<free, held>>

(***************************************************************************)
(* Consecutive page numbers.                                               *)
(***************************************************************************)
IsRun(S) == \A x, y \in S : \A z \in Page : x <= z /\ z <= y => z \in S

Init ==
    /\ free \subseteq Page
    /\ held = {}

(***************************************************************************)
(* A run leaves the pool; the pool may forget everything else.             *)
(***************************************************************************)
Alloc ==
    /\ held \subseteq held'
    /\ held' \ held \subseteq free
    /\ IsRun(held' \ held)
    /\ free' = free \ held' \/ free' = {}

(***************************************************************************)
(* A run comes back; an empty pool may forget it.                          *)
(***************************************************************************)
Free ==
    /\ held' \subseteq held
    /\ IsRun(held \ held')
    /\ free' = free \cup (held \ held') \/ (free = {} /\ free' = {})

Next == Alloc \/ Free

Spec == Init /\ [][Next]_vars
=============================================================================
