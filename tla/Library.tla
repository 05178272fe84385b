------------------------------ MODULE Library ------------------------------
(***************************************************************************)
(* The kernel's heap and the user library: KHeap, Malloc, Strings and      *)
(* Stdio.  They share no state: part says whose calls are made, the others *)
(* stay as they are.                                                       *)
(***************************************************************************)
EXTENDS KHeap

CONSTANTS
    PgSize, Base, Asked,            \* those of Malloc
    Half, Byte,                     \* of Strings
    Width, BUFSIZ, MaxPut, Ints     \* of Stdio

VARIABLES
    part,       \* "kheap", "malloc", "strings" or "stdio"
    uheap, torn, ulive, uend, umode, small, uneed,  \* the state of Malloc
    mem, call,                                      \* of Strings
    buf, written, put, job, ret, count, smode       \* of Stdio

malloc == <<uheap, torn, ulive, uend, umode, small, uneed>>
strings == <<mem, call>>
stdio == <<buf, written, put, job, ret, count, smode>>

L == INSTANCE Malloc WITH
        Sizes <- Asked, heap <- uheap, live <- ulive, end <- uend, mode <- umode, need <- uneed
M == INSTANCE Strings
O == INSTANCE Stdio WITH mode <- smode

ASSUME UserHeapAssumption == L!MallocAssumption
ASSUME RoutinesAssumption == M!StringsAssumption
ASSUME OutputAssumption == O!WidthAssumption /\ O!StdioAssumption

LibraryInit ==
    /\ part \in {"kheap", "malloc", "strings", "stdio"}
    /\ Init
    /\ L!Init
    /\ M!Init /\ (part = "strings" \/ mem = [a \in M!Addr |-> 0])
    /\ O!Init
LibraryNext ==
    \/ part = "kheap" /\ Next /\ UNCHANGED <<part, malloc, strings, stdio>>
    \/ part = "malloc" /\ L!Next /\ UNCHANGED <<part, vars, strings, stdio>>
    \/ part = "strings" /\ M!Next /\ UNCHANGED <<part, vars, malloc, stdio>>
    \/ part = "stdio" /\ O!Next /\ UNCHANGED <<part, vars, malloc, strings>>
LibrarySpec == LibraryInit /\ [][LibraryNext]_<<part, vars, malloc, strings, stdio>>

(***************************************************************************)
(* malloc.c: Malloc's HeapSound, with the types of both heaps.             *)
(***************************************************************************)
HeapSound == TypeOK /\ L!TypeOK /\ L!HeapSound

(***************************************************************************)
(* string.c, string.S and libc's: Strings' RoutinesRight, of every memory  *)
(* that part has.                                                          *)
(***************************************************************************)
RoutinesRight == part = "strings" => M!RoutinesRight

(***************************************************************************)
(* libc's stdio: Stdio's OutputRight.                                      *)
(***************************************************************************)
OutputRight == O!OutputRight

(***************************************************************************)
(* vfprintf: Stdio's ReturnsWritten.                                       *)
(***************************************************************************)
ReturnsWritten == O!ReturnsWritten
=============================================================================
