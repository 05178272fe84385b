----------------------------- MODULE MCQueues -----------------------------
(***************************************************************************)
(* Model checking of the two kinds of list in queue.h, which share no      *)
(* state: part says whose calls are made. Queues: two lists and four       *)
(* elements, which move between lists with the pointers they had. XQueues: *)
(* two heads and four elements at addresses of three bits, and two         *)
(* cookies, one of them 0 (the sets XHeads, XElems and XCookies).          *)
(***************************************************************************)

EXTENDS Queues, TLC

CONSTANTS XHeads, XElems, XCookies      \* those of XQueues: sets of bits

VARIABLES
    part,                                           \* "plain" or "xor"
    xnext, xlast, cookie, xlist, xscan, key         \* the state of XQueues

xor == <<xnext, xlast, cookie, xlist, xscan, key>>

X == INSTANCE XQueues WITH
        Heads <- XHeads, Elems <- XElems, Cookies <- XCookies, None <- NULL,
        next <- xnext, last <- xlast, list <- xlist, scan <- xscan

ASSUME XAssumption == X!AddressAssumption

Symmetry == Permutations(Elems)

QueuesInit ==
    /\ part \in {"plain", "xor"}
    /\ Init /\ (part = "plain" \/ kind = "LIST")
    /\ X!Init /\ (part = "xor" \/ cookie = [h \in DOMAIN cookie |-> {}])
QueuesNext ==
    \/ part = "plain" /\ Next /\ UNCHANGED <<part, xor>>
    \/ part = "xor" /\ X!Next /\ UNCHANGED <<part, vars>>
QueuesSpec == QueuesInit /\ [][QueuesNext]_<<part, vars, xor>>

(***************************************************************************)
(* The loops of all six families visit each list in order: those of Queues *)
(* backwards too, and with a body that takes the element off; those of     *)
(* XQueues whatever cookie an element's pointers had before. The types of  *)
(* Queues with them.                                                       *)
(***************************************************************************)
LoopsVisit == TypeOK /\ Traversals /\ SafeLoop /\ X!OwnCookie

(***************************************************************************)
(* The XOR simple queues are simple queues: XQueues' SimpleQueues.         *)
(***************************************************************************)
SimpleQueues == X!SimpleQueues
=============================================================================
