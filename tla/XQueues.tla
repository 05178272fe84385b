------------------------------- MODULE XQueues -------------------------------
(***************************************************************************)
(* The XOR simple queues of sys/queue.h: a simple queue whose head and     *)
(* elements hold every pointer combined with the head's cookie.  An        *)
(* address is a set of bits, NULL the empty one, and exclusive or the      *)
(* symmetric difference.  The queues are shown to be the SIMPLEQs of       *)
(* Queues, pointer by pointer, although an element moves between heads     *)
(* with different cookies and keeps what it held when it is removed.       *)
(***************************************************************************)
EXTENDS Integers, SequencesExt

CONSTANTS
    Heads, Elems,   \* addresses of heads and elements
    Cookies,        \* what arc4random_buf may give
    None            \* no loop; NULL in the terms of Queues

Nil == {}       \* NULL
Cell == Heads \cup Elems

Loop ==
    [h : Heads, var : Elems, tvar : Elems \cup {Nil, None}, start : Seq(Elems), n : Nat]

AddressAssumption ==
    /\ Heads \cap Elems = {} /\ Nil \notin Cell /\ IsFiniteSet(Cell)
    /\ None \notin Cell /\ None \notin Loop

VARIABLES
    next,       \* sqx_first of each head and sqx_next of each element, combined
    last,       \* sqx_last of each head, combined
    cookie,     \* sqx_cookie
    list,       \* history variable: the elements of each queue, in order
    scan,       \* a FOREACH_SAFE loop, as in Queues
    key         \* history variable: the cookie each cell was written with

vars == <<next, last, cookie, list, scan, key>>

XSIMPLEQ_XOR(h, v) == (cookie[h] \ v) \cup (v \ cookie[h])

(***************************************************************************)
(* XSIMPLEQ_INIT, which every head has been through.                       *)
(***************************************************************************)
Init ==
    /\ cookie \in [Heads -> Cookies]
    /\ next = [c \in Cell |-> IF c \in Heads THEN XSIMPLEQ_XOR(c, Nil) ELSE Nil]
    /\ last = [h \in Heads |-> XSIMPLEQ_XOR(h, h)]
    /\ list = [h \in Heads |-> <<>>]
    /\ scan = None
    /\ key = [c \in Cell |-> IF c \in Heads THEN cookie[c] ELSE Nil]

XSIMPLEQ_FIRST(h) == XSIMPLEQ_XOR(h, next[h])
XSIMPLEQ_NEXT(h, e) == XSIMPLEQ_XOR(h, next[e])

(***************************************************************************)
(* Writing cells with the cookie of h.                                     *)
(***************************************************************************)
Written(h, cells) == key' = [c \in Cell |-> IF c \in cells THEN cookie[h] ELSE key[c]]

IfEmpty(h, v, e) == last' = IF v = XSIMPLEQ_XOR(h, Nil)
                            THEN [last EXCEPT ![h] = XSIMPLEQ_XOR(h, e)] ELSE last

-----------------------------------------------------------------------------
XSIMPLEQ_INIT(h) ==
    \E new \in Cookies :
        LET Xor(v) == (new \ v) \cup (v \ new)
        IN  /\ cookie' = [cookie EXCEPT ![h] = new]
            /\ next' = [next EXCEPT ![h] = Xor(Nil)]
            /\ last' = [last EXCEPT ![h] = Xor(h)]
            /\ key' = [key EXCEPT ![h] = new]

PlainNull(h, e) ==              \* mutant: the first pointer compared with NULL itself
    /\ next' = [next EXCEPT ![e] = next[h], ![h] = XSIMPLEQ_XOR(h, e)]
    /\ last' = IF next[h] = Nil THEN [last EXCEPT ![h] = XSIMPLEQ_XOR(h, e)] ELSE last
    /\ Written(h, {h, e})
XSIMPLEQ_INSERT_HEAD(h, e) ==
    /\ next' = [next EXCEPT ![e] = next[h], ![h] = XSIMPLEQ_XOR(h, e)]
    /\ IfEmpty(h, next[h], e)
    /\ Written(h, {h, e})

XSIMPLEQ_INSERT_TAIL(h, e) ==
    LET tail == XSIMPLEQ_XOR(h, last[h])
    IN  /\ next' = [next EXCEPT ![e] = XSIMPLEQ_XOR(h, Nil), ![tail] = XSIMPLEQ_XOR(h, e)]
        /\ last' = [last EXCEPT ![h] = XSIMPLEQ_XOR(h, e)]
        /\ Written(h, {tail, e})

XSIMPLEQ_INSERT_AFTER(h, x, e) ==
    /\ next' = [next EXCEPT ![e] = next[x], ![x] = XSIMPLEQ_XOR(h, e)]
    /\ IfEmpty(h, next[x], e)
    /\ Written(h, {x, e})

XSIMPLEQ_REMOVE_HEAD(h) ==
    LET v == next[XSIMPLEQ_FIRST(h)]
    IN  next' = [next EXCEPT ![h] = v] /\ IfEmpty(h, v, h) /\ Written(h, {h})

XSIMPLEQ_REMOVE_AFTER(h, x) ==
    LET v == next[XSIMPLEQ_NEXT(h, x)]
    IN  next' = [next EXCEPT ![x] = v] /\ IfEmpty(h, v, x) /\ Written(h, {x})

-----------------------------------------------------------------------------
(***************************************************************************)
(* The callers, as in Queues.                                              *)
(***************************************************************************)
OnList(e) == \E h \in Heads : e \in Range(list[h])
Unlisted == {e \in IF scan = None THEN Elems ELSE {scan.var} : ~OnList(e)}
Target == IF scan = None THEN Heads ELSE Heads \ {scan.h}

Initialise(h) ==
    /\ scan = None
    /\ XSIMPLEQ_INIT(h)
    /\ list' = [list EXCEPT ![h] = <<>>]
    /\ UNCHANGED scan

Insert(h, e) ==
    /\ e \in Unlisted /\ h \in Target
    /\ \/ XSIMPLEQ_INSERT_HEAD(h, e) /\ list' = [list EXCEPT ![h] = <<e>> \o @]
       \/ XSIMPLEQ_INSERT_TAIL(h, e) /\ list' = [list EXCEPT ![h] = Append(@, e)]
       \/ \E i \in DOMAIN list[h] :
             /\ XSIMPLEQ_INSERT_AFTER(h, list[h][i], e)
             /\ list' = [list EXCEPT ![h] = InsertAt(@, i + 1, e)]
    /\ UNCHANGED <<cookie, scan>>

RemoveOne(h) ==
    /\ scan = None
    /\ \/ /\ list[h] # <<>>
          /\ XSIMPLEQ_REMOVE_HEAD(h)
          /\ list' = [list EXCEPT ![h] = Tail(@)]
       \/ \E i \in 1..(Len(list[h]) - 1) :
             /\ XSIMPLEQ_REMOVE_AFTER(h, list[h][i])
             /\ list' = [list EXCEPT ![h] = RemoveAt(@, i + 1)]
    /\ UNCHANGED <<cookie, scan>>

XSIMPLEQ_FOREACH_SAFE(h) ==
    LET first == XSIMPLEQ_FIRST(h)
    IN  /\ scan = None /\ first # Nil
        /\ scan' = [h |-> h, var |-> first, tvar |-> XSIMPLEQ_NEXT(h, first),
                    start |-> list[h], n |-> 0]
        /\ UNCHANGED <<next, last, cookie, list, key>>

NextPass ==
    /\ scan # None
    /\ scan' = IF scan.tvar = Nil THEN None
               ELSE [scan EXCEPT !.var = scan.tvar, !.n = @ + 1,
                                 !.tvar = XSIMPLEQ_NEXT(scan.h, scan.tvar)]
    /\ UNCHANGED <<next, last, cookie, list, key>>

Next ==
    \/ \E h \in Heads : Initialise(h) \/ RemoveOne(h) \/ XSIMPLEQ_FOREACH_SAFE(h)
    \/ \E h \in Heads, e \in Elems : Insert(h, e)
    \/ NextPass

Spec == Init /\ [][Next]_vars

-----------------------------------------------------------------------------
(***************************************************************************)
(* Properties                                                              *)
(***************************************************************************)
Plain(c, v) == (key[c] \ v) \cup (v \ key[c])

Pointer(v) == IF v = Nil THEN None ELSE v

Q == INSTANCE Queues WITH
        NULL <- None,
        kind <- "SIMPLEQ",
        next <- [c \in Cell |-> Pointer(Plain(c, next[c]))],
        prev <- [e \in Elems |-> None],
        last <- [h \in Heads |-> XSIMPLEQ_XOR(h, last[h])],
        scan <- IF scan = None THEN None ELSE [scan EXCEPT !.tvar = Pointer(@)]

(***************************************************************************)
(* With the cookies taken off, every macro does to the pointers what the   *)
(* SIMPLEQ macro of that name does, whichever elements were on a queue     *)
(* with another cookie before: the queues of Queues.                       *)
(***************************************************************************)
SimpleQueues == Q!Spec

(***************************************************************************)
(* XSIMPLEQ_FOREACH decodes every pointer with the cookie of the head it   *)
(* started from: all cells on a queue must have been written with it.      *)
(***************************************************************************)
Visited(h) ==
    LET var[n \in 0..Cardinality(Elems)] ==
            IF n = 0 THEN XSIMPLEQ_FIRST(h)
            ELSE IF var[n - 1] = Nil THEN Nil ELSE XSIMPLEQ_NEXT(h, var[n - 1])
        passes == {n \in 0..Cardinality(Elems) : var[n] # Nil}
    IN  [i \in 1..Cardinality(passes) |-> var[i - 1]]

OwnCookie ==
    \A h \in Heads : /\ \A i \in DOMAIN list[h] : key[list[h][i]] = cookie[h]
                     /\ Visited(h) = list[h]
=============================================================================
