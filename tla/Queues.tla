------------------------------- MODULE Queues -------------------------------
(***************************************************************************)
(* The linked lists of sys/queue.h, which hold the run queue, the free     *)
(* pages, both heaps and the regions of every process: their macros as     *)
(* assignments to pointers, against the sequences they stand for.  A cell  *)
(* is a place that holds a pointer to an element: a head's first or an     *)
(* element's next.  le_prev, tqe_prev and the tail of a head are addresses *)
(* of cells.  _Q_INVALIDATE is empty in this build: an element that was    *)
(* removed keeps the pointers it had.                                      *)
(***************************************************************************)
EXTENDS Integers, SequencesExt

CONSTANTS
    Heads,  \* list heads
    Elems,  \* elements, each with one entry field
    NULL

ASSUME CellAssumption ==
    Heads \cap Elems = {} /\ NULL \notin Heads \cup Elems /\ IsFiniteSet(Elems)

Kind == {"SLIST", "LIST", "SIMPLEQ", "STAILQ", "TAILQ"}
Cell == Heads \cup Elems

VARIABLES
    kind,   \* which family of macros the lists use
    next,   \* the pointer in each cell
    prev,   \* of each element, the cell that points to it (LIST, TAILQ)
    last,   \* of each head, the cell that ends the list (SIMPLEQ, STAILQ, TAILQ)
    list,   \* history variable: the elements of each list, in order
    scan    \* NULL, or a FOREACH_SAFE loop: its list, var and tvar; and, as
            \* history, what the list was (start) and how many were visited (n)

links == <<next, prev, last>>
vars == <<kind, next, prev, last, list, scan>>

HasPrev == kind \in {"LIST", "TAILQ"}
HasLast == kind \in {"SIMPLEQ", "STAILQ", "TAILQ"}

Init ==
    /\ kind \in Kind
    /\ next = [c \in Cell |-> NULL]
    /\ prev = [e \in Elems |-> NULL]
    /\ last = [h \in Heads |-> h]
    /\ list = [h \in Heads |-> <<>>]
    /\ scan = NULL

-----------------------------------------------------------------------------
(***************************************************************************)
(* Putting element e behind cell c: what happens to c's pointer, to the    *)
(* back pointers of e and of the element behind it, and to the tail.       *)
(***************************************************************************)
LinkNext(c, e) == next' = [next EXCEPT ![e] = next[c], ![c] = e]

LinkPrev(c, e) ==
    prev' = [x \in Elems |-> IF x = e THEN c
                            ELSE IF x = next[c] THEN e ELSE prev[x]]

LinkLast(h, c, e) == last' = IF next[c] = NULL THEN [last EXCEPT ![h] = e] ELSE last

(***************************************************************************)
(* Putting e in front of element x, through the cell that points to x.     *)
(***************************************************************************)
LinkBefore(x, e) ==
    /\ next' = [next EXCEPT ![e] = x, ![prev[x]] = e]
    /\ prev' = [prev EXCEPT ![e] = prev[x], ![x] = e]

(***************************************************************************)
(* Taking out element e, which cell c points to.                           *)
(***************************************************************************)
CutNext(c, e) == next' = [next EXCEPT ![c] = next[e]]

CutPrev(c, e) == prev' = [x \in Elems |-> IF x = next[e] THEN c ELSE prev[x]]

CutLast(h, c, e) == last' = IF next[e] = NULL THEN [last EXCEPT ![h] = c] ELSE last

(***************************************************************************)
(* Element f takes the place of e.                                         *)
(***************************************************************************)
SwapLinks(e, f) ==
    /\ next' = [next EXCEPT ![f] = next[e], ![prev[e]] = f]
    /\ prev' = [x \in Elems |-> IF x = f THEN prev[e]
                               ELSE IF x = next[e] THEN f ELSE prev[x]]

(***************************************************************************)
(* The list of g, not empty, is hung behind that of h; g becomes empty.    *)
(***************************************************************************)
JoinLists(h, g) ==
    /\ next' = [next EXCEPT ![last[h]] = next[g], ![g] = NULL]
    /\ last' = [last EXCEPT ![h] = last[g], ![g] = g]

-----------------------------------------------------------------------------
(***************************************************************************)
(* SLIST                                                                   *)
(***************************************************************************)
SLIST_INIT(h) == next' = [next EXCEPT ![h] = NULL] /\ UNCHANGED <<prev, last>>
SLIST_INSERT_AFTER(x, e) == LinkNext(x, e) /\ UNCHANGED <<prev, last>>
SLIST_INSERT_HEAD(h, e) == LinkNext(h, e) /\ UNCHANGED <<prev, last>>
SLIST_REMOVE_AFTER(x) == CutNext(x, next[x]) /\ UNCHANGED <<prev, last>>
SLIST_REMOVE_HEAD(h) == CutNext(h, next[h]) /\ UNCHANGED <<prev, last>>

(***************************************************************************)
(* The search for the element in front of e: the first one on the list     *)
(* whose next is e.                                                        *)
(***************************************************************************)
Curelm(h, e) ==
    LET on == list[h]
        i == CHOOSE i \in DOMAIN on : /\ next[on[i]] = e
                                      /\ \A j \in 1..(i - 1) : next[on[j]] # e
    IN  on[i]

SLIST_REMOVE(h, e) ==
    IF next[h] = e THEN SLIST_REMOVE_HEAD(h) ELSE SLIST_REMOVE_AFTER(Curelm(h, e))

(***************************************************************************)
(* LIST                                                                    *)
(***************************************************************************)
LIST_INIT(h) == next' = [next EXCEPT ![h] = NULL] /\ UNCHANGED <<prev, last>>

BackLinkKept(x, e) == LinkNext(x, e) /\ prev' = [prev EXCEPT ![e] = x] /\ UNCHANGED last
                                    \* mutant: the element behind is forgotten
LIST_INSERT_AFTER(x, e) == LinkNext(x, e) /\ LinkPrev(x, e) /\ UNCHANGED last
LIST_INSERT_BEFORE(x, e) == LinkBefore(x, e) /\ UNCHANGED last
LIST_INSERT_HEAD(h, e) == LinkNext(h, e) /\ LinkPrev(h, e) /\ UNCHANGED last
LIST_REMOVE(e) == CutNext(prev[e], e) /\ CutPrev(prev[e], e) /\ UNCHANGED last
LIST_REPLACE(e, f) == SwapLinks(e, f) /\ UNCHANGED last

(***************************************************************************)
(* SIMPLEQ                                                                 *)
(***************************************************************************)
SIMPLEQ_INIT(h) ==
    next' = [next EXCEPT ![h] = NULL] /\ last' = [last EXCEPT ![h] = h] /\ UNCHANGED prev
SIMPLEQ_INSERT_HEAD(h, e) == LinkNext(h, e) /\ LinkLast(h, h, e) /\ UNCHANGED prev
SIMPLEQ_INSERT_TAIL(h, e) ==
    /\ next' = [next EXCEPT ![e] = NULL, ![last[h]] = e]
    /\ last' = [last EXCEPT ![h] = e]
    /\ UNCHANGED prev
SIMPLEQ_INSERT_AFTER(h, x, e) == LinkNext(x, e) /\ LinkLast(h, x, e) /\ UNCHANGED prev
SIMPLEQ_REMOVE_HEAD(h) ==
    CutNext(h, next[h]) /\ CutLast(h, h, next[h]) /\ UNCHANGED prev
SIMPLEQ_REMOVE_AFTER(h, x) ==
    CutNext(x, next[x]) /\ CutLast(h, x, next[x]) /\ UNCHANGED prev
SIMPLEQ_CONCAT(h, g) ==
    IF next[g] = NULL THEN UNCHANGED links ELSE JoinLists(h, g) /\ UNCHANGED prev

(***************************************************************************)
(* STAILQ: the same assignments as SIMPLEQ, removal anywhere, the tail.    *)
(***************************************************************************)
STAILQ_INIT(h) == SIMPLEQ_INIT(h)
STAILQ_INSERT_HEAD(h, e) == SIMPLEQ_INSERT_HEAD(h, e)
STAILQ_INSERT_TAIL(h, e) == SIMPLEQ_INSERT_TAIL(h, e)
STAILQ_INSERT_AFTER(h, x, e) == SIMPLEQ_INSERT_AFTER(h, x, e)
STAILQ_REMOVE_HEAD(h) == SIMPLEQ_REMOVE_HEAD(h)
STAILQ_REMOVE_AFTER(h, x) == SIMPLEQ_REMOVE_AFTER(h, x)
STAILQ_REMOVE(h, e) ==
    IF next[h] = e THEN STAILQ_REMOVE_HEAD(h) ELSE STAILQ_REMOVE_AFTER(h, Curelm(h, e))
STAILQ_CONCAT(h, g) == SIMPLEQ_CONCAT(h, g)
STAILQ_LAST(h) == IF next[h] = NULL THEN NULL ELSE last[h]

(***************************************************************************)
(* TAILQ                                                                   *)
(***************************************************************************)
TAILQ_INIT(h) == SIMPLEQ_INIT(h)
TAILQ_INSERT_HEAD(h, e) == LinkNext(h, e) /\ LinkPrev(h, e) /\ LinkLast(h, h, e)
TAILQ_INSERT_TAIL(h, e) ==
    /\ next' = [next EXCEPT ![e] = NULL, ![last[h]] = e]
    /\ prev' = [prev EXCEPT ![e] = last[h]]
    /\ last' = [last EXCEPT ![h] = e]
TAILQ_INSERT_AFTER(h, x, e) == LinkNext(x, e) /\ LinkPrev(x, e) /\ LinkLast(h, x, e)
TAILQ_INSERT_BEFORE(x, e) == LinkBefore(x, e) /\ UNCHANGED last

TailKept(h, e) == CutNext(prev[e], e) /\ CutPrev(prev[e], e) /\ UNCHANGED last
                                    \* mutant: no else branch
TAILQ_REMOVE(h, e) ==
    CutNext(prev[e], e) /\ CutPrev(prev[e], e) /\ CutLast(h, prev[e], e)

TAILQ_REPLACE(h, e, f) ==
    /\ SwapLinks(e, f)
    /\ last' = IF next[e] = NULL THEN [last EXCEPT ![h] = f] ELSE last
TAILQ_CONCAT(h, g) ==
    IF next[g] = NULL THEN UNCHANGED links
    ELSE JoinLists(h, g) /\ prev' = [prev EXCEPT ![next[g]] = last[h]]

(***************************************************************************)
(* Going backwards: an entry and a head both start with two pointers, so   *)
(* the word behind a cell is a tail when the cell is a head's and a back   *)
(* pointer when it is an element's.                                        *)
(***************************************************************************)
WordBehind(c) == IF c \in Heads THEN last[c] ELSE prev[c]
TAILQ_LAST(h) == next[WordBehind(last[h])]
TAILQ_PREV(e) == next[WordBehind(prev[e])]

-----------------------------------------------------------------------------
(***************************************************************************)
(* The loops, as the elements they visit: var is the element after n       *)
(* passes, NULL when the loop has ended.  One that meets more elements     *)
(* than there are has met a cycle.                                         *)
(***************************************************************************)
Visit(first, step(_)) ==
    LET var[n \in 0..Cardinality(Elems)] ==
            IF n = 0 THEN first
            ELSE IF var[n - 1] = NULL THEN NULL ELSE step(var[n - 1])
        passes == {n \in 0..Cardinality(Elems) : var[n] # NULL}
    IN  [i \in 1..Cardinality(passes) |-> var[i - 1]]

Forward(h) == Visit(next[h], LAMBDA e : next[e])
SLIST_FOREACH(h) == Forward(h)
LIST_FOREACH(h) == Forward(h)
SIMPLEQ_FOREACH(h) == Forward(h)
STAILQ_FOREACH(h) == Forward(h)
TAILQ_FOREACH(h) == Forward(h)
TAILQ_FOREACH_REVERSE(h) == Visit(TAILQ_LAST(h), TAILQ_PREV)

(***************************************************************************)
(* FOREACH_SAFE reads the element behind var before it runs the body.      *)
(***************************************************************************)
FOREACH_SAFE(h) ==
    /\ scan = NULL /\ next[h] # NULL
    /\ scan' = [h |-> h, var |-> next[h], tvar |-> next[next[h]], start |-> list[h], n |-> 0]
    /\ UNCHANGED <<kind, links, list>>

ReadsLate ==                        \* mutant: FOREACH instead
    /\ scan # NULL
    /\ scan' = IF next[scan.var] = NULL THEN NULL
               ELSE [scan EXCEPT !.var = next[scan.var], !.n = @ + 1]
    /\ UNCHANGED <<kind, links, list>>
NextPass ==
    /\ scan # NULL
    /\ scan' = IF scan.tvar = NULL THEN NULL
               ELSE [scan EXCEPT !.var = scan.tvar, !.tvar = next[scan.tvar], !.n = @ + 1]
    /\ UNCHANGED <<kind, links, list>>

-----------------------------------------------------------------------------
(***************************************************************************)
(* The callers.  An element is inserted when it is on no list and removed  *)
(* from the list it is on; the body of a FOREACH_SAFE loop may do so with  *)
(* var, and with lists other than the one it walks.                        *)
(***************************************************************************)
OnList(e) == \E h \in Heads : e \in Range(list[h])
Movable == IF scan = NULL THEN Elems ELSE {scan.var}
Unlisted == {e \in Movable : ~OnList(e)}
Target == IF scan = NULL THEN Heads ELSE Heads \ {scan.h}

Put(h, i, e) == list' = [list EXCEPT ![h] = InsertAt(@, i, e)]
Take(h, i) == list' = [list EXCEPT ![h] = RemoveAt(@, i)]

Initialise(h) ==
    /\ scan = NULL
    /\ list' = [list EXCEPT ![h] = <<>>]
    /\ \/ kind = "SLIST" /\ SLIST_INIT(h)
       \/ kind = "LIST" /\ LIST_INIT(h)
       \/ kind = "SIMPLEQ" /\ SIMPLEQ_INIT(h)
       \/ kind = "STAILQ" /\ STAILQ_INIT(h)
       \/ kind = "TAILQ" /\ TAILQ_INIT(h)
    /\ UNCHANGED <<kind, scan>>

InsertHead(h, e) ==
    /\ e \in Unlisted /\ h \in Target
    /\ Put(h, 1, e)
    /\ \/ kind = "SLIST" /\ SLIST_INSERT_HEAD(h, e)
       \/ kind = "LIST" /\ LIST_INSERT_HEAD(h, e)
       \/ kind = "SIMPLEQ" /\ SIMPLEQ_INSERT_HEAD(h, e)
       \/ kind = "STAILQ" /\ STAILQ_INSERT_HEAD(h, e)
       \/ kind = "TAILQ" /\ TAILQ_INSERT_HEAD(h, e)
    /\ UNCHANGED <<kind, scan>>

InsertTail(h, e) ==
    /\ e \in Unlisted /\ h \in Target
    /\ list' = [list EXCEPT ![h] = Append(@, e)]
    /\ \/ kind = "SIMPLEQ" /\ SIMPLEQ_INSERT_TAIL(h, e)
       \/ kind = "STAILQ" /\ STAILQ_INSERT_TAIL(h, e)
       \/ kind = "TAILQ" /\ TAILQ_INSERT_TAIL(h, e)
    /\ UNCHANGED <<kind, scan>>

InsertAfter(h, i, e) ==
    /\ e \in Unlisted /\ h \in Target
    /\ Put(h, i + 1, e)
    /\ LET x == list[h][i] IN
       \/ kind = "SLIST" /\ SLIST_INSERT_AFTER(x, e)
       \/ kind = "LIST" /\ LIST_INSERT_AFTER(x, e)
       \/ kind = "SIMPLEQ" /\ SIMPLEQ_INSERT_AFTER(h, x, e)
       \/ kind = "STAILQ" /\ STAILQ_INSERT_AFTER(h, x, e)
       \/ kind = "TAILQ" /\ TAILQ_INSERT_AFTER(h, x, e)
    /\ UNCHANGED <<kind, scan>>

InsertBefore(h, i, e) ==
    /\ e \in Unlisted /\ h \in Target
    /\ Put(h, i, e)
    /\ \/ kind = "LIST" /\ LIST_INSERT_BEFORE(list[h][i], e)
       \/ kind = "TAILQ" /\ TAILQ_INSERT_BEFORE(list[h][i], e)
    /\ UNCHANGED <<kind, scan>>

RemoveHead(h) ==
    /\ scan = NULL /\ list[h] # <<>>
    /\ Take(h, 1)
    /\ \/ kind = "SLIST" /\ SLIST_REMOVE_HEAD(h)
       \/ kind = "SIMPLEQ" /\ SIMPLEQ_REMOVE_HEAD(h)
       \/ kind = "STAILQ" /\ STAILQ_REMOVE_HEAD(h)
    /\ UNCHANGED <<kind, scan>>

RemoveAfter(h, i) ==
    /\ scan = NULL /\ i < Len(list[h])
    /\ Take(h, i + 1)
    /\ \/ kind = "SLIST" /\ SLIST_REMOVE_AFTER(list[h][i])
       \/ kind = "SIMPLEQ" /\ SIMPLEQ_REMOVE_AFTER(h, list[h][i])
       \/ kind = "STAILQ" /\ STAILQ_REMOVE_AFTER(h, list[h][i])
    /\ UNCHANGED <<kind, scan>>

RemoveElm(h, i) ==
    /\ list[h][i] \in Movable
    /\ Take(h, i)
    /\ LET e == list[h][i] IN
       \/ kind = "SLIST" /\ SLIST_REMOVE(h, e)
       \/ kind = "LIST" /\ LIST_REMOVE(e)
       \/ kind = "STAILQ" /\ STAILQ_REMOVE(h, e)
       \/ kind = "TAILQ" /\ TAILQ_REMOVE(h, e)
    /\ UNCHANGED <<kind, scan>>

Replace(h, i, f) ==
    /\ scan = NULL /\ f \in Unlisted
    /\ list' = [list EXCEPT ![h][i] = f]
    /\ \/ kind = "LIST" /\ LIST_REPLACE(list[h][i], f)
       \/ kind = "TAILQ" /\ TAILQ_REPLACE(h, list[h][i], f)
    /\ UNCHANGED <<kind, scan>>

Concat(h, g) ==
    /\ scan = NULL /\ h # g
    /\ list' = [list EXCEPT ![h] = @ \o list[g], ![g] = <<>>]
    /\ \/ kind = "SIMPLEQ" /\ SIMPLEQ_CONCAT(h, g)
       \/ kind = "STAILQ" /\ STAILQ_CONCAT(h, g)
       \/ kind = "TAILQ" /\ TAILQ_CONCAT(h, g)
    /\ UNCHANGED <<kind, scan>>

Next ==
    \/ \E h \in Heads : Initialise(h) \/ RemoveHead(h) \/ FOREACH_SAFE(h)
    \/ \E h \in Heads, e \in Elems : InsertHead(h, e) \/ InsertTail(h, e)
    \/ \E h \in Heads : \E i \in DOMAIN list[h] : RemoveAfter(h, i) \/ RemoveElm(h, i)
    \/ \E h \in Heads, e \in Elems : \E i \in DOMAIN list[h] :
          InsertAfter(h, i, e) \/ InsertBefore(h, i, e) \/ Replace(h, i, e)
    \/ \E h, g \in Heads : Concat(h, g)
    \/ NextPass

Spec == Init /\ [][Next]_vars

-----------------------------------------------------------------------------
(***************************************************************************)
(* Properties                                                              *)
(***************************************************************************)

(***************************************************************************)
(* Types; an element is on one list at most, once.                         *)
(***************************************************************************)
TypeOK ==
    /\ kind \in Kind
    /\ next \in [Cell -> Elems \cup {NULL}]
    /\ prev \in [Elems -> Cell \cup {NULL}]
    /\ last \in [Heads -> Cell]
    /\ list \in [Heads -> Seq(Elems)]
    /\ \A h, g \in Heads : \A i \in DOMAIN list[h], j \in DOMAIN list[g] :
          list[h][i] = list[g][j] => h = g /\ i = j

(***************************************************************************)
(* Every macro leaves pointers that spell out its list: each cell points   *)
(* to the element behind it and the last one to NULL, each element's back  *)
(* pointer is the cell in front of it, and the tail is the last cell.      *)
(* What stale elements point to plays no part.                             *)
(***************************************************************************)
CellAt(h, i) == IF i = 0 THEN h ELSE list[h][i]

Links ==
    \A h \in Heads : LET n == Len(list[h]) IN
        /\ \A i \in 0..n : next[CellAt(h, i)] = IF i = n THEN NULL ELSE list[h][i + 1]
        /\ HasPrev => \A i \in 1..n : prev[list[h][i]] = CellAt(h, i - 1)
        /\ HasLast => last[h] = CellAt(h, n)

(***************************************************************************)
(* FOREACH visits the list in order and ends; for tail queues the reverse  *)
(* loop, which reads a back pointer through the layout of a head, visits   *)
(* it backwards; STAILQ_LAST is the last element.                          *)
(***************************************************************************)
Traversals ==
    \A h \in Heads :
        /\ list[h] = CASE kind = "SLIST" -> SLIST_FOREACH(h)
                       [] kind = "LIST" -> LIST_FOREACH(h)
                       [] kind = "SIMPLEQ" -> SIMPLEQ_FOREACH(h)
                       [] kind = "STAILQ" -> STAILQ_FOREACH(h)
                       [] kind = "TAILQ" -> TAILQ_FOREACH(h)
        /\ kind = "TAILQ" => TAILQ_FOREACH_REVERSE(h) = Reverse(list[h])
        /\ kind = "STAILQ" =>
              STAILQ_LAST(h) = IF list[h] = <<>> THEN NULL ELSE Last(list[h])

(***************************************************************************)
(* A FOREACH_SAFE loop whose body takes var off the list, or puts it on    *)
(* another, visits what was on the list when it began, in order: free_uvm  *)
(* and loadelf empty a region list this way.                               *)
(***************************************************************************)
SafeLoop ==
    scan # NULL =>
        LET rest == SubSeq(scan.start, scan.n + 1, Len(scan.start)) \o <<NULL>>
        IN  Len(rest) >= 2 /\ scan.var = rest[1] /\ scan.tvar = rest[2]
=============================================================================
