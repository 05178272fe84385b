------------------------------- MODULE Malloc -------------------------------
(***************************************************************************)
(* malloc and free of libc (lib/libc/stdlib/malloc.c), in the memory of    *)
(* one process.  The list of free blocks lives in the memory it describes: *)
(* a struct sblock is a size and a link of WORD bytes each, written over   *)
(* whatever is there.  Of a size only what malloc asks of it is kept.  The *)
(* first block's size, sz - pg_roundup(sz), is negative and so "huge" as a *)
(* size_t, and so is the address that may come to stand there (Found); a   *)
(* block that free puts on the list has the size in the upper half of the  *)
(* word before the payload, which is 0.  Callers free what they were       *)
(* given, once, and ask for less than 2^16 bytes.  The heap lies behind    *)
(* the program's image, at 2^18 or above.                                  *)
(***************************************************************************)
EXTENDS Integers, SequencesExt, FiniteSetsExt

CONSTANTS
    PgSize,     \* 0x1000
    Base,       \* where mmap puts the heap
    Sizes       \* bound: the sizes callers ask for

WORD == 4       \* sizeof(size_t), and sizeof of a pointer
HALF == 2       \* sizeof(unsigned short)

MallocAssumption ==
    /\ PgSize \in Nat /\ PgSize % (2 * WORD) = 0 /\ PgSize > 2 * WORD
    /\ Base \in Nat /\ Base >= 262144 /\ Base % PgSize = 0
    /\ Sizes \subseteq Nat /\ \A sz \in Sizes : sz < 65536

VARIABLES
    heap,   \* the list: sequence of [addr, huge]
    torn,   \* blocks of the list whose link was overwritten
    live,   \* what callers hold: [a, asked, room], a the address they have
    end,    \* the end of the memory mmap gave, 0 before the first call
    mode,   \* "ok"; "fault": a write past that memory; "wild": a list is
            \* followed, or a size used, that something else was written over
    small,  \* history: a block of at most WORD bytes has been freed, or one
            \* of no bytes taken off the list
    need    \* history: the room the last call of malloc wanted

vars == <<heap, torn, live, end, mode, small, need>>

Bytes(a, n) == a..(a + n - 1)
Size(b) == Bytes(b.addr, WORD)
Link(b) == Bytes(b.addr + WORD, WORD)
Header(m) == Bytes(m.a - WORD, WORD)
Payload(m) == Bytes(m.a, m.room - WORD)
Listed == {heap[i] : i \in DOMAIN heap}

RoundUp(x, a) == ((x + a - 1) \div a) * a
NoHeader(sz) == RoundUp(sz, WORD)                       \* mutant: header forgotten
Room(sz) == RoundUp(sz + WORD, WORD)

Init ==
    /\ heap = <<>> /\ torn = {} /\ live = {}
    /\ end = 0 /\ mode = "ok" /\ small = FALSE /\ need = 0

Stop(how) == mode' = how /\ UNCHANGED <<heap, torn, live, end, small>>

(***************************************************************************)
(* malloc with an empty list: the block goes to the start of fresh pages   *)
(* and what is behind it becomes the list, if both its words are there.    *)
(* mmap returns NULL when it has no room, and that is written through.     *)
(***************************************************************************)
First(sz) ==
    LET room == Room(sz)
        rest == [addr |-> Base + room, huge |-> TRUE]
        stop == Base + RoundUp(room, PgSize)
    IN  /\ heap = <<>>
        /\ need' = room
        /\ \/ Stop("fault")
           \/ /\ rest.addr + 2 * WORD <= stop
              /\ heap' = <<rest>>
              /\ live' = {[a |-> Base + WORD, asked |-> sz, room |-> room]}
              /\ end' = stop
              /\ UNCHANGED <<torn, mode, small>>

(***************************************************************************)
(* malloc with a list: the first block that is large enough is replaced by *)
(* what is behind the room taken, then the header is written.  The link    *)
(* goes from the block to the rest as it is.  When only the header is      *)
(* taken (malloc(0)), the rest's size is where the block's link is: the    *)
(* size is written over the link, that goes to the rest as its link, and   *)
(* the rest's address comes to stand where its size should be.             *)
(***************************************************************************)
FirstFit(i) == heap[i].huge /\ \A j \in 1..(i - 1) : ~heap[j].huge

Past(b) == b.addr + 2 * WORD > end

Rest(b, room) == [addr |-> b.addr + room, huge |-> TRUE]

TornBy(list, bytes) == {b \in list : Link(b) \cap bytes # {}}

Found(sz, i) ==
    LET room == Room(sz)
        b == heap[i]
        rest == Rest(b, room)
        m == [a |-> b.addr + WORD, asked |-> sz, room |-> room]
    IN  IF Past(rest)
        THEN Stop("fault")
        ELSE /\ heap' = [heap EXCEPT ![i] = rest]
             /\ torn' = TornBy((Listed \ {b}) \cup {rest}, Header(m))
                           \cup {r \in {rest} : b \in torn \/ room = WORD}
             /\ small' = (small \/ room = WORD)
             /\ live' = live \cup {m}
             /\ UNCHANGED <<end, mode>>

Search(sz) ==
    /\ heap # <<>>
    /\ need' = Room(sz)
    /\ \E i \in DOMAIN heap :
          /\ FirstFit(i)
          /\ IF \E j \in 1..(i - 1) : heap[j] \in torn
             THEN Stop("wild")
             ELSE Found(sz, i)

malloc(sz) == mode = "ok" /\ (First(sz) \/ Search(sz))

(***************************************************************************)
(* free takes its block to start HALF before the payload.  It clears the   *)
(* size there and, if the block is in front of the list, links it in; else *)
(* it runs through the list and the block is forgotten.                    *)
(***************************************************************************)
Freed(m) == m.a - HALF

(***************************************************************************)
(* What may be overwritten without harm: the lower half of a header, which *)
(* free does not read, and of a huge size.                                 *)
(***************************************************************************)
Matters(m) ==
    (UNION {Bytes(l.a - HALF, HALF) \cup Payload(l) : l \in live \ {m}})
      \cup (UNION {Bytes(b.addr + HALF, HALF) \cup Link(b) : b \in Listed})

Linked(p) == <<p>> \o heap

free(m) ==
    LET p == [addr |-> Freed(m), huge |-> FALSE]
        linked == p.addr < heap[1].addr
        written == IF linked THEN Size(p) \cup Link(p) ELSE Size(p)
    IN  /\ mode = "ok"
        /\ small' = (small \/ m.asked <= WORD)
        /\ mode' = IF written \cap Matters(m) # {} \/ (~linked /\ torn # {})
                   THEN "wild" ELSE mode
        /\ heap' = IF linked THEN Linked(p) ELSE heap
        /\ live' = live \ {m}
        /\ UNCHANGED <<torn, end, need>>

Stopped == mode # "ok" /\ UNCHANGED vars

Next ==
    \/ \E sz \in Sizes : malloc(sz)
    \/ \E m \in live : free(m)
    \/ Stopped

Spec == Init /\ [][Next]_vars

-----------------------------------------------------------------------------
(***************************************************************************)
(* Types: one huge block at the end of the list, behind everything.        *)
(***************************************************************************)
TypeOK ==
    /\ mode \in {"ok", "fault", "wild"}
    /\ torn \subseteq Listed
    /\ \A i \in DOMAIN heap : heap[i].huge <=> i = Len(heap)
    /\ \A m \in live : m.asked \in Sizes /\ m.a % WORD = 0

(***************************************************************************)
(* What malloc hands out is there and belongs to one caller: the bytes     *)
(* asked for lie in the memory mmap gave, apart from those of every other  *)
(* caller and of the block malloc will split next, for any order of calls. *)
(***************************************************************************)
PayloadsApart ==
    \A m \in live :
        LET mine == Bytes(m.a, m.asked) IN
        /\ mine \subseteq Base..(end - 1)
        /\ \A l \in live \ {m} : mine \cap Bytes(l.a, l.asked) = {}
        /\ mine \cap Bytes(heap[Len(heap)].addr, 2 * WORD) = {}

(***************************************************************************)
(* free writes two words from HALF before the payload on, and malloc two   *)
(* words behind the room it takes.  That stays inside blocks of more than  *)
(* one word and of more than none: no link is garbage, no neighbour        *)
(* overwritten and no garbage followed until a smaller block has been      *)
(* freed or malloc(0) has taken from the list.                             *)
(***************************************************************************)
WildOnlyAfterSmall == mode = "wild" \/ torn # {} => small

(***************************************************************************)
(* The heap does not grow and freed blocks are not used again, but malloc  *)
(* gives out the first mapping to its last two words: it faults only when  *)
(* the request and the block behind it do not fit into what is left.       *)
(***************************************************************************)
FaultsOnlyWhenFull ==
    mode = "fault" /\ heap # <<>> =>
        heap[Len(heap)].addr + need + 2 * WORD > end

(***************************************************************************)
(* malloc and free keep callers apart, damage nothing while blocks are     *)
(* larger than a word, and malloc only fails at the end of its memory.     *)
(***************************************************************************)
HeapSound == PayloadsApart /\ WildOnlyAfterSmall /\ FaultsOnlyWhenFull
=============================================================================
