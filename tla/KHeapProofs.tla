---------------------------- MODULE KHeapProofs ----------------------------
(***************************************************************************)
(* Proofs about the two heaps, the kernel's and that of libc, for any      *)
(* sizes and callers that ask for anything; about the string routines, for *)
(* any memory; and about stdio, for any buffer and word size.              *)
(***************************************************************************)
EXTENDS Library, CommonLemmas

-----------------------------------------------------------------------------
(***************************************************************************)
(* Blocks as sets of addresses.                                            *)
(***************************************************************************)
In(x, b) == b.addr <= x /\ x < End(b)
Disj(a, b) == \A x \in Int : ~(In(x, a) /\ In(x, b))

(***************************************************************************)
(* The free blocks F and those callers hold, H, make up the heap.          *)
(***************************************************************************)
Tiled(F, H) ==
    /\ \A x \in Int : x \in 0..(HeapSize - 1) <=> \E b \in F \cup H : In(x, b)
    /\ \A a, b \in F : a # b => Disj(a, b)
    /\ \A a, b \in H : a # b => Disj(a, b)
    /\ \A a \in F, b \in H : Disj(a, b)

Free == {heap[i] : i \in DOMAIN heap}

(***************************************************************************)
(* A block covers the addresses from its header to its end, at least one.  *)
(***************************************************************************)
LEMMA BlockSpan ==
    ASSUME NEW b \in Block
    PROVE  /\ b.addr \in Nat /\ b.sz \in Nat /\ End(b) \in Nat /\ b.addr < End(b)
           /\ In(b.addr, b)
           /\ \A x : x \in Span(b) <=> x \in Int /\ In(x, b)
BY DEF Block, End, In, Span

(***************************************************************************)
(* HeapTiles in these terms.                                               *)
(***************************************************************************)
LEMMA TilesIff ==
    ASSUME TypeOK
    PROVE  HeapTiles <=> Tiled(Free, live)
<1>1. \A b \in Free \cup live : b \in Block
    BY DEF TypeOK, Whole, Free
<1>2. \A b \in Free \cup live : In(b.addr, b) /\ b.addr \in Int
    BY <1>1, BlockSpan
<1>3. \A b \in Free \cup live : \A x : x \in Span(b) <=> x \in Int /\ In(x, b)
    BY <1>1, BlockSpan
<1>4. HeapTiles <=>
        /\ UNION {Span(b) : b \in Free \cup live} = 0..(HeapSize - 1)
        /\ Free \cap live = {}
        /\ \A a, b \in Free \cup live : a # b => Span(a) \cap Span(b) = {}
    BY DEF HeapTiles, Free
<1> HIDE DEF Free
<1>5. \A a, b \in Free \cup live : Span(a) \cap Span(b) = {} <=> Disj(a, b)
    BY <1>3 DEF Disj
<1>6. ASSUME HeapTiles PROVE Tiled(Free, live)
    <2>1. \A x \in Int : x \in 0..(HeapSize - 1) <=> \E b \in Free \cup live : In(x, b)
        BY <1>3, <1>4, <1>6
    <2> QED BY <1>4, <1>5, <1>6, <2>1 DEF Tiled
<1>7. ASSUME Tiled(Free, live) PROVE HeapTiles
    <2>1. \A x : x \in 0..(HeapSize - 1) => x \in Int
        BY HeapAssumption
    <2>2. UNION {Span(b) : b \in Free \cup live} = 0..(HeapSize - 1)
        BY <1>3, <1>7, <2>1 DEF Tiled
    <2>3. Free \cap live = {}
        BY <1>2, <1>7 DEF Tiled, Disj
    <2>4. \A a, b \in Free \cup live : a # b => Disj(a, b)
        BY <1>7 DEF Tiled, Disj
    <2> QED BY <1>4, <1>5, <2>2, <2>3, <2>4
<1> QED BY <1>6, <1>7

(***************************************************************************)
(* Free blocks X and held ones Y are replaced by free blocks P and held    *)
(* ones N of the same addresses.                                           *)
(***************************************************************************)
LEMMA Regroup ==
    ASSUME NEW F, NEW H, Tiled(F, H), NEW X, NEW Y, X \subseteq F, Y \subseteq H,
           NEW P, NEW N,
           \A x \in Int : (\E b \in X \cup Y : In(x, b)) <=> (\E b \in P \cup N : In(x, b)),
           \A a, b \in P : a # b => Disj(a, b),
           \A a, b \in N : a # b => Disj(a, b),
           \A a \in P, b \in N : Disj(a, b)
    PROVE  Tiled((F \ X) \cup P, (H \ Y) \cup N)
<1>1. \A c \in (F \ X) \cup (H \ Y), d \in X \cup Y : Disj(c, d)
    BY DEF Tiled, Disj
<1>2. \A c \in (F \ X) \cup (H \ Y), d \in P \cup N : Disj(c, d) /\ Disj(d, c)
    BY <1>1 DEF Disj
<1>3. \A x \in Int : x \in 0..(HeapSize - 1) <=>
         \E b \in ((F \ X) \cup P) \cup ((H \ Y) \cup N) : In(x, b)
    BY DEF Tiled
<1>4. \A a, b \in (F \ X) \cup P : a # b => Disj(a, b)
    BY <1>2 DEF Tiled
<1>5. \A a, b \in (H \ Y) \cup N : a # b => Disj(a, b)
    BY <1>2 DEF Tiled
<1>6. \A a \in (F \ X) \cup P, b \in (H \ Y) \cup N : Disj(a, b)
    BY <1>2 DEF Tiled
<1> QED BY <1>3, <1>4, <1>5, <1>6 DEF Tiled

(***************************************************************************)
(* The room of a request: a positive number of units, header included.     *)
(***************************************************************************)
LEMMA RoomFits ==
    ASSUME NEW sz \in Nat
    PROVE  /\ Room(sz) \in Nat \ {0} /\ Room(sz) % UNIT = 0
           /\ sz + HDR <= Room(sz)
<1>1. \A n \in Nat : (n + 9) \div 8 \in Nat /\ ((n + 9) \div 8) * 8 >= n + 2
    OBVIOUS
<1>2. \A m \in Nat : (m * 8) % 8 = 0
    OBVIOUS
<1> QED BY <1>1, <1>2 DEF Room, HDR, UNIT

(***************************************************************************)
(* Sums and differences of whole units are whole units.                    *)
(***************************************************************************)
LEMMA UnitSums ==
    \A m, n \in Nat : m % UNIT = 0 /\ n % UNIT = 0 =>
        (m + n) % UNIT = 0 /\ (n <= m => (m - n) % UNIT = 0)
BY DEF UNIT

-----------------------------------------------------------------------------
(***************************************************************************)
(* The list of free blocks.  r is q with e in place of the elements        *)
(* between u and v.                                                        *)
(***************************************************************************)
Ordered(q) == \A i, j \in DOMAIN q : i < j => End(q[i]) < q[j].addr
Elts(q) == {q[i] : i \in DOMAIN q}

Spliced(q, u, v, e, r) ==
    /\ r \in Seq(Block) /\ Len(r) = Len(q) + u + 2 - v
    /\ \A j \in 1..u : r[j] = q[j]
    /\ r[u + 1] = e
    /\ \A j \in v..Len(q) : r[j + (u + 2 - v)] = q[j]

(***************************************************************************)
(* The list kfree builds from the part in front, the freed block and the   *)
(* part behind.                                                            *)
(***************************************************************************)
LEMMA Splice ==
    ASSUME NEW q \in Seq(Block), NEW u \in 0..Len(q), NEW v \in (u + 1)..(Len(q) + 1),
           NEW e \in Block
    PROVE  Spliced(q, u, v, e, SubSeq(q, 1, u) \o <<e>> \o SubSeq(q, v, Len(q)))
<1> DEFINE a == SubSeq(q, 1, u)
           b == SubSeq(q, v, Len(q))
           n == Len(q)
           c == a \o <<e>>
           r == c \o b
<1>1. n \in Nat /\ u \in 0..n /\ v \in (u + 1)..(n + 1) /\ \A j \in 1..n : q[j] \in Block
    OBVIOUS
<1>2. a \in Seq(Block) /\ Len(a) = u /\ \A j \in 1..u : a[j] = q[j]
    BY <1>1, SubSeqProperties
<1>3. b \in Seq(Block) /\ Len(b) = n - v + 1 /\ \A j \in 1..(n - v + 1) : b[j] = q[v + j - 1]
    BY <1>1, SubSeqProperties
<1> HIDE DEF a, b, n
<1>4. <<e>> \in Seq(Block) /\ Len(<<e>>) = 1 /\ <<e>>[1] = e
    OBVIOUS
<1>5. /\ c \in Seq(Block) /\ Len(c) = u + 1
      /\ \A j \in 1..(u + 1) : c[j] = IF j <= u THEN a[j] ELSE <<e>>[j - u]
    BY <1>2, <1>4, ConcatProperties
<1> HIDE DEF c
<1>6. /\ r \in Seq(Block) /\ Len(r) = (u + 1) + (n - v + 1)
      /\ \A j \in 1..((u + 1) + (n - v + 1)) : r[j] = IF j <= u + 1 THEN c[j] ELSE b[j - (u + 1)]
    <2>1. /\ r \in Seq(Block) /\ Len(r) = Len(c) + Len(b)
          /\ \A j \in 1..(Len(c) + Len(b)) : r[j] = IF j <= Len(c) THEN c[j] ELSE b[j - Len(c)]
        BY <1>3, <1>5, ConcatProperties
    <2> HIDE DEF r
    <2> QED BY <1>3, <1>5, <2>1
<1> HIDE DEF r
<1>7. \A j \in 1..u : r[j] = q[j]
    <2>1. \A j \in 1..u : /\ j \in 1..((u + 1) + (n - v + 1)) /\ j <= u + 1 /\ j <= u
                         /\ j \in 1..(u + 1)
        BY <1>1
    <2> QED BY <1>2, <1>5, <1>6, <2>1
<1>8. r[u + 1] = e
    <2>1. /\ (u + 1) \in 1..((u + 1) + (n - v + 1)) /\ u + 1 <= u + 1 /\ ~(u + 1 <= u)
          /\ (u + 1) \in 1..(u + 1) /\ (u + 1) - u = 1
        BY <1>1
    <2> QED BY <1>4, <1>5, <1>6, <2>1
<1>9. ASSUME NEW j \in v..n PROVE r[j + (u + 2 - v)] = q[j]
    <2> DEFINE k == j + (u + 2 - v)
    <2>1. /\ k \in 1..((u + 1) + (n - v + 1)) /\ ~(k <= u + 1)
          /\ (k - (u + 1)) \in 1..(n - v + 1) /\ v + (k - (u + 1)) - 1 = j
        BY <1>1
    <2> HIDE DEF k
    <2>2. r[k] = b[k - (u + 1)]
        BY <1>6, <2>1
    <2>3. b[k - (u + 1)] = q[j]
        BY <1>3, <2>1
    <2> QED BY <2>2, <2>3 DEF k
<1>10. (u + 1) + (n - v + 1) = n + u + 2 - v
    BY <1>1
<1> QED BY <1>6, <1>7, <1>8, <1>9, <1>10 DEF Spliced, r, c, a, b, n

(***************************************************************************)
(* What is at each place of r.                                             *)
(***************************************************************************)
LEMMA SplicedPlaces ==
    ASSUME NEW q \in Seq(Block), NEW u \in 0..Len(q), NEW v \in (u + 1)..(Len(q) + 1),
           NEW e, NEW r, Spliced(q, u, v, e, r), NEW k \in DOMAIN r
    PROVE  \/ k \in 1..u /\ r[k] = q[k]
           \/ k = u + 1 /\ r[k] = e
           \/ \E j \in v..Len(q) : k = j + (u + 2 - v) /\ k > u + 1 /\ r[k] = q[j]
<1>1. Len(q) \in Nat /\ k \in 1..(Len(q) + u + 2 - v)
    BY DEF Spliced
<1>2. CASE k <= u
    BY <1>1, <1>2 DEF Spliced
<1>3. CASE k = u + 1
    BY <1>3 DEF Spliced
<1>4. CASE k > u + 1
    <2>1. (k - (u + 2 - v)) \in v..Len(q) /\ (k - (u + 2 - v)) + (u + 2 - v) = k
        BY <1>1, <1>4
    <2>2. r[k] = q[k - (u + 2 - v)]
        BY <2>1 DEF Spliced
    <2> QED BY <1>4, <2>1, <2>2
<1> QED BY <1>1, <1>2, <1>3, <1>4

(***************************************************************************)
(* The list stays in the order of addresses when the new block lies        *)
(* between its neighbours.                                                 *)
(***************************************************************************)
LEMMA SplicedOrdered ==
    ASSUME NEW q \in Seq(Block), NEW u \in 0..Len(q), NEW v \in (u + 1)..(Len(q) + 1),
           NEW e \in Block, NEW r, Spliced(q, u, v, e, r), Ordered(q),
           u # 0 => End(q[u]) < e.addr,
           v <= Len(q) => End(e) < q[v].addr
    PROVE  Ordered(r)
<1>1. Len(q) \in Nat /\ DOMAIN q = 1..Len(q) /\ \A j \in 1..Len(q) : q[j] \in Block
    OBVIOUS
<1>2. \A b \in Block : b.addr \in Int /\ End(b) \in Int /\ b.addr < End(b)
    BY BlockSpan
<1>3. \A j \in 1..u : End(q[j]) < e.addr
    <2> SUFFICES ASSUME NEW j \in 1..u, j # u PROVE End(q[j]) < e.addr
        OBVIOUS
    <2>1. j \in DOMAIN q /\ u \in DOMAIN q /\ j < u /\ u # 0
        BY <1>1
    <2>2. End(q[j]) < q[u].addr
        BY <2>1 DEF Ordered
    <2> QED BY <1>1, <1>2, <2>1, <2>2
<1>4. \A j \in v..Len(q) : End(e) < q[j].addr
    <2> SUFFICES ASSUME NEW j \in v..Len(q), j # v PROVE End(e) < q[j].addr
        BY <1>1
    <2>1. j \in DOMAIN q /\ v \in DOMAIN q /\ v < j /\ v <= Len(q)
        BY <1>1
    <2>2. End(q[v]) < q[j].addr
        BY <2>1 DEF Ordered
    <2> QED BY <1>1, <1>2, <2>1, <2>2
<1> SUFFICES ASSUME NEW i \in DOMAIN r, NEW j \in DOMAIN r, i < j
             PROVE  End(r[i]) < r[j].addr
    BY DEF Ordered
<1>5. i \in Int /\ j \in Int
    BY DEF Spliced
<1>6. \/ i \in 1..u /\ r[i] = q[i]
      \/ i = u + 1 /\ r[i] = e
      \/ \E k \in v..Len(q) : i = k + (u + 2 - v) /\ i > u + 1 /\ r[i] = q[k]
    BY SplicedPlaces
<1>7. \/ j \in 1..u /\ r[j] = q[j]
      \/ j = u + 1 /\ r[j] = e
      \/ \E k \in v..Len(q) : j = k + (u + 2 - v) /\ j > u + 1 /\ r[j] = q[k]
    BY SplicedPlaces
<1>8. CASE i \in 1..u /\ r[i] = q[i]
    <2>1. CASE j \in 1..u /\ r[j] = q[j]
        BY <1>1, <1>8, <2>1 DEF Ordered
    <2>2. CASE j = u + 1 /\ r[j] = e
        BY <1>3, <1>8, <2>2
    <2>3. ASSUME NEW k \in v..Len(q), r[j] = q[k] PROVE End(r[i]) < r[j].addr
        <3>1. i \in DOMAIN q /\ k \in DOMAIN q /\ i < k
            BY <1>1, <1>8
        <3> QED BY <1>8, <2>3, <3>1 DEF Ordered
    <2> QED BY <1>7, <2>1, <2>2, <2>3
<1>9. CASE i = u + 1 /\ r[i] = e
    <2>1. ASSUME NEW k \in v..Len(q), r[j] = q[k] PROVE End(r[i]) < r[j].addr
        BY <1>4, <1>9, <2>1
    <2> QED BY <1>5, <1>7, <1>9, <2>1
<1>10. ASSUME NEW k \in v..Len(q), i = k + (u + 2 - v), i > u + 1, r[i] = q[k]
       PROVE  End(r[i]) < r[j].addr
    <2>1. PICK l \in v..Len(q) : j = l + (u + 2 - v) /\ r[j] = q[l]
        BY <1>5, <1>7, <1>10
    <2>2. k < l /\ k \in DOMAIN q /\ l \in DOMAIN q
        BY <1>1, <1>10, <2>1
    <2> QED BY <1>10, <2>1, <2>2 DEF Ordered
<1> QED BY <1>6, <1>8, <1>9, <1>10

(***************************************************************************)
(* The blocks on the list change by those replaced and the new one.        *)
(***************************************************************************)
LEMMA SplicedSet ==
    ASSUME NEW q \in Seq(Block), NEW u \in 0..Len(q), NEW v \in (u + 1)..(Len(q) + 1),
           NEW e \in Block, NEW r, Spliced(q, u, v, e, r), Ordered(q)
    PROVE  Elts(r) = (Elts(q) \ {q[j] : j \in (u + 1)..(v - 1)}) \cup {e}
<1>1. Len(q) \in Nat /\ DOMAIN q = 1..Len(q) /\ \A j \in 1..Len(q) : q[j] \in Block
    OBVIOUS
<1>2. \A i, j \in 1..Len(q) : q[i] = q[j] => i = j
    <2> SUFFICES ASSUME NEW i \in 1..Len(q), NEW j \in 1..Len(q), i < j, q[i] = q[j]
                 PROVE  FALSE
        BY <1>1
    <2>1. End(q[i]) < q[i].addr
        BY <1>1 DEF Ordered
    <2> QED BY <1>1, <2>1, BlockSpan
<1>3. /\ DOMAIN r = 1..(Len(q) + u + 2 - v)
      /\ \A j \in 1..u : r[j] = q[j]
      /\ r[u + 1] = e
      /\ \A j \in v..Len(q) : r[j + (u + 2 - v)] = q[j]
    BY DEF Spliced
<1>4. ASSUME NEW k \in DOMAIN r
      PROVE  r[k] \in (Elts(q) \ {q[j] : j \in (u + 1)..(v - 1)}) \cup {e}
    <2>1. CASE k \in 1..u /\ r[k] = q[k]
        <3>1. k \in 1..Len(q) /\ \A j \in (u + 1)..(v - 1) : j \in 1..Len(q) /\ j # k
            BY <1>1, <2>1
        <3> QED BY <1>1, <1>2, <2>1, <3>1 DEF Elts
    <2>2. CASE k = u + 1 /\ r[k] = e
        BY <2>2
    <2>3. ASSUME NEW l \in v..Len(q), r[k] = q[l]
          PROVE  r[k] \in (Elts(q) \ {q[j] : j \in (u + 1)..(v - 1)}) \cup {e}
        <3>1. l \in 1..Len(q) /\ \A j \in (u + 1)..(v - 1) : j \in 1..Len(q) /\ j # l
            BY <1>1
        <3> QED BY <1>1, <1>2, <2>3, <3>1 DEF Elts
    <2> QED BY <2>1, <2>2, <2>3, SplicedPlaces
<1>5. ASSUME NEW i \in 1..Len(q), q[i] \notin {q[j] : j \in (u + 1)..(v - 1)}
      PROVE  q[i] \in Elts(r)
    <2>1. CASE i <= u
        <3>1. i \in 1..u /\ i \in DOMAIN r
            BY <1>1, <1>3, <2>1
        <3> QED BY <1>3, <3>1 DEF Elts
    <2>2. CASE i >= v
        <3>1. i \in v..Len(q) /\ i + (u + 2 - v) \in DOMAIN r
            BY <1>1, <1>3, <2>2
        <3> QED BY <1>3, <3>1 DEF Elts
    <2>3. i <= u \/ i >= v
        <3> SUFFICES ASSUME ~(i <= u), ~(i >= v) PROVE FALSE
            OBVIOUS
        <3>1. i \in (u + 1)..(v - 1)
            BY <1>1
        <3> QED BY <1>5, <3>1
    <2> QED BY <2>1, <2>2, <2>3
<1>6. e \in Elts(r)
    <2>1. u + 1 \in DOMAIN r
        BY <1>1, <1>3
    <2> QED BY <1>3, <2>1 DEF Elts
<1>7. \A x \in Elts(r) : x \in (Elts(q) \ {q[j] : j \in (u + 1)..(v - 1)}) \cup {e}
    BY <1>4 DEF Elts
<1>8. \A x \in (Elts(q) \ {q[j] : j \in (u + 1)..(v - 1)}) \cup {e} : x \in Elts(r)
    BY <1>1, <1>5, <1>6 DEF Elts
<1> QED BY <1>7, <1>8

(***************************************************************************)
(* kmalloc takes a block off the list.                                     *)
(***************************************************************************)
LEMMA RemovedOrdered ==
    ASSUME NEW q \in Seq(Block), NEW i \in DOMAIN q, Ordered(q)
    PROVE  /\ RemoveAt(q, i) \in Seq(Block) /\ Ordered(RemoveAt(q, i))
           /\ Elts(RemoveAt(q, i)) = Elts(q) \ {q[i]}
<1> DEFINE r == RemoveAt(q, i)
           old(k) == IF k < i THEN k ELSE k + 1
<1>1. /\ Len(q) \in Nat /\ DOMAIN q = 1..Len(q) /\ i \in 1..Len(q)
      /\ \A j \in 1..Len(q) : q[j] \in Block
    OBVIOUS
<1>2. /\ r \in Seq(Block) /\ Len(r) = Len(q) - 1
      /\ \A j \in 1..(Len(q) - 1) : r[j] = IF j < i THEN q[j] ELSE q[j + 1]
    BY RemoveAtElements
<1> HIDE DEF r
<1>3. DOMAIN r = 1..(Len(q) - 1)
    BY <1>2
<1>4. \A k \in DOMAIN r : old(k) \in DOMAIN q /\ old(k) # i /\ r[k] = q[old(k)]
    BY <1>1, <1>2, <1>3
<1>5. \A j, k \in 1..Len(q) : q[j] = q[k] => j = k
    <2> SUFFICES ASSUME NEW j \in 1..Len(q), NEW k \in 1..Len(q), j < k, q[j] = q[k]
                 PROVE  FALSE
        BY <1>1
    <2>1. End(q[j]) < q[j].addr
        BY <1>1 DEF Ordered
    <2> QED BY <1>1, <2>1, BlockSpan
<1>6. Ordered(r)
    <2> SUFFICES ASSUME NEW j \in DOMAIN r, NEW k \in DOMAIN r, j < k
                 PROVE  End(r[j]) < r[k].addr
        BY DEF Ordered
    <2>1. old(j) < old(k)
        BY <1>1, <1>3
    <2> QED BY <1>4, <2>1 DEF Ordered
<1>7. \A x \in Elts(r) : x \in Elts(q) \ {q[i]}
    BY <1>1, <1>4, <1>5 DEF Elts
<1>8. ASSUME NEW k \in 1..Len(q), k # i PROVE q[k] \in Elts(r)
    <2>1. CASE k < i
        <3>1. k \in 1..(Len(q) - 1)
            BY <1>1, <2>1
        <3> QED BY <1>2, <1>3, <2>1, <3>1 DEF Elts
    <2>2. CASE k > i
        <3>1. k - 1 \in 1..(Len(q) - 1) /\ ~(k - 1 < i) /\ (k - 1) + 1 = k
            BY <1>1, <2>2
        <3> QED BY <1>2, <1>3, <3>1 DEF Elts
    <2> QED BY <1>1, <1>8, <2>1, <2>2
<1>9. \A x \in Elts(q) \ {q[i]} : x \in Elts(r)
    BY <1>1, <1>8 DEF Elts
<1>10. Elts(r) = Elts(q) \ {q[i]}
    BY <1>7, <1>9
<1> QED BY <1>2, <1>6, <1>10 DEF r

-----------------------------------------------------------------------------
(***************************************************************************)
(* The inductive invariant: the list is in order and the blocks make up    *)
(* the heap.  Neither is inductive alone: kfree finds the neighbours of a  *)
(* block only in a list that is in order, and the order is kept only if    *)
(* the block freed overlaps none of the list's.                            *)
(***************************************************************************)
HeapInv == TypeOK /\ Ordered(heap) /\ Tiled(Free, live)

(***************************************************************************)
(* The invariant implies the properties.                                   *)
(***************************************************************************)
LEMMA HeapInvFacts ==
    ASSUME HeapInv
    PROVE  TypeOK /\ Coalesced /\ HeapTiles
BY TilesIff DEF HeapInv, Ordered, Coalesced

(***************************************************************************)
(* The heap begins as one free block.                                      *)
(***************************************************************************)
LEMMA HeapInvInit ==
    ASSUME Init
    PROVE  HeapInv
<1> DEFINE b == [addr |-> 0, sz |-> HeapSize]
<1>1. Whole(b) /\ b \in Block
    BY HeapAssumption DEF Whole, Block, UNIT
<1>2. heap = <<b>> /\ live = {} /\ mode = "ok"
    BY DEF Init
<1> HIDE DEF b
<1>3. heap \in Seq(Block) /\ DOMAIN heap = {1} /\ heap[1] = b
    BY <1>1, <1>2
<1>4. TypeOK
    BY <1>1, <1>2, <1>3 DEF TypeOK
<1>5. Ordered(heap)
    BY <1>3 DEF Ordered
<1>6. Free = {b}
    BY <1>3 DEF Free
<1>7. Tiled({b}, {})
    BY HeapAssumption DEF Tiled, In, End, b
<1> QED BY <1>2, <1>4, <1>5, <1>6, <1>7 DEF HeapInv

(***************************************************************************)
(* kmalloc: the first block that is large enough loses its front.          *)
(***************************************************************************)
LEMMA KmallocStep ==
    ASSUME HeapInv, NEW sz \in Sizes, Kmalloc(sz)
    PROVE  HeapInv'
<1> DEFINE need == Room(sz)
<1>0. sz \in Nat
    BY HeapAssumption
<1>1. need \in Nat \ {0} /\ need % UNIT = 0
    BY <1>0, RoomFits
<1>2. CASE UNCHANGED <<heap, live>> /\ mode' \in {"ok", "assert"}
    BY <1>2 DEF HeapInv, TypeOK, Free
<1>3. ASSUME NEW i \in DOMAIN heap, FirstFit(i, need), need < MaxSize,
             heap' = Split(i, need),
             live' = live \cup {[addr |-> heap[i].addr, sz |-> need]}, UNCHANGED mode
      PROVE  HeapInv'
    <2> DEFINE b == heap[i]
               n == [addr |-> b.addr, sz |-> need]
               m == [addr |-> b.addr + need, sz |-> b.sz - need]
    <2> HIDE DEF need
    <2>1. /\ heap \in Seq(Block) /\ Len(heap) \in Nat /\ DOMAIN heap = 1..Len(heap)
          /\ \A j \in DOMAIN heap : Whole(heap[j])
          /\ Ordered(heap) /\ Tiled(Free, live)
          /\ Whole(b) /\ b \in Free /\ i \in 1..Len(heap) /\ b.sz >= need
        BY <1>3 DEF HeapInv, TypeOK, Free, FirstFit
    <2>2. Free = Elts(heap) /\ Free' = Elts(heap')
        BY DEF Free, Elts
    <2>3. /\ b \in Block /\ b.addr \in Nat /\ b.sz \in Nat /\ b.addr % UNIT = 0
          /\ b.sz % UNIT = 0
        BY <2>1 DEF Whole, Block
    <2>4. Whole(n) /\ n \in Block /\ n.sz < MaxSize
        BY <1>1, <1>3, <2>3 DEF Whole, Block
    <2>5. live' = (live \ {}) \cup {n} /\ \A a \in live' : Whole(a) /\ a.sz < MaxSize
        BY <1>3, <2>4 DEF HeapInv, TypeOK
    <2>6. CASE b.sz > need
        <3>1. m \in Block /\ Whole(m)
            <4>1. b.addr + need \in Nat /\ b.sz - need \in Nat \ {0}
                BY <1>1, <2>3, <2>6
            <4>2. (b.addr + need) % UNIT = 0 /\ (b.sz - need) % UNIT = 0
                BY <1>1, <2>1, <2>3, UnitSums
            <4> QED BY <4>1, <4>2 DEF Whole, Block
        <3>2. heap' = [heap EXCEPT ![i] = m]
            BY <1>3, <2>6 DEF Split
        <3> HIDE DEF m
        <3>3. /\ heap' \in Seq(Block) /\ Len(heap') = Len(heap)
              /\ heap'[i] = m /\ \A j \in 1..Len(heap) : j # i => heap'[j] = heap[j]
            BY <2>1, <3>1, <3>2
        <3>4. Spliced(heap, i - 1, i + 1, m, heap')
            <4>1. /\ Len(heap) = Len(heap) + (i - 1) + 2 - (i + 1) /\ (i - 1) + 1 = i
                  /\ \A j \in 1..(i - 1) : j \in 1..Len(heap) /\ j # i
                  /\ \A j \in (i + 1)..Len(heap) : /\ j \in 1..Len(heap) /\ j # i
                                                   /\ j + ((i - 1) + 2 - (i + 1)) = j
                BY <2>1
            <4> QED BY <3>3, <4>1 DEF Spliced
        <3>5. /\ i - 1 \in 0..Len(heap) /\ i + 1 \in ((i - 1) + 1)..(Len(heap) + 1)
              /\ (i - 1) + 1 = i /\ (i + 1) - 1 = i
              /\ (i - 1 # 0 => i - 1 \in DOMAIN heap /\ i - 1 < i)
              /\ (i + 1 <= Len(heap) => i + 1 \in DOMAIN heap /\ i < i + 1)
            BY <2>1
        <3>6. m.addr = b.addr + need /\ End(m) = End(b) /\ End(n) = m.addr /\ n.addr = b.addr
            BY <1>1, <2>3 DEF m, End
        <3>7. Ordered(heap')
            <4>1. i - 1 # 0 => End(heap[i - 1]) < m.addr
                <5>1. i - 1 # 0 => End(heap[i - 1]) < b.addr /\ End(heap[i - 1]) \in Int
                    BY <2>1, <3>5, BlockSpan DEF Ordered
                <5> QED BY <1>1, <2>3, <3>6, <5>1
            <4>2. i + 1 <= Len(heap) => End(m) < heap[i + 1].addr
                BY <2>1, <3>5, <3>6 DEF Ordered
            <4> HIDE DEF b
            <4> QED BY <2>1, <3>1, <3>4, <3>5, <4>1, <4>2, SplicedOrdered
        <3>8. Elts(heap') = (Elts(heap) \ {b}) \cup {m}
            <4>1. Elts(heap') = (Elts(heap) \ {heap[j] : j \in ((i - 1) + 1)..((i + 1) - 1)}) \cup {m}
                BY <2>1, <3>1, <3>4, <3>5, SplicedSet
            <4>2. {heap[j] : j \in i..i} = {b}
                BY <2>1
            <4> QED BY <3>5, <4>1, <4>2
        <3>9. Tiled((Free \ {b}) \cup {m}, (live \ {}) \cup {n})
            <4>1. \A x \in Int : In(x, b) <=> In(x, m) \/ In(x, n)
                <5>1. /\ b.addr \in Int /\ m.addr \in Int /\ End(b) \in Int
                      /\ b.addr < m.addr /\ m.addr < End(b)
                    BY <1>1, <2>3, <2>6, <3>1, <3>6, BlockSpan
                <5> HIDE DEF b, n
                <5> QED BY <3>6, <5>1 DEF In
            <4>2. Disj(m, n)
                BY <1>1, <2>3, <3>6 DEF Disj, In
            <4> HIDE DEF b, n
            <4> QED BY <2>1, <4>1, <4>2, Regroup
        <3>10. TypeOK'
            <4>1. \A j \in DOMAIN heap' : Whole(heap'[j])
                BY <2>1, <3>1, <3>3
            <4> QED BY <1>3, <2>5, <3>3, <4>1 DEF HeapInv, TypeOK
        <3> HIDE DEF b, n
        <3> QED BY <2>2, <2>5, <3>7, <3>8, <3>9, <3>10 DEF HeapInv
    <2>7. CASE ~(b.sz > need)
        <3>1. heap' = RemoveAt(heap, i) /\ b.sz = need
            BY <1>1, <1>3, <2>1, <2>3, <2>7 DEF Split
        <3>2. n = b
            BY <2>3, <3>1 DEF Block
        <3>3. /\ heap' \in Seq(Block) /\ Ordered(heap')
              /\ Elts(heap') = Elts(heap) \ {b}
            BY <2>1, <3>1, RemovedOrdered
        <3> HIDE DEF b, n
        <3>4. Tiled((Free \ {b}) \cup {}, (live \ {}) \cup {b})
            BY <2>1, Regroup
        <3>5. TypeOK'
            <4>1. \A j \in DOMAIN heap' : Whole(heap'[j])
                <5>1. \A a \in Elts(heap) : Whole(a)
                    BY <2>1 DEF Elts
                <5> QED BY <3>3, <5>1 DEF Elts
            <4> QED BY <1>3, <2>5, <3>3, <4>1 DEF HeapInv, TypeOK
        <3> QED BY <2>2, <2>5, <3>2, <3>3, <3>4, <3>5 DEF HeapInv
    <2> QED BY <2>6, <2>7
<1> QED BY <1>2, <1>3 DEF Kmalloc, Stop, vars

(***************************************************************************)
(* kfree: p goes where it belongs and takes in its neighbours.  m is what  *)
(* becomes of p, X the free blocks it joins.                               *)
(***************************************************************************)
LEMMA KfreeJoins ==
    ASSUME HeapInv, NEW p \in live,
           NEW u \in 0..Len(heap), NEW v \in (u + 1)..(Len(heap) + 1),
           NEW m, Whole(m),
           Spliced(heap, u, v, m, heap'),
           u # 0 => End(heap[u]) < m.addr,
           v <= Len(heap) => End(m) < heap[v].addr,
           \A x \in Int : In(x, m) <=> In(x, p) \/ \E j \in (u + 1)..(v - 1) : In(x, heap[j]),
           live' = live \ {p}, UNCHANGED mode
    PROVE  HeapInv'
<1> DEFINE X == {heap[j] : j \in (u + 1)..(v - 1)}
<1>0. \A x \in Int : In(x, m) <=> In(x, p) \/ \E a \in X : In(x, a)
    OBVIOUS
<1>1. /\ heap \in Seq(Block) /\ Ordered(heap) /\ Tiled(Free, live) /\ m \in Block
      /\ heap' \in Seq(Block) /\ DOMAIN heap = 1..Len(heap) /\ Len(heap) \in Nat
    BY DEF HeapInv, TypeOK, Whole, Spliced
<1>2. Ordered(heap')
    BY <1>1, SplicedOrdered
<1>3. Elts(heap') = (Elts(heap) \ X) \cup {m}
    BY <1>1, SplicedSet
<1>4. Free = Elts(heap) /\ Free' = Elts(heap')
    BY DEF Free, Elts
<1>5. X \subseteq Free
    <2>1. \A j \in (u + 1)..(v - 1) : j \in DOMAIN heap
        BY <1>1
    <2> QED BY <1>4, <2>1 DEF Elts
<1>6. Tiled((Free \ X) \cup {m}, (live \ {p}) \cup {})
    <2>1. \A x \in Int : (\E b \in X \cup {p} : In(x, b)) <=> (\E b \in {m} \cup {} : In(x, b))
        OBVIOUS
    <2> QED BY <1>1, <1>5, <2>1, Regroup
<1>7. TypeOK'
    <2>1. \A a \in Elts(heap) : Whole(a)
        BY DEF HeapInv, TypeOK, Elts
    <2>2. \A j \in DOMAIN heap' : Whole(heap'[j])
        BY <1>3, <2>1 DEF Elts
    <2> QED BY <1>1, <2>2 DEF HeapInv, TypeOK
<1> QED BY <1>2, <1>3, <1>4, <1>6, <1>7 DEF HeapInv

(***************************************************************************)
(* The block made of two neighbours covers what they covered.              *)
(***************************************************************************)
LEMMA JoinedBlocks ==
    ASSUME NEW a, NEW b, Whole(a), Whole(b), Adjacent(a, b)
    PROVE  /\ Whole(Joined(a, b)) /\ Joined(a, b).addr = a.addr
           /\ End(Joined(a, b)) = End(b)
           /\ \A x \in Int : In(x, Joined(a, b)) <=> In(x, a) \/ In(x, b)
<1> DEFINE c == Joined(a, b)
<1>1. /\ a \in Block /\ b \in Block /\ a.addr % UNIT = 0 /\ a.sz % UNIT = 0 /\ b.sz % UNIT = 0
      /\ a.addr \in Nat /\ a.sz \in Nat \ {0} /\ b.sz \in Nat \ {0} /\ b.addr \in Nat
    BY DEF Whole, Block
<1>2. c = [addr |-> a.addr, sz |-> a.sz + b.sz]
    BY <1>1 DEF Joined, Block
<1>3. (a.sz + b.sz) % UNIT = 0 /\ a.sz + b.sz \in Nat \ {0}
    BY <1>1, UnitSums, SMTT(30)
<1>4. c.addr = a.addr /\ c.sz = a.sz + b.sz /\ Whole(c)
    BY <1>1, <1>2, <1>3 DEF Whole, Block
<1> HIDE DEF c
<1>5. End(c) = End(b) /\ End(a) = b.addr /\ a.addr < End(a) /\ b.addr < End(b)
    BY <1>1, <1>4 DEF End, Adjacent
<1>6. End(a) \in Int /\ End(b) \in Int
    BY <1>1 DEF End
<1>7. \A x \in Int : In(x, c) <=> In(x, a) \/ In(x, b)
    BY <1>1, <1>4, <1>5, <1>6 DEF In
<1> QED BY <1>4, <1>5, <1>7 DEF c

(***************************************************************************)
(* kfree: in front of the list, between two free blocks, or behind the     *)
(* last one, where it faults.                                              *)
(***************************************************************************)
LEMMA KfreeStep ==
    ASSUME HeapInv, NEW p \in live, Kfree(p)
    PROVE  HeapInv'
<1>1. /\ heap \in Seq(Block) /\ Len(heap) \in Nat /\ DOMAIN heap = 1..Len(heap)
      /\ \A j \in DOMAIN heap : Whole(heap[j]) /\ heap[j] \in Block
      /\ Ordered(heap) /\ Tiled(Free, live) /\ Whole(p) /\ p \in Block
    BY DEF HeapInv, TypeOK, Whole
<1>2. \A j \in DOMAIN heap : Disj(heap[j], p)
    BY <1>1 DEF Tiled, Free
<1>3. \A b \in Block : b.addr \in Int /\ End(b) \in Int /\ b.addr < End(b) /\ In(b.addr, b)
    BY BlockSpan
<1>4. ASSUME NEW j \in DOMAIN heap, heap[j].addr < p.addr
      PROVE  End(heap[j]) <= p.addr
    <2>1. ~In(p.addr, heap[j])
        BY <1>1, <1>2, <1>3 DEF Disj
    <2> QED BY <1>1, <1>3, <1>4, <2>1 DEF In
<1>5. ASSUME NEW j \in DOMAIN heap, p.addr < heap[j].addr
      PROVE  End(p) <= heap[j].addr
    <2>1. ~In(heap[j].addr, p)
        BY <1>1, <1>2, <1>3 DEF Disj
    <2> QED BY <1>1, <1>3, <1>5, <2>1 DEF In
<1>6. CASE UNCHANGED <<heap, live>> /\ mode' \in {"wild", "fault"}
    BY <1>6 DEF HeapInv, TypeOK, Free
<1>7. ASSUME heap # <<>>, p.addr < heap[1].addr, End(p) # heap[1].addr,
             heap' = <<p>> \o heap, live' = live \ {p}, UNCHANGED mode
      PROVE  HeapInv'
    <2>2. 1 \in DOMAIN heap /\ Len(heap) >= 1
        BY <1>1, <1>7, EmptySeq
    <2>3. End(p) < heap[1].addr
        BY <1>1, <1>3, <1>5, <1>7, <2>2
    <2>4. Spliced(heap, 0, 1, p, heap')
        <3>1. <<p>> \in Seq(Block) /\ Len(<<p>>) = 1 /\ <<p>>[1] = p
            BY <1>1
        <3>2. /\ heap' \in Seq(Block) /\ Len(heap') = 1 + Len(heap)
              /\ \A j \in 1..(1 + Len(heap)) : heap'[j] = IF j <= 1 THEN <<p>>[j] ELSE heap[j - 1]
            BY <1>1, <1>7, <3>1, ConcatProperties
        <3>0. PICK n \in Nat : n = Len(heap)
            BY <1>1
        <3>5. heap'[1] = p
            BY <3>0, <3>1, <3>2
        <3>6. \A j \in 1..n : j + 1 \in 1..(1 + n) /\ ~(j + 1 <= 1) /\ (j + 1) - 1 = j
            BY <3>0
        <3>3. heap'[1] = p /\ \A j \in 1..Len(heap) : heap'[j + 1] = heap[j]
            BY <3>0, <3>2, <3>5, <3>6
        <3>4. /\ 1 + Len(heap) = Len(heap) + 0 + 2 - 1 /\ 0 + 1 = 1 /\ 0 + 2 - 1 = 1
              /\ \A j \in 1..0 : FALSE
            BY <1>1
        <3> QED BY <3>2, <3>3, <3>4 DEF Spliced
    <2>5. {heap[j] : j \in (0 + 1)..(1 - 1)} = {}
        OBVIOUS
    <2>6. 0 \in 0..Len(heap) /\ 1 \in (0 + 1)..(Len(heap) + 1)
        BY <1>1
    <2> QED BY <1>1, <1>7, <2>3, <2>4, <2>5, <2>6, KfreeJoins
<1>8. CASE FreeBetween(p)
    <2>1. PICK i \in 1..(Len(heap) - 1) :
            /\ heap[i].addr < p.addr /\ p.addr < heap[i + 1].addr
            /\ LET before == Adjacent(heap[i], p)
                   q == IF before THEN Joined(heap[i], p) ELSE p
                   behind == Adjacent(q, heap[i + 1])
               IN  heap' = SubSeq(heap, 1, IF before THEN i - 1 ELSE i)
                             \o <<IF behind THEN Joined(q, heap[i + 1]) ELSE q>>
                             \o SubSeq(heap, IF behind THEN i + 2 ELSE i + 1, Len(heap))
            /\ live' = live \ {p}
            /\ UNCHANGED mode
        BY <1>8 DEF FreeBetween
    <2> DEFINE a == heap[i]
               c == heap[i + 1]
               q == IF Adjacent(a, p) THEN Joined(a, p) ELSE p
               m == IF Adjacent(q, c) THEN Joined(q, c) ELSE q
               u == IF Adjacent(a, p) THEN i - 1 ELSE i
               v == IF Adjacent(q, c) THEN i + 2 ELSE i + 1
               X == {heap[j] : j \in (u + 1)..(v - 1)}
    <2>2. /\ i \in DOMAIN heap /\ i + 1 \in DOMAIN heap /\ i < i + 1
          /\ Whole(a) /\ Whole(c) /\ a \in Block /\ c \in Block
          /\ End(a) <= p.addr /\ End(p) <= c.addr
        BY <1>1, <1>4, <1>5, <2>1, SMTT(30)
    <2>3. heap' = SubSeq(heap, 1, u) \o <<m>> \o SubSeq(heap, v, Len(heap))
        BY <2>1
    <2>4. /\ Whole(q) /\ q \in Block /\ End(q) = End(p)
          /\ Adjacent(a, p) => q.addr = a.addr
          /\ ~Adjacent(a, p) => q.addr = p.addr
          /\ \A x \in Int : In(x, q) <=> In(x, p) \/ (Adjacent(a, p) /\ In(x, a))
        BY <1>1, <2>2, JoinedBlocks DEF Whole
    <2>5. /\ Whole(m) /\ m \in Block /\ m.addr = q.addr
          /\ Adjacent(q, c) => End(m) = End(c)
          /\ ~Adjacent(q, c) => End(m) = End(q)
          /\ \A x \in Int : In(x, m) <=> In(x, q) \/ (Adjacent(q, c) /\ In(x, c))
        <3> HIDE DEF q
        <3> QED BY <2>2, <2>4, JoinedBlocks DEF Whole
    <2>6. u \in 0..Len(heap) /\ v \in (u + 1)..(Len(heap) + 1)
        BY <1>1
    <2>7. Spliced(heap, u, v, m, heap')
        <3> HIDE DEF u, v, m
        <3> QED BY <1>1, <2>3, <2>5, <2>6, Splice
    <2>8. u # 0 => End(heap[u]) < m.addr
        <3>1. CASE Adjacent(a, p)
            <4>1. u = i - 1 /\ (u # 0 => i - 1 \in DOMAIN heap /\ i - 1 < i)
                BY <1>1, <3>1
            <4>2. i - 1 \in DOMAIN heap /\ i - 1 < i => End(heap[i - 1]) < a.addr
                BY <2>2, <1>1 DEF Ordered
            <4> HIDE DEF m, q
            <4> QED BY <2>4, <2>5, <3>1, <4>1, <4>2
        <3>2. CASE ~Adjacent(a, p)
            <4>1. u = i /\ End(a) # p.addr
                BY <3>2 DEF Adjacent
            <4>2. End(a) < p.addr
                BY <1>1, <1>3, <2>2, <4>1
            <4> HIDE DEF m, q
            <4> QED BY <2>4, <2>5, <3>2, <4>1, <4>2
        <3> QED BY <3>1, <3>2
    <2>9. v <= Len(heap) => End(m) < heap[v].addr
        <3>1. CASE Adjacent(q, c)
            <4>1. v = i + 2 /\ (v <= Len(heap) => i + 2 \in DOMAIN heap /\ i + 1 < i + 2)
                BY <1>1, <3>1
            <4>2. i + 2 \in DOMAIN heap /\ i + 1 < i + 2 => End(c) < heap[i + 2].addr
                BY <2>2, <1>1 DEF Ordered
            <4> HIDE DEF m, q
            <4> QED BY <2>5, <3>1, <4>1, <4>2
        <3>2. CASE ~Adjacent(q, c)
            <4>1. v = i + 1 /\ End(q) # c.addr
                BY <3>2 DEF Adjacent
            <4> HIDE DEF m, q
            <4>2. End(q) < c.addr
                BY <1>1, <1>3, <2>2, <2>4, <4>1
            <4> QED BY <2>5, <3>2, <4>1, <4>2
        <3> QED BY <3>1, <3>2
    <2>10. \A x \in Int : In(x, m) <=> In(x, p) \/ \E b \in X : In(x, b)
        <3>1. X = (IF Adjacent(a, p) THEN {a} ELSE {}) \cup (IF Adjacent(q, c) THEN {c} ELSE {})
            <4> HIDE DEF q
            <4>1. CASE Adjacent(a, p) /\ Adjacent(q, c)
                <5>1. (u + 1)..(v - 1) = {i, i + 1}
                    BY <1>1, <4>1
                <5> QED BY <4>1, <5>1
            <4>2. CASE Adjacent(a, p) /\ ~Adjacent(q, c)
                <5>1. (u + 1)..(v - 1) = {i}
                    BY <1>1, <4>2
                <5> QED BY <4>2, <5>1
            <4>3. CASE ~Adjacent(a, p) /\ Adjacent(q, c)
                <5>1. (u + 1)..(v - 1) = {i + 1}
                    BY <1>1, <4>3
                <5> QED BY <4>3, <5>1
            <4>4. CASE ~Adjacent(a, p) /\ ~Adjacent(q, c)
                <5>1. (u + 1)..(v - 1) = {}
                    BY <1>1, <4>4
                <5> QED BY <4>4, <5>1
            <4> QED BY <4>1, <4>2, <4>3, <4>4
        <3> HIDE DEF X, m, q, a, c
        <3> QED BY <2>4, <2>5, <3>1
    <2>11. X = {heap[j] : j \in (u + 1)..(v - 1)}
        OBVIOUS
    <2>12. live' = live \ {p} /\ UNCHANGED mode
        BY <2>1
    <2>13. Whole(m)
        BY <2>5
    <2>14. \A x \in Int : In(x, m) <=> In(x, p) \/ \E j \in (u + 1)..(v - 1) : In(x, heap[j])
        <3> HIDE DEF u, v, m, q, a, c
        <3> QED BY <2>10
    <2> HIDE DEF u, v, m, X, q, a, c
    <2> QED BY <2>13, <2>6, <2>7, <2>8, <2>9, <2>14, <2>12, KfreeJoins
<1>9. FreeInFront(p) \/ FreeBetween(p) \/ FreeBehind(p)
    BY DEF Kfree
<1> QED BY <1>6, <1>7, <1>8, <1>9 DEF FreeInFront, FreeBehind, Stop

(***************************************************************************)
(* Every step keeps the invariant.                                         *)
(***************************************************************************)
LEMMA HeapInvStep ==
    ASSUME HeapInv, [Next]_vars
    PROVE  HeapInv'
<1>1. CASE UNCHANGED vars
    BY <1>1 DEF HeapInv, TypeOK, Free, vars
<1> QED BY <1>1, KmallocStep, KfreeStep DEF Next, Stopped

(***************************************************************************)
(* The invariant holds throughout.                                         *)
(***************************************************************************)
LEMMA HeapInvAlways == Spec => []HeapInv
BY HeapInvInit, HeapInvStep, PTL DEF Spec

(***************************************************************************)
(* Blocks are whole units, and no allocation reaches kmalloc's limit.      *)
(***************************************************************************)
THEOREM TypeCorrect == Spec => []TypeOK
BY HeapInvAlways, HeapInvFacts, PTL

(***************************************************************************)
(* The free list stays in the order of addresses, and neighbours on it are *)
(* joined.                                                                 *)
(***************************************************************************)
THEOREM CoalescedAlways == Spec => []Coalesced
BY HeapInvAlways, HeapInvFacts, PTL

(***************************************************************************)
(* No byte of the heap is lost or handed out twice.                        *)
(***************************************************************************)
THEOREM HeapTilesAlways == Spec => []HeapTiles
BY HeapInvAlways, HeapInvFacts, PTL

(***************************************************************************)
(* What kmalloc hands out has room for the header and the size asked for.  *)
(***************************************************************************)
THEOREM PayloadFitsAlways == Spec => PayloadFits
<1>1. ASSUME HeapInv', NEW sz \in Sizes, Kmalloc(sz), NEW b \in live' \ live
      PROVE  b.addr + HDR + sz <= End(b)
    <2>0. sz \in Nat /\ b.addr \in Nat
        BY <1>1, HeapAssumption DEF HeapInv, TypeOK, Whole, Block
    <2>1. live' # live
        BY <1>1
    <2>2. PICK i \in DOMAIN heap : live' = live \cup {[addr |-> heap[i].addr, sz |-> Room(sz)]}
        BY <1>1, <2>1 DEF Kmalloc, Stop, vars
    <2>3. b.sz = Room(sz)
        BY <1>1, <2>2
    <2> QED BY <2>0, <2>3, RoomFits DEF End, HDR
<1>2. HeapInv /\ [Next]_vars =>
        [\A sz \in Sizes : Kmalloc(sz) =>
            \A b \in live' \ live : b.addr + HDR + sz <= End(b)]_vars
    BY <1>1, HeapInvStep
<1> QED BY <1>2, HeapInvAlways, PTL DEF Spec, PayloadFits
-----------------------------------------------------------------------------
(***************************************************************************)
(* malloc and free of libc, for any page size, any place of the heap and   *)
(* any requests.                                                           *)
(***************************************************************************)
(***************************************************************************)
(* The blocks callers hold lie apart, one after the other from Base to the *)
(* block that malloc splits next.                                          *)
(***************************************************************************)
Huge == uheap[Len(uheap)].addr
Start(m) == m.a - 4
Stops(m) == m.a - 4 + m.room

Node == [addr : Nat, huge : BOOLEAN]
Held == [a : Nat, asked : Nat, room : Nat]
Blocks ==
    /\ uheap \in Seq(Node) /\ uheap # <<>>
    /\ \A i \in DOMAIN uheap : uheap[i].huge <=> i = Len(uheap)
    /\ Huge % 4 = 0 /\ Huge >= Base /\ Huge + 8 <= uend /\ uend \in Nat /\ Base \in Nat
    /\ ulive \subseteq Held
    /\ \A m \in ulive : /\ m.asked \in Asked /\ m.room >= m.asked + 4 /\ m.room % 4 = 0
                        /\ m.a % 4 = 0 /\ Start(m) >= Base /\ Stops(m) <= Huge
    /\ \A m, l \in ulive : m # l => Stops(m) <= Start(l) \/ Stops(l) <= Start(m)

(***************************************************************************)
(* As long as no small block was freed and no empty one split off, what    *)
(* free wrote into the blocks it listed is neither in front of Base nor in *)
(* a block that someone holds.                                             *)
(***************************************************************************)
Freed == {uheap[i] : i \in 1..(Len(uheap) - 1)}
Undamaged ==
    /\ torn = {} /\ umode # "wild"
    /\ \A b \in Freed : /\ b.addr + 8 <= Huge
                        /\ \A m \in ulive : b.addr + 8 <= Start(m) \/ Stops(m) <= b.addr

UserHeap ==
    /\ umode \in {"ok", "fault", "wild"} /\ small \in BOOLEAN
    /\ torn \subseteq L!Listed
    /\ \/ uheap = <<>> /\ ulive = {} /\ torn = {} /\ umode # "wild"
       \/ Blocks /\ (~small => Undamaged) /\ L!FaultsOnlyWhenFull

(***************************************************************************)
(* Rounding to words: large enough, and a multiple of the word.            *)
(***************************************************************************)
LEMMA WordRoom ==
    ASSUME NEW sz \in Nat
    PROVE  /\ L!Room(sz) \in Nat /\ L!Room(sz) >= sz + 4 /\ L!Room(sz) % 4 = 0
           /\ L!Room(sz) < sz + 8
<1>1. PICK x \in Nat : x = sz + 4 + 4 - 1
    OBVIOUS
<1>2. PICK q \in Nat, k \in Nat : q = x \div 4 /\ k < 4 /\ x = 4 * q + k
    BY DivMod
<1>3. L!Room(sz) = 4 * q
    BY <1>1, <1>2 DEF L!Room, L!RoundUp, L!WORD
<1>4. (4 * q) % 4 = 0
    OBVIOUS
<1> QED BY <1>1, <1>2, <1>3, <1>4

(***************************************************************************)
(* The heap starts at a word.                                              *)
(***************************************************************************)
LEMMA BaseWord ==
    ASSUME L!MallocAssumption
    PROVE  Base \in Nat /\ Base % 4 = 0
<1>1. /\ PgSize \in Nat /\ PgSize % 8 = 0 /\ PgSize > 8 /\ Base \in Nat /\ Base % PgSize = 0
    BY DEF L!MallocAssumption, L!WORD
<1>2. PICK q \in Nat, k \in Nat : k = PgSize % 8 /\ PgSize = 8 * q + k
    BY <1>1, DivMod
<1>3. PICK w \in Nat, j \in Nat : j = Base % PgSize /\ Base = PgSize * w + j
    BY <1>1, DivMod
<1>4. Base = (8 * q) * w
    <2>1. PgSize = 8 * q
        BY <1>1, <1>2
    <2>2. PgSize * w \in Nat
        BY <1>1
    <2> QED BY <1>1, <1>3, <2>1, <2>2
<1>5. PICK z \in Nat : z = q * w
    OBVIOUS
<1>6. Base = 8 * z
    BY <1>4, <1>5
<1>7. (8 * z) % 4 = 0
    OBVIOUS
<1> QED BY <1>1, <1>6, <1>7

(***************************************************************************)
(* The list is a sequence of nodes.                                        *)
(***************************************************************************)
LEMMA ListNodes ==
    ASSUME Blocks
    PROVE  /\ uheap \in Seq(Node) /\ Len(uheap) \in Nat \ {0} /\ DOMAIN uheap = 1..Len(uheap)
           /\ \A j \in 1..Len(uheap) : uheap[j] \in Node /\ uheap[j].addr \in Nat
           /\ \A j \in 1..Len(uheap) : uheap[j].huge <=> j = Len(uheap)
           /\ Huge \in Nat
<1>1. uheap \in Seq(Node) /\ uheap # <<>>
    BY DEF Blocks
<1>2. Len(uheap) \in Nat \ {0} /\ DOMAIN uheap = 1..Len(uheap)
    BY <1>1
<1>3. \A j \in 1..Len(uheap) : uheap[j] \in Node
    BY <1>1, <1>2
<1>4. \A j \in 1..Len(uheap) : uheap[j].addr \in Nat
    BY <1>3 DEF Node
<1>5. \A j \in 1..Len(uheap) : uheap[j].huge <=> j = Len(uheap)
    BY <1>2 DEF Blocks
<1>6. Huge \in Nat
    BY <1>2, <1>4 DEF Huge
<1> QED BY <1>1, <1>2, <1>3, <1>4, <1>5, <1>6

(***************************************************************************)
(* Nothing is held at the start.                                           *)
(***************************************************************************)
LEMMA UserHeapBegins == L!Init => UserHeap
BY DEF L!Init, UserHeap, L!Listed

(***************************************************************************)
(* The first call of malloc.                                               *)
(***************************************************************************)
LEMMA FirstKeeps ==
    ASSUME L!MallocAssumption, UserHeap, umode = "ok", NEW sz \in Asked, L!First(sz)
    PROVE  UserHeap'
<1> DEFINE room == L!Room(sz)
<1>1. uheap = <<>> /\ ulive = {} /\ torn = {}
    BY DEF L!First, UserHeap, Blocks
<1>2. CASE L!Stop("fault")
    BY <1>1, <1>2 DEF UserHeap, L!Stop, L!Listed
<1>3. CASE ~L!Stop("fault")
    <2>0. sz \in Nat /\ room \in Nat /\ room >= sz + 4 /\ room % 4 = 0 /\ Base \in Nat
          /\ Base % 4 = 0 /\ PgSize \in Nat \ {0}
        <3>1. sz \in Nat /\ PgSize \in Nat \ {0}
            BY DEF L!MallocAssumption, L!WORD
        <3>2. L!Room(sz) \in Nat /\ L!Room(sz) >= sz + 4 /\ L!Room(sz) % 4 = 0
            BY <3>1, WordRoom
        <3>3. Base \in Nat /\ Base % 4 = 0
            BY BaseWord
        <3> QED BY <3>1, <3>2, <3>3
    <2>1. PICK stop : stop = Base + L!RoundUp(room, PgSize)
        OBVIOUS
    <2>2. stop \in Nat
        <3>1. PICK x \in Nat : x = room + PgSize - 1
            BY <2>0
        <3>2. x \div PgSize \in Nat
            BY <2>0, <3>1, DivMod
        <3>3. (x \div PgSize) * PgSize \in Nat
            BY <2>0, <3>2
        <3> QED BY <2>0, <2>1, <3>1, <3>3 DEF L!RoundUp
    <2> HIDE DEF room
    <2>3. /\ Base + room + 8 <= stop
          /\ uheap' = <<[addr |-> Base + room, huge |-> TRUE]>>
          /\ ulive' = {[a |-> Base + 4, asked |-> sz, room |-> room]}
          /\ uend' = stop
          /\ UNCHANGED <<torn, umode, small>>
        BY <1>3, <2>1 DEF L!First, L!WORD, room
    <2>4. /\ Len(uheap') = 1 /\ uheap'[1] = [addr |-> Base + room, huge |-> TRUE]
          /\ uheap' \in Seq(Node) /\ uheap' # <<>>
          /\ DOMAIN uheap' = {1} /\ Huge' = Base + room
        <3>1. [addr |-> Base + room, huge |-> TRUE] \in Node
            BY <2>0 DEF Node
        <3> QED BY <2>3, <3>1 DEF Huge
    <2>5. (Base + room) % 4 = 0 /\ (Base + 4) % 4 = 0
        BY <2>0
    <2>6. Blocks'
        <3>1. \A m \in ulive' : m = [a |-> Base + 4, asked |-> sz, room |-> room]
            BY <2>3
        <3>2. [a |-> Base + 4, asked |-> sz, room |-> room] \in Held
            BY <2>0 DEF Held
        <3>3. \A i \in DOMAIN uheap' : uheap'[i].huge <=> i = Len(uheap')
            BY <2>4
        <3> QED BY <2>0, <2>2, <2>3, <2>4, <2>5, <3>1, <3>2, <3>3 DEF Blocks, Start, Stops
    <2>7. Undamaged'
        <3>1. Freed' = {}
            BY <2>4 DEF Freed
        <3> QED BY <1>1, <2>3, <3>1 DEF Undamaged
    <2>8. L!FaultsOnlyWhenFull'
        BY <2>3 DEF L!FaultsOnlyWhenFull
    <2> QED BY <1>1, <2>3, <2>6, <2>7, <2>8 DEF UserHeap
<1> QED BY <1>2, <1>3

(***************************************************************************)
(* The last block is the one malloc splits.                                *)
(***************************************************************************)
LEMMA FitsLast ==
    ASSUME Blocks, NEW i \in DOMAIN uheap, L!FirstFit(i)
    PROVE  i = Len(uheap) /\ Len(uheap) \in Nat \ {0} /\ uheap[i].addr = Huge /\ Huge \in Nat
           /\ uheap[i] \in Node
<1>1. i = Len(uheap)
    BY ListNodes DEF L!FirstFit
<1> QED BY <1>1, ListNodes DEF Huge

(***************************************************************************)
(* A further call of malloc.                                               *)
(***************************************************************************)
LEMMA SearchKeeps ==
    ASSUME L!MallocAssumption, UserHeap, umode = "ok", NEW sz \in Asked, L!Search(sz)
    PROVE  UserHeap'
<1>0. Blocks /\ (~small => Undamaged) /\ uheap # <<>> /\ small \in BOOLEAN /\ torn \subseteq L!Listed
    BY DEF UserHeap, L!Search
<1> DEFINE room == L!Room(sz)
<1>1. PICK i \in DOMAIN uheap :
          /\ L!FirstFit(i)
          /\ IF \E j \in 1..(i - 1) : uheap[j] \in torn
             THEN L!Stop("wild")
             ELSE L!Found(sz, i)
    BY DEF L!Search
<1>2. i = Len(uheap) /\ Len(uheap) \in Nat \ {0} /\ uheap[i].addr = Huge /\ Huge \in Nat
      /\ uheap[i] \in Node
    BY <1>0, <1>1, FitsLast
<1>3. sz \in Nat /\ room \in Nat /\ room >= sz + 4 /\ room % 4 = 0 /\ uneed' = room
    BY WordRoom DEF L!MallocAssumption, L!Search
<1> HIDE DEF room
<1>4. CASE L!Stop("wild") /\ \E j \in 1..(i - 1) : uheap[j] \in torn
    <2>1. small
        BY <1>0, <1>4 DEF Undamaged
    <2>2. Blocks' /\ torn' = torn /\ L!Listed' = L!Listed /\ umode' = "wild" /\ small' = small
        BY <1>0, <1>4 DEF L!Stop, Blocks, Huge, L!Listed
    <2> QED BY <1>0, <2>1, <2>2 DEF UserHeap, L!FaultsOnlyWhenFull
<1>5. CASE L!Found(sz, i) /\ L!Past(L!Rest(uheap[i], room))
    <2>1. L!Stop("fault")
        BY <1>5 DEF L!Found, room
    <2>2. Blocks' /\ torn' = torn /\ L!Listed' = L!Listed /\ umode' = "fault" /\ small' = small
        BY <1>0, <2>1 DEF L!Stop, Blocks, Huge, L!Listed
    <2>3. Undamaged => Undamaged'
        BY <2>1 DEF Undamaged, L!Stop, Freed, Huge
    <2>4. Huge + room + 8 > uend /\ uheap' = uheap /\ uend' = uend
        BY <1>2, <1>5, <2>1 DEF L!Past, L!Rest, L!WORD, L!Stop
    <2>5. L!FaultsOnlyWhenFull'
        BY <1>3, <2>4 DEF L!FaultsOnlyWhenFull, L!WORD, Huge
    <2> QED BY <1>0, <2>2, <2>3, <2>5 DEF UserHeap
<1>6. CASE L!Found(sz, i) /\ ~L!Past(L!Rest(uheap[i], room))
    <2> DEFINE rest == [addr |-> Huge + room, huge |-> TRUE]
               m == [a |-> Huge + 4, asked |-> sz, room |-> room]
    <2>1. /\ uheap' = [uheap EXCEPT ![i] = rest]
          /\ torn' = L!TornBy((L!Listed \ {uheap[i]}) \cup {rest}, L!Header(m))
                        \cup {r \in {rest} : uheap[i] \in torn \/ room = 4}
          /\ small' = (small \/ room = 4)
          /\ ulive' = ulive \cup {m}
          /\ UNCHANGED <<uend, umode>>
        BY <1>2, <1>6 DEF L!Found, L!Rest, L!WORD, room
    <2>2. Huge + room + 8 <= uend /\ uend \in Nat /\ Huge % 4 = 0 /\ Huge >= Base /\ Base \in Nat
        <3>1. uend \in Nat /\ Huge % 4 = 0 /\ Huge >= Base /\ Base \in Nat
            BY <1>0, BaseWord DEF Blocks
        <3>2. ~(Huge + room + 8 > uend)
            BY <1>2, <1>3, <1>6 DEF L!Past, L!Rest, L!WORD
        <3> QED BY <1>2, <1>3, <3>1, <3>2
    <2>3. /\ uheap' \in Seq(Node) /\ Len(uheap') = Len(uheap)
          /\ DOMAIN uheap' = DOMAIN uheap /\ uheap'[i] = rest
          /\ \A j \in DOMAIN uheap : j # i => uheap'[j] = uheap[j]
        <3>1. rest \in Node
            BY <1>2, <1>3 DEF Node
        <3>2. uheap \in Seq(Node)
            BY <1>0 DEF Blocks
        <3> HIDE DEF rest
        <3> QED BY <2>1, <3>1, <3>2
    <2>4. Huge' = Huge + room
        BY <1>2, <2>3 DEF Huge
    <2>5. m \in Held /\ Start(m) = Huge /\ Stops(m) = Huge + room
        BY <1>2, <1>3 DEF Held, Start, Stops
    <2>6. (Huge + room) % 4 = 0 /\ (Huge + 4) % 4 = 0
        BY <1>2, <1>3, <2>2
    <2>7. Blocks'
        <3>1. \A l \in ulive' : l \in ulive \/ l = m
            BY <2>1
        <3>2. \A l \in ulive : /\ l \in Held /\ l.asked \in Asked /\ l.room >= l.asked + 4 /\ l.room % 4 = 0
                               /\ l.a % 4 = 0 /\ Start(l) >= Base /\ Stops(l) <= Huge
                               /\ Stops(l) \in Int
            BY <1>0 DEF Blocks, Stops, Held
        <3>3. /\ m.asked \in Asked /\ m.room >= m.asked + 4 /\ m.room % 4 = 0
              /\ m.a % 4 = 0 /\ Start(m) >= Base /\ Stops(m) <= Huge'
            BY <1>3, <2>2, <2>4, <2>5, <2>6
        <3> HIDE DEF m
        <3>4. \A l \in ulive' :
                 /\ l.asked \in Asked /\ l.room >= l.asked + 4 /\ l.room % 4 = 0
                 /\ l.a % 4 = 0 /\ Start(l) >= Base /\ Stops(l) <= Huge'
            BY <1>2, <1>3, <2>4, <3>1, <3>2, <3>3
        <3>5. \A k, l \in ulive' : k # l => Stops(k) <= Start(l) \/ Stops(l) <= Start(k)
            BY <1>0, <2>5, <3>1, <3>2 DEF Blocks
        <3>6. ulive' \subseteq Held
            BY <2>5, <3>1, <3>2
        <3>7. \A j \in DOMAIN uheap' : uheap'[j].huge <=> j = Len(uheap')
            BY <1>0, <1>2, <2>3 DEF Blocks
        <3>8. uheap' # <<>>
            BY <1>2, <2>3
        <3>9. Huge' % 4 = 0 /\ Huge' >= Base /\ Huge' + 8 <= uend' /\ uend' \in Nat
            BY <1>2, <1>3, <2>1, <2>2, <2>4, <2>6
        <3> QED BY <2>2, <2>3, <3>4, <3>5, <3>6, <3>7, <3>8, <3>9 DEF Blocks, Start, Stops
    <2>9. (L!Listed \ {uheap[i]}) \cup {rest} \subseteq L!Listed'
        <3>1. \A j \in DOMAIN uheap : uheap[j] # uheap[i] => uheap'[j] = uheap[j]
            BY <2>3
        <3>2. rest \in L!Listed'
            BY <2>3 DEF L!Listed
        <3>3. \A b \in L!Listed \ {uheap[i]} : b \in L!Listed'
            BY <2>3, <3>1 DEF L!Listed
        <3> QED BY <3>2, <3>3
    <2>10. torn' \subseteq L!Listed'
        BY <2>1, <2>9 DEF L!TornBy
    <2>11. ASSUME Undamaged, room # 4 PROVE Undamaged'
        <3>1. Freed' = Freed
            <4>1. \A j \in 1..(Len(uheap) - 1) : uheap'[j] = uheap[j]
                BY <1>2, <2>3
            <4> QED BY <2>3, <4>1 DEF Freed
        <3>2. \A b \in Freed : b.addr \in Nat /\ b.addr + 8 <= Huge
            <4>1. \A j \in 1..(Len(uheap) - 1) : uheap[j] \in Node
                BY <1>0, <1>2, ListNodes
            <4>2. \A b \in Freed : b \in Node
                BY <4>1 DEF Freed
            <4> QED BY <2>11, <4>2 DEF Undamaged, Node
        <3>3. L!Listed \ {uheap[i]} \subseteq Freed
            BY <1>2 DEF L!Listed, Freed
        <3>4. \A b \in Freed \cup {rest} : L!Link(b) \cap L!Header(m) = {}
            <4>1. L!Header(m) = Huge..(Huge + 3)
                BY <1>2 DEF L!Header, L!Bytes, L!WORD
            <4>2. ASSUME NEW b \in Freed PROVE L!Link(b) \cap L!Header(m) = {}
                BY <1>2, <3>2, <4>1, <4>2 DEF L!Link, L!Bytes, L!WORD
            <4>3. L!Link(rest) \cap L!Header(m) = {}
                BY <1>2, <1>3, <4>1 DEF L!Link, L!Bytes, L!WORD
            <4> QED BY <4>2, <4>3
        <3>5. torn' = {}
            <4>1. L!TornBy((L!Listed \ {uheap[i]}) \cup {rest}, L!Header(m)) = {}
                BY <3>3, <3>4 DEF L!TornBy
            <4>2. uheap[i] \notin torn
                BY <2>11 DEF Undamaged
            <4> HIDE DEF rest, m
            <4> QED BY <2>1, <2>11, <4>1, <4>2
        <3>6. \A b \in Freed : /\ b.addr + 8 <= Huge'
                               /\ \A l \in ulive' : b.addr + 8 <= Start(l) \/ Stops(l) <= b.addr
            BY <1>2, <1>3, <2>1, <2>4, <2>5, <2>11, <3>2 DEF Undamaged
        <3> QED BY <2>1, <2>11, <3>1, <3>5, <3>6 DEF Undamaged, Start, Stops
    <2>12. L!FaultsOnlyWhenFull'
        BY <2>1 DEF L!FaultsOnlyWhenFull
    <2> QED BY <1>0, <2>1, <2>7, <2>10, <2>11, <2>12 DEF UserHeap
<1> QED BY <1>1, <1>4, <1>5, <1>6

(***************************************************************************)
(* free.                                                                   *)
(***************************************************************************)
LEMMA FreeKeeps ==
    ASSUME UserHeap, NEW m \in ulive, L!free(m)
    PROVE  UserHeap'
<1>0. Blocks /\ (~small => Undamaged) /\ umode = "ok" /\ small \in BOOLEAN /\ torn \subseteq L!Listed
    BY DEF UserHeap, L!free
<1> DEFINE p == [addr |-> m.a - 2, huge |-> FALSE]
           linked == p.addr < uheap[1].addr
           wrote == IF linked THEN L!Size(p) \cup L!Link(p) ELSE L!Size(p)
<1>1. /\ small' = (small \/ m.asked <= 4)
      /\ umode' = IF wrote \cap L!Matters(m) # {} \/ (~linked /\ torn # {})
                  THEN "wild" ELSE umode
      /\ uheap' = IF linked THEN <<p>> \o uheap ELSE uheap
      /\ ulive' = ulive \ {m}
      /\ UNCHANGED <<torn, uend, uneed>>
    BY DEF L!free, L!Freed, L!HALF, L!WORD, L!Linked
<1>2. /\ m \in Held /\ m.room >= m.asked + 4 /\ Stops(m) <= Huge /\ Start(m) >= Base
      /\ m.room % 4 = 0
    BY <1>0 DEF Blocks
<1>3. /\ uheap \in Seq(Node) /\ Len(uheap) \in Nat /\ Len(uheap) # 0
      /\ DOMAIN uheap = 1..Len(uheap) /\ Huge \in Nat /\ Base \in Nat
    BY <1>0, ListNodes DEF Blocks
<1>a. \A j \in 1..Len(uheap) : uheap[j] \in Node /\ uheap[j].addr \in Nat
    BY <1>0, ListNodes
<1>b. \A j \in 1..Len(uheap) : uheap[j].huge <=> j = Len(uheap)
    BY <1>0, ListNodes
<1>4. m.a \in Nat /\ m.asked \in Nat /\ m.room \in Nat /\ p.addr = m.a - 2 /\ p.huge = FALSE
    BY <1>2 DEF Held
<1>7. p \in Node /\ p.addr \in Nat
    <2>1. m.a >= 4
        BY <1>2, <1>3, <1>4 DEF Start
    <2> QED BY <1>4, <2>1 DEF Node
<1> HIDE DEF p, linked, wrote
<1>5. ASSUME linked
      PROVE  /\ uheap' \in Seq(Node) /\ Len(uheap') = Len(uheap) + 1
             /\ uheap'[1] = p /\ \A j \in 1..Len(uheap) : uheap'[j + 1] = uheap[j]
    <2>2. uheap \in Seq(Node) /\ <<p>> \in Seq(Node)
        BY <1>3, <1>7
    <2>3. Len(<<p>>) = 1 /\ <<p>>[1] = p
        OBVIOUS
    <2>4. uheap' = <<p>> \o uheap
        BY <1>1, <1>5
    <2>5. /\ uheap' \in Seq(Node) /\ Len(uheap') = 1 + Len(uheap)
          /\ \A j \in 1..(1 + Len(uheap)) : uheap'[j] = IF j <= 1 THEN <<p>>[j] ELSE uheap[j - 1]
        BY <2>2, <2>3, <2>4, ConcatProperties
    <2>6. \A j \in 1..Len(uheap) : j + 1 \in 1..(1 + Len(uheap)) /\ ~(j + 1 <= 1) /\ (j + 1) - 1 = j
        BY <1>3
    <2>7. 1 \in 1..(1 + Len(uheap))
        BY <1>3
    <2>8. uheap'[1] = p
        BY <2>3, <2>5, <2>7
    <2>9. \A j \in 1..Len(uheap) : uheap'[j + 1] = uheap[j]
        BY <2>5, <2>6
    <2> QED BY <1>3, <2>5, <2>8, <2>9
<1>6. Huge' = Huge
    <2>1. CASE linked
        BY <1>3, <1>5, <2>1 DEF Huge
    <2>2. CASE ~linked
        BY <1>1, <2>2 DEF Huge
    <2> QED BY <2>1, <2>2
<1>8. Blocks'
    <2>1. /\ uheap' \in Seq(Node) /\ uheap' # <<>>
          /\ \A i \in DOMAIN uheap' : uheap'[i].huge <=> i = Len(uheap')
        <3>1. CASE ~linked
            BY <1>0, <1>1, <3>1 DEF Blocks
        <3>2. CASE linked
            <4>2. ASSUME NEW i \in 1..(Len(uheap) + 1)
                  PROVE  /\ uheap'[i] \in Node
                         /\ uheap'[i].huge <=> i = Len(uheap) + 1
                <5>1. CASE i = 1
                    <6>1. uheap'[i] = p /\ p.huge = FALSE /\ 1 # Len(uheap) + 1
                        BY <1>3, <1>4, <1>5, <3>2, <5>1
                    <6> QED BY <1>7, <5>1, <6>1
                <5>2. CASE i # 1
                    <6>1. i - 1 \in 1..Len(uheap) /\ (i - 1) + 1 = i
                        BY <1>3, <5>2
                    <6>2. uheap'[i] = uheap[i - 1]
                        BY <1>5, <3>2, <6>1
                    <6>3. i - 1 = Len(uheap) <=> i = Len(uheap) + 1
                        BY <1>3
                    <6> QED BY <1>a, <1>b, <6>1, <6>2, <6>3
                <5> QED BY <5>1, <5>2
            <4>3. uheap' \in Seq(Node) /\ Len(uheap') = Len(uheap) + 1
                BY <1>5, <3>2
            <4> QED BY <1>3, <4>2, <4>3
        <3> QED BY <3>1, <3>2
    <2>2. Huge' % 4 = 0 /\ Huge' >= Base /\ Huge' + 8 <= uend' /\ uend' \in Nat
        BY <1>0, <1>1, <1>6 DEF Blocks
    <2>3. ulive' \subseteq ulive
        BY <1>1
    <2> QED BY <1>0, <1>6, <2>1, <2>2, <2>3 DEF Blocks, Start, Stops
<1>9. torn' \subseteq L!Listed'
    <2>1. CASE ~linked
        BY <1>0, <1>1, <2>1 DEF L!Listed
    <2>2. CASE linked
        <3>1. \A j \in 1..Len(uheap) : j + 1 \in DOMAIN uheap'
            BY <1>3, <1>5, <2>2
        <3>2. L!Listed \subseteq L!Listed'
            <4>1. ASSUME NEW b \in L!Listed PROVE b \in L!Listed'
                <5>1. PICK j \in 1..Len(uheap) : b = uheap[j]
                    BY <1>3, <4>1 DEF L!Listed
                <5>2. uheap'[j + 1] = b
                    BY <1>5, <2>2, <5>1
                <5> QED BY <3>1, <5>1, <5>2 DEF L!Listed
            <4> QED BY <4>1
        <3> QED BY <1>0, <1>1, <3>2
    <2> QED BY <2>1, <2>2
<1>10. L!FaultsOnlyWhenFull'
    BY <1>0, <1>1 DEF L!FaultsOnlyWhenFull
<1>11. ASSUME ~small' PROVE Undamaged'
    <2>1. ~small /\ ~(m.asked <= 4) /\ Undamaged
        BY <1>0, <1>1, <1>11
    <2>2. m.a + 6 <= Stops(m) /\ Start(m) = m.a - 4
        BY <1>2, <1>4, <2>1 DEF Stops, Start
    <2>3. \A b \in Freed : b.addr \in Nat /\ b.addr + 8 <= Huge
        <3>1. \A j \in 1..(Len(uheap) - 1) : uheap[j].addr \in Nat
            BY <1>3, <1>a
        <3>2. \A b \in Freed : b.addr \in Nat
            BY <3>1 DEF Freed
        <3> QED BY <2>1, <3>2 DEF Undamaged
    <2>4. \A l \in ulive : l \in Held /\ Start(l) \in Int /\ Stops(l) \in Int
        <3>1. \A l \in ulive : l \in Held
            BY <1>0 DEF Blocks
        <3>2. \A l \in ulive : l.a \in Nat /\ l.room \in Nat
            BY <3>1 DEF Held
        <3> QED BY <3>1, <3>2 DEF Start, Stops
    <2>5. wrote \subseteq (m.a - 2)..(m.a + 5)
        BY <1>4 DEF wrote, L!Size, L!Link, L!Bytes, L!WORD
    <2>6. ASSUME NEW x \in L!Matters(m), x \in (m.a - 2)..(m.a + 5) PROVE FALSE
        <3>0. x \in Int /\ m.a - 2 <= x /\ x <= m.a + 5
            BY <1>4, <2>6
        <3>1. ASSUME NEW l \in ulive \ {m}, x \in L!Bytes(l.a - 2, 2) \cup L!Payload(l)
              PROVE  FALSE
            <4>1. l \in Held /\ (Stops(m) <= Start(l) \/ Stops(l) <= Start(m))
                BY <1>0, <3>1 DEF Blocks
            <4>2. l.a \in Nat /\ l.room \in Nat
                BY <4>1 DEF Held
            <4>3. l.a - 2 <= x /\ x <= l.a + l.room - 5
                <5>1. l.room >= 4
                    <6>1. l.room >= l.asked + 4 /\ l.asked \in Nat
                        BY <1>0, <3>1, <4>1 DEF Blocks, Held
                    <6> QED BY <4>2, <6>1
                <5>2. CASE x \in L!Bytes(l.a - 2, 2)
                    BY <4>2, <5>1, <5>2 DEF L!Bytes
                <5>3. CASE x \in L!Payload(l)
                    BY <4>2, <5>1, <5>3 DEF L!Bytes, L!Payload, L!WORD
                <5> QED BY <3>1, <5>2, <5>3
            <4> QED BY <1>4, <2>2, <3>0, <4>1, <4>2, <4>3 DEF Start, Stops
        <3>2. ASSUME NEW b \in L!Listed, x \in L!Bytes(b.addr + 2, 2) \cup L!Link(b)
              PROVE  FALSE
            <4>1. PICK j \in 1..Len(uheap) : b = uheap[j]
                BY <1>3, <3>2 DEF L!Listed
            <4>2. b.addr \in Nat
                BY <1>a, <4>1
            <4>3. b.addr <= x /\ x < b.addr + 8
                BY <3>2, <4>2 DEF L!Bytes, L!Link, L!WORD
            <4>4. CASE j = Len(uheap)
                <5>1. b.addr = Huge
                    BY <4>1, <4>4 DEF Huge
                <5>2. PICK e \in Int : e = Stops(m) /\ e <= b.addr
                    BY <1>2, <2>4, <5>1
                <5>3. PICK a \in Int, y \in Int : a = m.a /\ y = b.addr
                    BY <1>4, <4>2
                <5>4. a + 6 <= e /\ e <= y /\ y <= x /\ x <= a + 5
                    BY <2>2, <3>0, <4>3, <5>2, <5>3
                <5> QED BY <3>0, <5>4
            <4>5. CASE j # Len(uheap)
                <5>1. b \in Freed
                    <6>1. j \in Int /\ 1 <= j /\ j <= Len(uheap)
                        BY <1>3
                    <6>3. PICK n \in Nat : n = Len(uheap)
                        BY <1>3
                    <6>4. j < n
                        BY <4>5, <6>1, <6>3
                    <6>5. j \in 1..(n - 1)
                        BY <6>1, <6>4
                    <6>2. j \in 1..(Len(uheap) - 1)
                        BY <6>3, <6>5
                    <6> QED BY <4>1, <6>2 DEF Freed
                <5>2. b.addr + 8 <= Start(m) \/ Stops(m) <= b.addr
                    BY <2>1, <5>1 DEF Undamaged
                <5>3. PICK e \in Int, a \in Int, y \in Int : e = Stops(m) /\ a = m.a /\ y = b.addr
                    BY <1>4, <2>4, <4>2
                <5>4. a + 6 <= e /\ (y + 8 <= a - 4 \/ e <= y)
                    BY <2>2, <5>2, <5>3
                <5>5. y <= x /\ x < y + 8 /\ a - 2 <= x /\ x <= a + 5
                    BY <3>0, <4>3, <5>3
                <5> QED BY <3>0, <5>4, <5>5
            <4> QED BY <4>4, <4>5
        <3>3. \/ \E l \in ulive \ {m} : x \in L!Bytes(l.a - 2, 2) \cup L!Payload(l)
              \/ \E b \in L!Listed : x \in L!Bytes(b.addr + 2, 2) \cup L!Link(b)
            <4> DEFINE A == UNION {L!Bytes(l.a - 2, 2) \cup L!Payload(l) : l \in ulive \ {m}}
                       B == UNION {L!Bytes(b.addr + 2, 2) \cup L!Link(b) : b \in L!Listed}
            <4>1. L!Matters(m) = A \cup B
                BY DEF L!Matters, L!HALF
            <4>2. x \in A => \E l \in ulive \ {m} : x \in L!Bytes(l.a - 2, 2) \cup L!Payload(l)
                OBVIOUS
            <4>3. x \in B => \E b \in L!Listed : x \in L!Bytes(b.addr + 2, 2) \cup L!Link(b)
                OBVIOUS
            <4> HIDE DEF A, B
            <4>4. x \in A \/ x \in B
                BY <4>1
            <4> QED BY <4>2, <4>3, <4>4
        <3> QED BY <3>1, <3>2, <3>3
    <2>7. umode' # "wild" /\ torn' = {}
        <3>1. wrote \cap L!Matters(m) = {}
            BY <2>5, <2>6
        <3> QED BY <1>0, <1>1, <2>1, <3>1 DEF Undamaged
    <2>8. Freed' \subseteq Freed \cup {p}
        <3>1. CASE ~linked
            BY <1>1, <3>1 DEF Freed
        <3>2. CASE linked
            <4>1. ASSUME NEW i \in 1..Len(uheap) PROVE uheap'[i] \in Freed \cup {p}
                <5>1. CASE i = 1
                    BY <1>5, <3>2, <5>1
                <5>2. CASE i # 1
                    <6>1. i - 1 \in 1..Len(uheap) /\ i - 1 \in 1..(Len(uheap) - 1) /\ (i - 1) + 1 = i
                        BY <1>3, <5>2
                    <6>2. uheap'[i] = uheap[i - 1]
                        BY <1>5, <3>2, <6>1
                    <6> QED BY <6>1, <6>2 DEF Freed
                <5> QED BY <5>1, <5>2
            <4>2. Len(uheap') - 1 = Len(uheap)
                BY <1>3, <1>5, <3>2
            <4> QED BY <4>1, <4>2 DEF Freed
        <3> QED BY <3>1, <3>2
    <2>9. \A b \in Freed' : /\ b.addr + 8 <= Huge
                            /\ \A l \in ulive' : b.addr + 8 <= Start(l) \/ Stops(l) <= b.addr
        <3>1. \A l \in ulive' : l \in ulive /\ l # m
            BY <1>1
        <3>2. \A b \in Freed : \A l \in ulive : b.addr + 8 <= Start(l) \/ Stops(l) <= b.addr
            BY <2>1 DEF Undamaged
        <3>3. p.addr + 8 <= Huge
            BY <1>2, <1>3, <1>4, <2>2, SMTT(30) DEF Stops
        <3>4. \A l \in ulive' : p.addr + 8 <= Start(l) \/ Stops(l) <= p.addr
            <4>1. ASSUME NEW l \in ulive' PROVE p.addr + 8 <= Start(l) \/ Stops(l) <= p.addr
                <5>1. Stops(m) <= Start(l) \/ Stops(l) <= Start(m)
                    BY <1>0, <3>1 DEF Blocks
                <5>2. Stops(m) \in Int /\ Start(l) \in Int /\ Stops(l) \in Int
                    BY <2>4, <3>1
                <5> QED BY <1>4, <2>2, <5>1, <5>2
            <4> QED BY <4>1
        <3> QED BY <2>3, <2>8, <3>1, <3>2, <3>3, <3>4
    <2> QED BY <1>6, <2>7, <2>9 DEF Undamaged, Start, Stops
<1> QED BY <1>0, <1>1, <1>8, <1>9, <1>10, <1>11 DEF UserHeap

(***************************************************************************)
(* A step keeps the invariant.                                             *)
(***************************************************************************)
LEMMA UserHeapKeeps ==
    ASSUME L!MallocAssumption, UserHeap, [L!Next]_(L!vars)
    PROVE  UserHeap'
<1>1. ASSUME NEW sz \in Asked, L!malloc(sz) PROVE UserHeap'
    BY <1>1, FirstKeeps, SearchKeeps DEF L!malloc
<1>2. ASSUME NEW m \in ulive, L!free(m) PROVE UserHeap'
    BY <1>2, FreeKeeps
<1>3. CASE UNCHANGED L!vars
    <2>1. UNCHANGED <<uheap, torn, ulive, uend, umode, small, uneed>>
        BY <1>3 DEF L!vars
    <2>2. Blocks => Blocks'
        BY <2>1 DEF Blocks, Huge
    <2>3. Undamaged => Undamaged'
        BY <2>1 DEF Undamaged, Freed, Huge
    <2>4. L!FaultsOnlyWhenFull => L!FaultsOnlyWhenFull'
        BY <2>1 DEF L!FaultsOnlyWhenFull
    <2>5. L!Listed' = L!Listed
        BY <2>1 DEF L!Listed
    <2> QED BY <2>1, <2>2, <2>3, <2>4, <2>5 DEF UserHeap
<1> QED BY <1>1, <1>2, <1>3 DEF L!Next, L!Stopped

(***************************************************************************)
(* The invariant says that the heap is sound.                              *)
(***************************************************************************)
LEMMA UserHeapSound ==
    ASSUME L!MallocAssumption, UserHeap
    PROVE  L!TypeOK /\ L!HeapSound
<1>1. CASE uheap = <<>> /\ ulive = {} /\ torn = {} /\ umode # "wild"
    BY <1>1 DEF UserHeap, L!TypeOK, L!HeapSound, L!PayloadsApart, L!WildOnlyAfterSmall,
                L!FaultsOnlyWhenFull
<1>2. CASE Blocks /\ (~small => Undamaged) /\ L!FaultsOnlyWhenFull
    <2>1. L!TypeOK
        BY <1>2 DEF UserHeap, L!TypeOK, Blocks, L!WORD
    <2>2. L!WildOnlyAfterSmall
        BY <1>2 DEF L!WildOnlyAfterSmall, Undamaged
    <2>3. \A m \in ulive : /\ m.a \in Nat /\ m.asked \in Nat /\ m.room \in Nat
                           /\ m.a - 4 >= Base /\ m.room >= m.asked + 4
                           /\ m.a - 4 + m.room <= Huge
        BY <1>2 DEF Blocks, Held, Start, Stops
    <2>4. Base \in Nat /\ uend \in Nat /\ Huge + 8 <= uend /\ Huge \in Nat
        BY <1>2, ListNodes DEF Blocks
    <2>5. ASSUME NEW m \in ulive
          PROVE  LET mine == L!Bytes(m.a, m.asked) IN
                 /\ mine \subseteq Base..(uend - 1)
                 /\ \A l \in ulive \ {m} : mine \cap L!Bytes(l.a, l.asked) = {}
                 /\ mine \cap L!Bytes(Huge, 8) = {}
        <3>1. L!Bytes(m.a, m.asked) \subseteq Base..(uend - 1)
            BY <2>3, <2>4 DEF L!Bytes
        <3>2. ASSUME NEW l \in ulive \ {m}
              PROVE  L!Bytes(m.a, m.asked) \cap L!Bytes(l.a, l.asked) = {}
            <4>1. Stops(m) <= Start(l) \/ Stops(l) <= Start(m)
                BY <1>2 DEF Blocks
            <4> QED BY <2>3, <4>1 DEF L!Bytes, Start, Stops
        <3>3. L!Bytes(m.a, m.asked) \cap L!Bytes(Huge, 8) = {}
            BY <2>3, <2>4 DEF L!Bytes
        <3> QED BY <3>1, <3>2, <3>3
    <2>6. L!PayloadsApart
        BY <2>5 DEF L!PayloadsApart, L!WORD, Huge
    <2> QED BY <1>2, <2>1, <2>2, <2>6 DEF L!HeapSound
<1> QED BY <1>1, <1>2 DEF UserHeap

(***************************************************************************)
(* malloc and free of libc: what callers were given lies in the memory     *)
(* mmap gave and belongs to one caller, no link is garbage and no garbage  *)
(* followed until a block of at most one word is freed or malloc(0) takes  *)
(* from the list, and malloc fails only at the end of its memory; for any  *)
(* sequence of calls.                                                      *)
(***************************************************************************)
THEOREM HeapSoundAlways == Spec /\ L!Spec => []HeapSound
<1>1. L!Init => UserHeap
    BY UserHeapAssumption, UserHeapBegins
<1>2. UserHeap /\ [L!Next]_(L!vars) => UserHeap'
    BY UserHeapAssumption, UserHeapKeeps
<1>3. TypeOK /\ UserHeap => HeapSound
    BY UserHeapAssumption, UserHeapSound DEF HeapSound
<1> QED BY <1>1, <1>2, <1>3, TypeCorrect, PTL DEF L!Spec
-----------------------------------------------------------------------------
(***************************************************************************)
(* libc's stdio.                                                           *)
(***************************************************************************)
LEMMA StdioFormat ==
    /\ \A b, k : O!Power(b, k) = PowerOf(b, k)
    /\ \A u, b : O!LowFirst(u, b) = LowDigits(u, b)
    /\ \A u, b : O!Numeral(u, b) = NumeralOf(u, b, Width)
    /\ \A s : O!Reverse(s) = Reverse(s)
<1>1. \A b, k : O!Power(b, k) = PowerOf(b, k)
    BY DEF O!Power, PowerOf
<1>2. \A u, b : O!LowFirst(u, b) = LowDigits(u, b)
    BY DEF O!LowFirst, LowDigits
<1>3. \A u, b : O!Numeral(u, b) = NumeralOf(u, b, Width)
    BY Zenon DEF O!Numeral, NumeralOf, O!Power, PowerOf
<1>4. \A s : O!Reverse(s) = Reverse(s)
    BY DEF O!Reverse, Reverse
<1> QED BY <1>1, <1>2, <1>3, <1>4

(***************************************************************************)
(* itoa: what it stores is what the conversion is for, and the array it    *)
(* stores it in is long enough.                                            *)
(***************************************************************************)
Prints(s, n, b) ==
    /\ s = IF b < 0 THEN O!SignedNumeral(n, -b) ELSE O!Numeral(O!AsUnsigned(n), b)
    /\ s \in Seq(Int) /\ Len(s) <= Width

(***************************************************************************)
(* libc's itoa prints a numeral of the given number in the given base.     *)
(***************************************************************************)
LEMMA ItoaPrints ==
    ASSUME O!WidthAssumption, NEW n \in O!int, NEW b \in O!Bases
    PROVE  Prints(O!itoa(n, b), n, b)
<1>1. Width \in Nat /\ Width > 1
    BY DEF O!WidthAssumption
<1>2. PICK v \in Nat : v = (IF b < 0 THEN -b ELSE b) /\ v > 1 /\ (b < 0 => v > 2)
    BY DEF O!Bases
<1>3. n \in Int /\ -PowerOf(2, Width - 1) <= n /\ n < PowerOf(2, Width - 1)
    <2>0. PICK j \in Nat : j = Width - 1
        BY <1>1
    <2>1. PICK t \in Nat : t = 2 /\ t > 1
        OBVIOUS
    <2>2. PowerOf(t, j) \in Nat
        BY <2>1, Powers
    <2>3. PICK h \in Nat : h = PowerOf(2, Width - 1)
        BY <2>0, <2>1, <2>2
    <2>4. n \in (-h)..(h - 1)
        BY <2>3, StdioFormat DEF O!int
    <2>5. n \in Int /\ -h <= n /\ n < h
        BY <2>4
    <2> QED BY <2>3, <2>5
<1>4. ReadsUnsigned(n, v, Width) /\ (v > 2 => ReadsSigned(n, v, Width))
    BY <1>1, <1>2, <1>3, NumbersRead
<1>5. PICK wrap : wrap = PowerOf(2, Width) /\ \A k : O!AsUnsigned(k) = k % wrap
    BY StdioFormat DEF O!AsUnsigned
<1>6. CASE ~(b < 0)
    <2>0. v = b
        BY <1>2, <1>6
    <2>1. PICK s \in Seq(Nat) : /\ s = NumeralOf(n % wrap, b, Width) /\ Len(s) <= Width
                                /\ n = 0 => s = <<0>>
                                /\ n # 0 => Reverse(LowDigits(n % wrap, b)) = s
        BY <1>4, <1>5, <2>0 DEF ReadsUnsigned
    <2>2. O!Numeral(O!AsUnsigned(n), b) = s
        BY <1>5, <2>1, StdioFormat
    <2>3. n # 0 => O!itoa(n, b) = <<>> \o s
        BY <1>5, <1>6, <2>1, StdioFormat DEF O!itoa, O!Turned
    <2>4. n = 0 => O!itoa(n, b) = s
        BY <2>1 DEF O!itoa
    <2>5. s \in Seq(Int) /\ <<>> \o s = s
        BY Signed
    <2> QED BY <1>6, <2>1, <2>2, <2>3, <2>4, <2>5 DEF Prints
<1>7. CASE b < 0
    <2>0. v = -b /\ v > 2
        BY <1>2, <1>7
    <2>1. PICK a : a = IF n < 0 THEN -n ELSE n
        OBVIOUS
    <2>2. PICK s \in Seq(Nat) : /\ s = NumeralOf(a, v, Width) /\ Len(s) + 1 <= Width
                                /\ n = 0 => s = <<0>>
                                /\ n # 0 => Reverse(LowDigits(a % wrap, v)) = s
        BY <1>4, <1>5, <2>0, <2>1 DEF ReadsSigned
    <2>3. /\ <<>> \o s = s /\ s \in Seq(Int) /\ <<-1>> \o s \in Seq(Int)
          /\ Len(<<-1>> \o s) = 1 + Len(s)
        BY Signed
    <2>4. Len(s) \in Nat /\ Len(s) <= Width /\ 1 + Len(s) <= Width
        BY <1>1, <2>2
    <2>5. CASE n < 0
        <3>1. a = -n /\ n # 0
            BY <1>3, <2>1, <2>5
        <3>2. O!SignedNumeral(n, v) = <<-1>> \o s
            BY <2>2, <2>5, <3>1, StdioFormat DEF O!SignedNumeral, O!MINUS
        <3>3. O!itoa(n, b) = <<-1>> \o s
            BY <1>5, <1>7, <2>0, <2>2, <2>5, <3>1, StdioFormat DEF O!itoa, O!Turned, O!MINUS
        <3> QED BY <1>7, <2>0, <2>3, <2>4, <3>2, <3>3 DEF Prints
    <2>6. CASE ~(n < 0)
        <3>1. a = n
            BY <2>1, <2>6
        <3>2. O!SignedNumeral(n, v) = s
            BY <2>2, <2>6, <3>1, StdioFormat DEF O!SignedNumeral
        <3>3. n # 0 => O!itoa(n, b) = <<>> \o s
            BY <1>5, <1>7, <2>0, <2>2, <2>6, <3>1, StdioFormat DEF O!itoa, O!Turned
        <3>4. n = 0 => O!itoa(n, b) = s
            BY <2>2 DEF O!itoa
        <3> QED BY <1>7, <2>0, <2>3, <2>4, <3>2, <3>3, <3>4 DEF Prints
    <2> QED BY <2>5, <2>6
<1> QED BY <1>6, <1>7

(***************************************************************************)
(* The invariant of stdio.  A stream is whole: what was written and what   *)
(* waits are what was printed.  Between calls, and beside a call for the   *)
(* other stream, it is clean: no line waits, and nothing for stderr.       *)
(***************************************************************************)
Job == [s : O!Stream, base : {0, 16, 10, -10, 8, 2}, start : Nat, from : Nat]

Kept(s) == written[s] \o buf[s] = put[s] /\ Len(buf[s]) <= O!Size[s]

Clean(s) == IF s = "stdout" THEN O!NEWLINE \notin O!Range(buf["stdout"]) ELSE buf["stderr"] = <<>>

StreamsInv == smode = "ok" => \A s \in O!Stream : Kept(s) /\ (job.s # s => Clean(s))

JobInv ==
    /\ job = O!Idle \/ job \in Job
    /\ smode = "ok" /\ job # O!Idle => Len(buf[job.s]) - job.start = Len(put[job.s]) - job.from

Texts == [O!Stream -> Seq(Int)]

StdioInv ==
    /\ buf \in Texts /\ written \in Texts /\ put \in Texts
    /\ StreamsInv
    /\ JobInv

(***************************************************************************)
(* A step after which stdio is stopped, with its job as it was, keeps it.  *)
(***************************************************************************)
LEMMA StoppedKeeps ==
    ASSUME StdioInv, buf' \in Texts, written' \in Texts, put' \in Texts, smode' # "ok",
           job' = O!Idle \/ job' \in Job
    PROVE  StdioInv'
BY DEF StdioInv, StreamsInv, JobInv, Texts, Job, O!Idle, O!Stream

(***************************************************************************)
(* The fields of a call of fprintf, and that giving it another base leaves *)
(* the others.                                                             *)
(***************************************************************************)
LEMMA JobFields ==
    ASSUME NEW j \in Job
    PROVE  /\ j.s \in O!Stream /\ j.s # "none" /\ j # O!Idle
           /\ j.base \in {0, 16, 10, -10, 8, 2} /\ j.start \in Nat /\ j.from \in Nat
           /\ \A b \in O!Bases : [j EXCEPT !.base = b] \in Job
           /\ \A b : /\ [j EXCEPT !.base = b].s = j.s
                    /\ [j EXCEPT !.base = b].start = j.start
                    /\ [j EXCEPT !.base = b].from = j.from
<1>1. /\ j.s \in O!Stream /\ j.base \in {0, 16, 10, -10, 8, 2} /\ j.start \in Nat /\ j.from \in Nat
    BY DEF Job
<1>2. j.s # "none"
    BY <1>1 DEF O!Stream
<1>3. O!Idle.s = "none"
    BY DEF O!Idle
<1>4. \A b \in O!Bases : [j EXCEPT !.base = b] \in Job
    BY DEF Job, O!Bases
<1>5. \A b : /\ [j EXCEPT !.base = b].s = j.s
            /\ [j EXCEPT !.base = b].start = j.start
            /\ [j EXCEPT !.base = b].from = j.from
    BY DEF Job
<1> QED BY <1>1, <1>2, <1>3, <1>4, <1>5

(***************************************************************************)
(* What one stream's share of an update of a function of both is.          *)
(***************************************************************************)
Puts(f, s, v, g) == g = [f EXCEPT ![s] = v]

(***************************************************************************)
(* Giving one stream a new text leaves the texts of the others.            *)
(***************************************************************************)
LEMMA TextsFacts ==
    ASSUME NEW f \in Texts, NEW s \in O!Stream, NEW v \in Seq(Int), NEW g, Puts(f, s, v, g)
    PROVE  /\ g \in Texts
           /\ g[s] = v
           /\ \A t \in O!Stream : t # s => g[t] = f[t]
BY DEF Texts, Puts

(***************************************************************************)
(* Joining texts is associative.                                           *)
(***************************************************************************)
LEMMA TextsJoin ==
    \A x, y, z \in Seq(Int) : /\ (x \o y) \o z = x \o (y \o z)
                             /\ x \o y \in Seq(Int) /\ Len(x \o y) = Len(x) + Len(y)
<1>1. \A x, y, z \in Seq(Int) : (x \o y) \o z = x \o (y \o z)
    BY ConcatAssociative, SMTT(30)
<1>2. \A x, y \in Seq(Int) : x \o y \in Seq(Int) /\ Len(x \o y) = Len(x) + Len(y)
    BY ConcatProperties
<1> QED BY <1>1, <1>2

(***************************************************************************)
(* Storing a directive's text: buf and put grow by the same.               *)
(***************************************************************************)
Stores(v) ==
    /\ job \in Job /\ smode = "ok" /\ O!Store(v, v) /\ UNCHANGED written
    /\ job' \in Job /\ job'.s = job.s /\ job'.start = job.start /\ job'.from = job.from

(***************************************************************************)
(* A directive that stores through _ptr what it is meant to print keeps    *)
(* the invariant, also where it runs over the end of the buffer and stdio  *)
(* is stopped.                                                             *)
(***************************************************************************)
LEMMA StoreKeeps ==
    ASSUME StdioInv, NEW v \in Seq(Int), Stores(v)
    PROVE  StdioInv'
<1>c. job \in Job /\ job' \in Job
    BY DEF Stores
<1>d. smode = "ok" /\ written' = written
    BY DEF Stores
<1>e. job'.s = job.s /\ job'.start = job.start /\ job'.from = job.from
    BY DEF Stores
<1>0. PICK t \in O!Stream : t = job.s
    BY <1>c, JobFields
<1>a. buf \in Texts /\ written \in Texts /\ put \in Texts
    BY DEF StdioInv
<1>1. buf[t] \in Seq(Int) /\ written[t] \in Seq(Int) /\ put[t] \in Seq(Int)
    BY <1>a DEF Texts
<1>2. /\ buf[t] \o v \in Seq(Int) /\ put[t] \o v \in Seq(Int)
      /\ Len(buf[t] \o v) = Len(buf[t]) + Len(v) /\ Len(put[t] \o v) = Len(put[t]) + Len(v)
    BY <1>1, ConcatProperties
<1>b. PICK nb \in Seq(Int), np \in Seq(Int) : nb = buf[t] \o v /\ np = put[t] \o v
    BY <1>2
<1>3. /\ buf' = [buf EXCEPT ![t] = nb]
      /\ put' = [put EXCEPT ![t] = np]
      /\ smode' = IF Len(buf'[t]) > O!Size[t] THEN "overrun" ELSE smode
    BY <1>0, <1>b DEF Stores, O!Store
<1>4. /\ buf' \in Texts /\ buf'[t] = buf[t] \o v
      /\ \A s \in O!Stream : s # t => buf'[s] = buf[s]
    <2>1. Puts(buf, t, nb, buf')
        BY <1>3 DEF Puts
    <2>2. /\ buf' \in Texts /\ buf'[t] = nb
          /\ \A s \in O!Stream : s # t => buf'[s] = buf[s]
        BY <1>a, <2>1, TextsFacts
    <2> QED BY <1>b, <2>2
<1>5. /\ put' \in Texts /\ put'[t] = put[t] \o v
      /\ \A s \in O!Stream : s # t => put'[s] = put[s]
    <2>1. Puts(put, t, np, put')
        BY <1>3 DEF Puts
    <2>2. /\ put' \in Texts /\ put'[t] = np
          /\ \A s \in O!Stream : s # t => put'[s] = put[s]
        BY <1>a, <2>1, TextsFacts
    <2> QED BY <1>b, <2>2
<1>6. written' \in Texts /\ written' = written
    BY <1>a, <1>d
<1>7. CASE smode' # "ok"
    BY <1>c, <1>4, <1>5, <1>6, <1>7, StoppedKeeps
<1>8. CASE smode' = "ok"
    <2>1. \A s \in O!Stream : Kept(s) /\ (job.s # s => Clean(s))
        BY <1>d DEF StdioInv, StreamsInv
    <2>2. Len(buf'[t]) <= O!Size[t]
        <3>1. ~(Len(buf'[t]) > O!Size[t])
            BY <1>3, <1>8, <1>d
        <3>2. Len(buf'[t]) \in Nat /\ O!Size[t] \in Nat
            <4>1. O!Size[t] \in Nat
                BY OutputAssumption DEF O!StdioAssumption, O!Size, O!Stream
            <4> QED BY <1>2, <1>4, <4>1
        <3> QED BY <3>1, <3>2
    <2>3. written[t] \o (buf[t] \o v) = (written[t] \o buf[t]) \o v
        <3>1. PICK x \in Seq(Int), y \in Seq(Int) : x = written[t] /\ y = buf[t]
            BY <1>1
        <3>2. (x \o y) \o v = x \o (y \o v)
            BY TextsJoin, SMTT(30)
        <3> QED BY <3>1, <3>2
    <2>4. Kept(t)'
        BY <1>4, <1>5, <1>6, <2>1, <2>2, <2>3 DEF Kept
    <2>5. \A s \in O!Stream : s # t => Kept(s)' /\ Clean(s)'
        <3>1. ASSUME NEW s \in O!Stream, s # t PROVE Kept(s)' /\ Clean(s)'
            <4>1. buf'[s] = buf[s] /\ put'[s] = put[s] /\ written'[s] = written[s]
                BY <1>4, <1>5, <1>6, <3>1
            <4>2. Kept(s) /\ Clean(s)
                BY <1>0, <2>1, <3>1
            <4>3. s = "stdout" \/ s = "stderr"
                BY DEF O!Stream
            <4>4. CASE s = "stdout"
                BY <4>1, <4>2, <4>4 DEF Kept, Clean
            <4>5. CASE s = "stderr"
                BY <4>1, <4>2, <4>5 DEF Kept, Clean
            <4> QED BY <4>3, <4>4, <4>5
        <3> QED BY <3>1
    <2>6. StreamsInv'
        BY <1>0, <1>e, <2>4, <2>5 DEF StreamsInv
    <2>7. Len(buf'[t]) - job.start = Len(put'[t]) - job.from
        <3>1. Len(buf[t]) - job.start = Len(put[t]) - job.from
            BY <1>c, <1>d, <1>0, JobFields DEF StdioInv, JobInv
        <3>2. PICK x \in Nat, y \in Nat, z \in Nat, a \in Nat, b \in Nat :
                 x = Len(buf[t]) /\ y = Len(put[t]) /\ z = Len(v) /\ a = job.start /\ b = job.from
            <4>1. Len(buf[t]) \in Nat /\ Len(put[t]) \in Nat /\ Len(v) \in Nat
                BY <1>1
            <4>2. job.start \in Nat /\ job.from \in Nat
                BY <1>c, JobFields
            <4> QED BY <4>1, <4>2
        <3>3. x - a = y - b
            BY <3>1, <3>2
        <3>4. (x + z) - a = (y + z) - b
            BY <3>3
        <3> QED BY <1>2, <1>4, <1>5, <3>2, <3>4
    <2>8. JobInv'
        BY <1>0, <1>c, <1>e, <2>7 DEF JobInv
    <2> QED BY <1>4, <1>5, <1>6, <2>6, <2>8 DEF StdioInv
<1> QED BY <1>7, <1>8

(***************************************************************************)
(* A step of one stream that leaves it clean and no call under way.        *)
(***************************************************************************)
StreamStep(t, b, v, p) ==
    /\ smode = "ok" /\ smode' = "ok" /\ job.s \in {"none", t} /\ job' = O!Idle
    /\ Puts(buf, t, b, buf') /\ Puts(written, t, v, written') /\ Puts(put, t, p, put')

Leaves(t, b, v, p) ==
    /\ v \o b = p /\ Len(b) <= O!Size[t]
    /\ IF t = "stdout" THEN O!NEWLINE \notin O!Range(b) ELSE b = <<>>

(***************************************************************************)
(* A step that moves characters of one stream keeps the invariant, if the  *)
(* characters written and the ones still buffered are together what was    *)
(* printed.                                                                *)
(***************************************************************************)
LEMMA StreamKeeps ==
    ASSUME StdioInv, NEW t \in O!Stream, NEW b \in Seq(Int), NEW v \in Seq(Int), NEW p \in Seq(Int),
           StreamStep(t, b, v, p), Leaves(t, b, v, p)
    PROVE  StdioInv'
<1>1. smode = "ok" /\ smode' = "ok" /\ job.s \in {"none", t} /\ job' = O!Idle
    BY DEF StreamStep
<1>2. buf \in Texts /\ written \in Texts /\ put \in Texts
    BY DEF StdioInv
<1>3. buf' \in Texts /\ buf'[t] = b /\ \A s \in O!Stream : s # t => buf'[s] = buf[s]
    <2>1. Puts(buf, t, b, buf')
        BY DEF StreamStep
    <2> QED BY <1>2, <2>1, TextsFacts
<1>4. written' \in Texts /\ written'[t] = v /\ \A s \in O!Stream : s # t => written'[s] = written[s]
    <2>1. Puts(written, t, v, written')
        BY DEF StreamStep
    <2> QED BY <1>2, <2>1, TextsFacts
<1>5. put' \in Texts /\ put'[t] = p /\ \A s \in O!Stream : s # t => put'[s] = put[s]
    <2>1. Puts(put, t, p, put')
        BY DEF StreamStep
    <2> QED BY <1>2, <2>1, TextsFacts
<1>6. Kept(t)'
    BY <1>3, <1>4, <1>5 DEF Kept, Leaves
<1>7. Clean(t)'
    <2>1. CASE t = "stdout"
        BY <1>3, <2>1 DEF Clean, Leaves
    <2>2. CASE t # "stdout"
        <3>1. t = "stderr"
            BY <2>2 DEF O!Stream
        <3> QED BY <1>3, <2>2, <3>1 DEF Clean, Leaves
    <2> QED BY <2>1, <2>2
<1>8. ASSUME NEW s \in O!Stream, s # t PROVE Kept(s)' /\ Clean(s)'
    <2>1. Kept(s) /\ Clean(s)
        <3>1. job.s # s
            BY <1>1, <1>8 DEF O!Stream
        <3> QED BY <1>1, <3>1 DEF StdioInv, StreamsInv
    <2>2. buf'[s] = buf[s] /\ put'[s] = put[s] /\ written'[s] = written[s]
        BY <1>3, <1>4, <1>5, <1>8
    <2>3. s = "stdout" \/ s = "stderr"
        BY DEF O!Stream
    <2>4. CASE s = "stdout"
        BY <2>1, <2>2, <2>4 DEF Kept, Clean
    <2>5. CASE s = "stderr"
        BY <2>1, <2>2, <2>5 DEF Kept, Clean
    <2> QED BY <2>3, <2>4, <2>5
<1>9. StreamsInv'
    BY <1>6, <1>7, <1>8 DEF StreamsInv
<1> QED BY <1>1, <1>3, <1>4, <1>5, <1>9 DEF StdioInv, JobInv

(***************************************************************************)
(* An empty buffer is within its bounds and clean.                         *)
(***************************************************************************)
LEMMA EmptyLeaves ==
    ASSUME NEW t \in O!Stream, NEW v \in Seq(Int)
    PROVE  Leaves(t, <<>>, v, v)
<1>1. v \o <<>> = v
    BY ConcatEmptySeq
<1>2. Len(<<>>) <= O!Size[t]
    <2>1. O!Size[t] \in Nat
        BY OutputAssumption DEF O!StdioAssumption, O!Size, O!Stream
    <2> QED BY <2>1
<1>3. O!Range(<<>>) = {}
    BY DEF O!Range
<1> QED BY <1>1, <1>2, <1>3 DEF Leaves

(***************************************************************************)
(* Of one stream, whose texts are b, v and p.                              *)
(***************************************************************************)
LEMMA OneStream ==
    ASSUME StdioInv, smode = "ok", NEW t \in O!Stream
    PROVE  /\ buf[t] \in Seq(Int) /\ written[t] \in Seq(Int) /\ put[t] \in Seq(Int)
           /\ written[t] \o buf[t] = put[t]
           /\ Len(buf[t]) <= O!Size[t]
           /\ job.s # t => Clean(t)
<1>1. buf[t] \in Seq(Int) /\ written[t] \in Seq(Int) /\ put[t] \in Seq(Int)
    BY DEF StdioInv, Texts
<1>2. Kept(t) /\ (job.s # t => Clean(t))
    BY DEF StdioInv, StreamsInv
<1> QED BY <1>1, <1>2 DEF Kept

(***************************************************************************)
(* fputc keeps the invariant, with the flush of a full buffer and the one  *)
(* at the end of a line.                                                   *)
(***************************************************************************)
LEMMA FputcKeeps ==
    ASSUME StdioInv, NEW t \in O!Stream, NEW c \in Int, O!fputc(t, c)
    PROVE  StdioInv'
<1>1. job = O!Idle /\ smode = "ok" /\ smode' = "ok" /\ job' = O!Idle
    BY DEF O!fputc
<1>2. job.s = "none" /\ job.s # t
    BY <1>1 DEF O!Idle, O!Stream
<1>3. PICK b \in Seq(Int), v \in Seq(Int), p \in Seq(Int) :
         b = buf[t] /\ v = written[t] /\ p = put[t] /\ v \o b = p
    BY <1>1, OneStream
<1>4. Clean(t)
    BY <1>1, <1>2, OneStream
<1>5. PICK d \in Seq(Int) : d = <<c>> /\ Len(d) = 1
    <2>1. <<c>> \in Seq(Int) /\ Len(<<c>>) = 1
        OBVIOUS
    <2> QED BY <2>1
<1>6. \A x \in Seq(Int) : Append(x, c) = x \o d
    BY <1>5, AppendIsConcat
<1>7. Puts(put, t, p \o d, put')
    BY <1>3, <1>6 DEF O!fputc, Puts
<1>8. v \o (b \o d) = p \o d /\ b \o d \in Seq(Int) /\ p \o d \in Seq(Int)
    <2>1. (v \o b) \o d = v \o (b \o d)
        BY TextsJoin
    <2>2. b \o d \in Seq(Int) /\ p \o d \in Seq(Int)
        BY TextsJoin
    <2> QED BY <1>3, <2>1, <2>2
<1>9. CASE O!Buffered(t, c)
    <2>1. Puts(buf, t, b \o d, buf') /\ written' = written
        BY <1>3, <1>6, <1>9 DEF O!fputc, Puts
    <2>2. written \in Texts
        BY DEF StdioInv
    <2>3. Puts(written, t, v, written')
        BY <1>3, <2>1, <2>2 DEF Puts, Texts
    <2>4. Len(b) < O!Size[t] /\ c # O!NEWLINE
        BY <1>3, <1>9 DEF O!Buffered
    <2>5. t = "stdout" /\ O!Size[t] \in Nat
        <3>1. Len(b) \in Nat /\ O!Size["stderr"] = 0 /\ O!Size["stdout"] \in Nat
            BY OutputAssumption DEF O!StdioAssumption, O!Size
        <3>2. t = "stdout" \/ t = "stderr"
            BY DEF O!Stream
        <3> QED BY <2>4, <3>1, <3>2
    <2>6. Len(b \o d) <= O!Size[t]
        <3>1. Len(b \o d) = Len(b) + 1 /\ Len(b) \in Nat
            BY <1>5, TextsJoin
        <3> QED BY <2>4, <2>5, <3>1
    <2>7. O!NEWLINE \notin O!Range(b \o d)
        <3>1. O!NEWLINE \notin O!Range(b)
            BY <1>3, <1>4, <2>5 DEF Clean
        <3>2. /\ DOMAIN (b \o d) = 1..(Len(b) + 1)
              /\ \A i \in 1..(Len(b) + 1) : (b \o d)[i] = IF i <= Len(b) THEN b[i] ELSE c
            <4>1. b \o d = Append(b, c)
                BY <1>6
            <4>2. /\ Append(b, c) \in Seq(Int) /\ Len(Append(b, c)) = Len(b) + 1
                  /\ \A i \in 1..Len(b) : Append(b, c)[i] = b[i]
                  /\ Append(b, c)[Len(b) + 1] = c
                BY AppendProperties
            <4>3. \A i \in 1..(Len(b) + 1) : i <= Len(b) => i \in 1..Len(b)
                OBVIOUS
            <4>4. \A i \in 1..(Len(b) + 1) : ~(i <= Len(b)) => i = Len(b) + 1
                OBVIOUS
            <4> QED BY <4>1, <4>2, <4>3, <4>4
        <3>3. \A i \in 1..(Len(b) + 1) : i <= Len(b) => i \in DOMAIN b
            OBVIOUS
        <3>4. \A i \in DOMAIN b : b[i] # O!NEWLINE
            BY <3>1 DEF O!Range
        <3>5. \A i \in DOMAIN (b \o d) : (b \o d)[i] # O!NEWLINE
            BY <2>4, <3>2, <3>3, <3>4
        <3> QED BY <3>5 DEF O!Range
    <2>8. Leaves(t, b \o d, v, p \o d)
        BY <1>8, <2>5, <2>6, <2>7 DEF Leaves
    <2>9. StreamStep(t, b \o d, v, p \o d)
        BY <1>1, <1>2, <1>7, <2>1, <2>3 DEF StreamStep
    <2> QED BY <1>8, <2>8, <2>9, StreamKeeps
<1>10. CASE ~O!Buffered(t, c)
    <2>1. O!overflow(t, c)
        BY <1>10 DEF O!fputc
    <2>2. Puts(written, t, (v \o b) \o d, written') /\ Puts(buf, t, <<>>, buf')
        BY <1>3, <1>5, <2>1 DEF O!overflow, Puts
    <2>3. (v \o b) \o d = p \o d
        BY <1>3
    <2>4. Leaves(t, <<>>, p \o d, p \o d)
        BY <1>8, EmptyLeaves
    <2>5. StreamStep(t, <<>>, p \o d, p \o d)
        BY <1>1, <1>2, <1>7, <2>2, <2>3 DEF StreamStep
    <2>6. <<>> \in Seq(Int)
        OBVIOUS
    <2> QED BY <1>8, <2>4, <2>5, <2>6, StreamKeeps
<1> QED BY <1>9, <1>10

(***************************************************************************)
(* A flush, between calls and at the end of one.                           *)
(***************************************************************************)
Flushes(t) ==
    /\ smode = "ok" /\ smode' = "ok" /\ job.s \in {"none", t} /\ job' = O!Idle
    /\ O!fflush(t) /\ UNCHANGED put

(***************************************************************************)
(* fflush keeps the invariant and writes exactly what the buffer held.     *)
(***************************************************************************)
LEMMA FlushKeeps ==
    ASSUME StdioInv, NEW t \in O!Stream, Flushes(t)
    PROVE  StdioInv' /\ Len(written'[t]) - Len(written[t]) = Len(buf[t])
<1>1. smode = "ok" /\ smode' = "ok" /\ job.s \in {"none", t} /\ job' = O!Idle
    BY DEF Flushes
<1>2. PICK b \in Seq(Int), v \in Seq(Int), p \in Seq(Int) :
         b = buf[t] /\ v = written[t] /\ p = put[t] /\ v \o b = p
    BY <1>1, OneStream
<1>3. Puts(written, t, p, written') /\ Puts(buf, t, <<>>, buf')
    BY <1>2 DEF Flushes, O!fflush, Puts
<1>4. Puts(put, t, p, put')
    <2>1. put \in Texts /\ put' = put
        BY DEF StdioInv, Flushes
    <2> QED BY <1>2, <2>1 DEF Puts, Texts
<1>5. Leaves(t, <<>>, p, p)
    BY EmptyLeaves
<1>6. StreamStep(t, <<>>, p, p)
    BY <1>1, <1>3, <1>4 DEF StreamStep
<1>7. <<>> \in Seq(Int)
    OBVIOUS
<1>8. StdioInv'
    BY <1>5, <1>6, <1>7, StreamKeeps
<1>9. written'[t] = p
    <2>1. written \in Texts
        BY DEF StdioInv
    <2> QED BY <1>3, <2>1, TextsFacts
<1>10. Len(p) = Len(v) + Len(b) /\ Len(v) \in Nat /\ Len(b) \in Nat
    <2>1. Len(v \o b) = Len(v) + Len(b)
        BY TextsJoin
    <2> QED BY <1>2, <2>1
<1> QED BY <1>2, <1>8, <1>9, <1>10

(***************************************************************************)
(* What ReturnsWritten says of a step.                                     *)
(***************************************************************************)
Tells ==
    /\ job # O!Idle /\ job' = O!Idle => ret' = Len(written'[job.s]) - Len(written[job.s])
    /\ count' # count => count' = Len(put[job.s]) - job.from

(***************************************************************************)
(* A call of fprintf that begins keeps the invariant.                      *)
(***************************************************************************)
LEMMA FprintfKeeps ==
    ASSUME StdioInv, NEW t \in O!Stream, O!fprintf(t)
    PROVE  StdioInv'
<1>1. /\ job = O!Idle /\ smode = "ok" /\ smode' = "ok"
      /\ buf' = buf /\ written' = written /\ put' = put
    BY DEF O!fprintf
<1>2. PICK x \in Nat, y \in Nat : x = Len(buf[t]) /\ y = Len(put[t])
    <2>1. buf[t] \in Seq(Int) /\ put[t] \in Seq(Int)
        BY <1>1, OneStream
    <2> QED BY <2>1
<1>3. job' = [s |-> t, base |-> 0, start |-> x, from |-> y]
    BY <1>2 DEF O!fprintf, O!UNSET
<1>4. job' \in Job /\ job'.s = t /\ job'.start = x /\ job'.from = y
    BY <1>3 DEF Job
<1>5. \A s \in O!Stream : Kept(s) /\ Clean(s)
    <2>1. \A s \in O!Stream : job.s # s
        BY <1>1 DEF O!Idle, O!Stream
    <2> QED BY <1>1, <2>1 DEF StdioInv, StreamsInv
<1>6. \A s \in O!Stream : Kept(s)' /\ Clean(s)'
    BY <1>1, <1>5 DEF Kept, Clean
<1>7. JobInv'
    <2>1. Len(buf'[t]) - x = Len(put'[t]) - y
        BY <1>1, <1>2
    <2> QED BY <1>4, <2>1 DEF JobInv
<1> QED BY <1>1, <1>6, <1>7 DEF StdioInv, StreamsInv

(***************************************************************************)
(* Directives of a format.                                                 *)
(***************************************************************************)
LEMMA DirectiveKeeps ==
    ASSUME StdioInv, O!Directive
    PROVE  StdioInv' /\ Tells
<1>1. job # O!Idle /\ smode = "ok" /\ job \in Job
    BY DEF O!Directive, StdioInv, JobInv
<1>2. job.s \in O!Stream /\ job.base \in {0, 16, 10, -10, 8, 2}
    BY <1>1, JobFields
<1>3. ASSUME NEW v \in Seq(Int), O!Store(v, v), UNCHANGED written, UNCHANGED count, job' \in Job,
             job'.s = job.s, job'.start = job.start, job'.from = job.from
      PROVE  StdioInv' /\ Tells
    <2>1. Stores(v)
        BY <1>1, <1>3 DEF Stores
    <2>2. StdioInv'
        BY <2>1, StoreKeeps
    <2>3. job' # O!Idle
        BY <1>3, JobFields
    <2> QED BY <1>3, <2>2, <2>3 DEF Tells
<1>4. ASSUME NEW v \in Seq(Int), O!Store(v, v), UNCHANGED <<written, job, ret, count>>
      PROVE  StdioInv' /\ Tells
    <2>1. job' \in Job /\ job' = job /\ written' = written /\ count' = count
        BY <1>1, <1>4
    <2> QED BY <1>3, <1>4, <2>1
<1>5. ASSUME NEW c \in {O!LETTER, O!PERCENT, O!NEWLINE}, O!Copied(c)
      PROVE  StdioInv' /\ Tells
    <2>1. c \in Int
        BY DEF O!LETTER, O!PERCENT, O!NEWLINE
    <2>2. <<c>> \in Seq(Int)
        BY <2>1
    <2> QED BY <1>4, <1>5, <2>2 DEF O!Copied
<1>6. ASSUME O!SoFar PROVE StdioInv' /\ Tells
    <2>1. /\ count' = Len(buf[job.s]) - job.start
          /\ buf' = buf /\ written' = written /\ put' = put /\ job' = job /\ smode' = smode
        BY <1>6 DEF O!SoFar
    <2>2. StdioInv'
        <3>1. StreamsInv' /\ JobInv'
            BY <2>1 DEF StdioInv, StreamsInv, JobInv, Kept, Clean
        <3> QED BY <2>1, <3>1 DEF StdioInv
    <2>3. Len(buf[job.s]) - job.start = Len(put[job.s]) - job.from
        BY <1>1 DEF StdioInv, JobInv
    <2> QED BY <1>1, <2>1, <2>2, <2>3 DEF Tells
<1>7. ASSUME NEW v \in {<<>>, <<O!LETTER, O!LETTER>>}, O!String(v) PROVE StdioInv' /\ Tells
    <2>1. O!LETTER \in Int
        BY DEF O!LETTER
    <2>2. \A c \in Int : <<c, c>> \in Seq(Int)
        OBVIOUS
    <2>3. <<>> \in Seq(Int)
        OBVIOUS
    <2>4. v \in Seq(Int)
        BY <2>1, <2>2, <2>3
    <2> QED BY <1>4, <1>7, <2>4 DEF O!String
<1>8. \A n \in Ints : n \in O!int
    BY OutputAssumption DEF O!StdioAssumption
<1>9. ASSUME NEW n \in Ints, O!Pointer(n) PROVE StdioInv' /\ Tells
    <2>1. 16 \in O!Bases /\ ~(16 < 0)
        BY DEF O!Bases
    <2>2. PICK s : s = O!itoa(n, 16) /\ s = O!Numeral(O!AsUnsigned(n), 16) /\ s \in Seq(Int)
        <3>1. Prints(O!itoa(n, 16), n, 16)
            BY <1>8, <2>1, OutputAssumption, ItoaPrints
        <3> QED BY <2>1, <3>1 DEF Prints
    <2>3. PICK z \in Seq(Int) : z = <<0, O!LETTERX>>
        <3>1. <<0, O!LETTERX>> \in Seq(Int)
            BY DEF O!LETTERX
        <3> QED BY <3>1
    <2>4. z \o s \in Seq(Int)
        BY <2>2, TextsJoin
    <2>5. O!Store(z \o s, z \o s) /\ UNCHANGED <<written, job, ret, count>>
        BY <1>9, <2>2, <2>3 DEF O!Pointer
    <2> QED BY <1>4, <2>4, <2>5
<1>10. ASSUME NEW n \in Ints, O!Unknown(n) PROVE StdioInv' /\ Tells
    <2>1. CASE /\ job.base = O!UNSET /\ smode' = "unset"
               /\ UNCHANGED <<buf, written, put, job, ret, count>>
        <3>1. /\ buf' = buf /\ written' = written /\ put' = put /\ job' = job /\ count' = count
              /\ smode' # "ok"
            BY <2>1
        <3>2. StdioInv'
            BY <1>1, <3>1, StoppedKeeps DEF StdioInv
        <3> QED BY <1>1, <3>1, <3>2 DEF Tells
    <2>2. CASE /\ job.base # O!UNSET /\ O!Store(O!itoa(n, job.base), O!itoa(n, job.base))
               /\ UNCHANGED <<written, job, ret, count>>
        <3>1. job.base \in O!Bases
            BY <1>2, <2>2 DEF O!UNSET, O!Bases
        <3>2. O!itoa(n, job.base) \in Seq(Int)
            BY <1>8, <3>1, OutputAssumption, ItoaPrints DEF Prints
        <3> QED BY <1>4, <2>2, <3>2
    <2> QED BY <1>10, <2>1, <2>2 DEF O!Unknown
<1>11. ASSUME NEW n \in Ints, NEW b \in O!Bases, O!Number(b, n) PROVE StdioInv' /\ Tells
    <2>1. PICK s : /\ s = O!itoa(n, b) /\ s \in Seq(Int)
                   /\ s = IF b < 0 THEN O!SignedNumeral(n, -b) ELSE O!Numeral(O!AsUnsigned(n), b)
        BY <1>8, OutputAssumption, ItoaPrints DEF Prints
    <2>2. O!Store(s, s) /\ job' = [job EXCEPT !.base = b] /\ written' = written /\ count' = count
        BY <1>11, <2>1 DEF O!Number
    <2>3. job' \in Job /\ job'.s = job.s /\ job'.start = job.start /\ job'.from = job.from
        BY <1>1, <2>2, JobFields
    <2> QED BY <1>3, <2>1, <2>2, <2>3
<1> QED BY <1>5, <1>6, <1>7, <1>9, <1>10, <1>11 DEF O!Directive

(***************************************************************************)
(* Every step of stdio keeps the invariant, and a call that returns a      *)
(* count returns what it wrote.                                            *)
(***************************************************************************)
LEMMA StdioKeeps ==
    ASSUME StdioInv, [O!Next]_(O!vars)
    PROVE  StdioInv' /\ [Tells]_(O!vars)
<1>1. CASE UNCHANGED O!vars
    <2>1. /\ buf' = buf /\ written' = written /\ put' = put /\ job' = job /\ smode' = smode
        BY <1>1 DEF O!vars
    <2>2. StreamsInv' /\ JobInv'
        BY <2>1 DEF StdioInv, StreamsInv, JobInv, Kept, Clean
    <2> QED BY <1>1, <2>1, <2>2 DEF StdioInv
<1>2. ASSUME NEW t \in O!Stream, O!fprintf(t) PROVE StdioInv' /\ Tells
    <2>1. job = O!Idle /\ count' = count
        BY <1>2 DEF O!fprintf
    <2> QED BY <1>2, <2>1, FprintfKeeps DEF Tells
<1>3. ASSUME NEW t \in O!Stream, O!Flush(t) PROVE StdioInv' /\ Tells
    <2>1. job = O!Idle /\ count' = count /\ job.s = "none"
        BY <1>3 DEF O!Flush, O!Idle
    <2>2. Flushes(t)
        BY <1>3, <2>1 DEF O!Flush, Flushes
    <2> QED BY <2>1, <2>2, FlushKeeps DEF Tells
<1>4. ASSUME NEW t \in O!Stream, NEW c \in {O!LETTER, O!NEWLINE}, O!fputc(t, c)
      PROVE  StdioInv' /\ Tells
    <2>1. job = O!Idle /\ count' = count
        BY <1>4 DEF O!fputc
    <2>2. c \in Int
        BY DEF O!LETTER, O!NEWLINE
    <2> QED BY <1>4, <2>1, <2>2, FputcKeeps DEF Tells
<1>5. ASSUME O!printf PROVE StdioInv' /\ Tells
    <2>1. "stdout" \in O!Stream /\ O!fprintf("stdout")
        BY <1>5 DEF O!printf, O!Stream
    <2> QED BY <1>2, <2>1
<1>6. ASSUME O!Directive PROVE StdioInv' /\ Tells
    BY <1>6, DirectiveKeeps
<1>7. ASSUME O!Finish PROVE StdioInv' /\ Tells
    <2>1. job # O!Idle /\ smode = "ok" /\ job \in Job
        BY <1>7 DEF O!Finish, StdioInv, JobInv
    <2>2. PICK t \in O!Stream : t = job.s
        BY <2>1, JobFields
    <2>3. Flushes(t) /\ ret' = Len(buf[t]) /\ count' = count
        BY <1>7, <2>2 DEF O!Finish, O!Count, Flushes
    <2>4. StdioInv' /\ Len(written'[t]) - Len(written[t]) = Len(buf[t])
        BY <2>3, FlushKeeps
    <2> QED BY <2>2, <2>3, <2>4 DEF Tells
<1>8. ASSUME O!AssertFail PROVE StdioInv' /\ Tells
    <2>1. /\ buf' = buf /\ written' = written /\ put' = put /\ job' = job /\ count' = count
          /\ smode' # "ok" /\ job = O!Idle
        BY <1>8 DEF O!AssertFail
    <2>2. StdioInv'
        BY <2>1, StoppedKeeps DEF StdioInv
    <2> QED BY <2>1, <2>2 DEF Tells
<1>9. CASE O!Next
    BY <1>1, <1>2, <1>3, <1>4, <1>5, <1>6, <1>7, <1>8, <1>9 DEF O!Next, O!Stopped
<1> QED BY <1>1, <1>9

(***************************************************************************)
(* Nothing is buffered at the start.                                       *)
(***************************************************************************)
LEMMA StdioBegins ==
    ASSUME O!Init
    PROVE  StdioInv
<1>1. \A s \in O!Stream : buf[s] = <<>> /\ written[s] = <<>> /\ put[s] = <<>>
    BY DEF O!Init
<1>2. buf \in Texts /\ written \in Texts /\ put \in Texts
    <2>1. <<>> \in Seq(Int)
        OBVIOUS
    <2> QED BY <2>1 DEF O!Init, Texts
<1>3. \A s \in O!Stream : Leaves(s, <<>>, <<>>, <<>>)
    <2>1. <<>> \in Seq(Int)
        OBVIOUS
    <2> QED BY <2>1, EmptyLeaves
<1>4. ASSUME NEW s \in O!Stream PROVE Kept(s) /\ Clean(s)
    <2>1. Kept(s)
        BY <1>1, <1>3 DEF Kept, Leaves
    <2>2. s = "stdout" \/ s = "stderr"
        BY DEF O!Stream
    <2>3. Clean(s)
        BY <1>1, <1>3, <2>2 DEF Clean, Leaves
    <2> QED BY <2>1, <2>3
<1>5. job = O!Idle
    BY DEF O!Init
<1> QED BY <1>2, <1>4, <1>5 DEF StdioInv, StreamsInv, JobInv

(***************************************************************************)
(* The invariant gives what OutputRight says.                              *)
(***************************************************************************)
LEMMA StdioRight ==
    ASSUME StdioInv
    PROVE  O!OutputRight
<1>1. O!InOrder
    BY DEF O!InOrder, StdioInv, StreamsInv, Kept
<1>2. O!WithinBuffer
    BY DEF O!WithinBuffer, StdioInv, StreamsInv, Kept
<1>3. O!LineBuffered
    <2>1. ASSUME job = O!Idle, smode = "ok"
          PROVE  O!NEWLINE \notin O!Range(buf["stdout"]) /\ buf["stderr"] = <<>>
        <3>1. job.s = "none" /\ "stdout" \in O!Stream /\ "stderr" \in O!Stream
            BY <2>1 DEF O!Idle, O!Stream
        <3>2. Clean("stdout") /\ Clean("stderr")
            BY <2>1, <3>1 DEF StdioInv, StreamsInv
        <3> QED BY <3>2 DEF Clean
    <2> QED BY <2>1 DEF O!LineBuffered
<1>4. O!NumbersFit
    <2> SUFFICES ASSUME job.base # O!UNSET, NEW n \in O!int
                 PROVE  Len(O!itoa(n, job.base)) + 1 <= Width + 1
        BY DEF O!NumbersFit, O!StaticSize
    <2>1. job # O!Idle
        BY DEF O!Idle, O!UNSET
    <2>2. job.base \in O!Bases
        <3>1. job.base \in {0, 16, 10, -10, 8, 2}
            BY <2>1, JobFields DEF StdioInv, JobInv
        <3> QED BY <3>1 DEF O!UNSET, O!Bases
    <2>3. O!itoa(n, job.base) \in Seq(Int) /\ Len(O!itoa(n, job.base)) <= Width
        BY <2>2, OutputAssumption, ItoaPrints DEF Prints
    <2>4. Width \in Nat
        BY OutputAssumption DEF O!WidthAssumption
    <2> QED BY <2>3, <2>4
<1> QED BY <1>1, <1>2, <1>3, <1>4 DEF O!OutputRight

(***************************************************************************)
(* stdio: output is complete, in order and on time; vfprintf stores no     *)
(* number that its array does not hold.                                    *)
(***************************************************************************)
THEOREM OutputRightAlways == O!Spec => []OutputRight
<1>1. O!Init => StdioInv
    BY StdioBegins
<1>2. StdioInv /\ [O!Next]_(O!vars) => StdioInv'
    BY StdioKeeps
<1>3. StdioInv => OutputRight
    BY StdioRight DEF OutputRight
<1> QED BY <1>1, <1>2, <1>3, PTL DEF O!Spec

(***************************************************************************)
(* vfprintf returns what it gave to write, and %n counts the call alone.   *)
(***************************************************************************)
THEOREM ReturnsWrittenAlways == O!Spec => ReturnsWritten
<1>1. O!Init => StdioInv
    BY StdioBegins
<1>2. StdioInv /\ [O!Next]_(O!vars) => StdioInv'
    BY StdioKeeps
<1>3. StdioInv /\ [O!Next]_(O!vars) => [Tells]_(O!vars)
    BY StdioKeeps
<1> QED BY <1>1, <1>2, <1>3, PTL DEF O!Spec, O!ReturnsWritten, ReturnsWritten, Tells
-----------------------------------------------------------------------------
(***************************************************************************)
(* Memory and string routines.                                             *)
(***************************************************************************)
Memories == [M!Addr -> Byte]
HighAddr == 2 * Half - 1

(***************************************************************************)
(* The addresses of the routines' memory are the numbers up to a highest   *)
(* one.                                                                    *)
(***************************************************************************)
LEMMA AddrFacts ==
    /\ HighAddr \in Nat /\ M!Addr = 0..HighAddr
    /\ \A a : a \in M!Addr <=> a \in Nat /\ a <= HighAddr
<1>1. Half \in Nat \ {0}
    BY RoutinesAssumption DEF M!StringsAssumption
<1>2. HighAddr \in Nat
    BY <1>1 DEF HighAddr
<1>3. M!Addr = 0..HighAddr
    BY DEF M!Addr, HighAddr
<1>4. \A a : a \in 0..HighAddr <=> a \in Nat /\ a <= HighAddr
    BY <1>2
<1> QED BY <1>2, <1>3, <1>4

(***************************************************************************)
(* Bytes are numbers below 256, 0 among them.                              *)
(***************************************************************************)
LEMMA ByteFacts == /\ M!NUL = 0 /\ 0 \in Byte
                   /\ \A b \in Byte : b \in Nat /\ b <= 255
<1>1. Byte \subseteq 0..255 /\ M!NUL \in Byte
    BY RoutinesAssumption DEF M!StringsAssumption
<1>2. M!NUL = 0
    BY DEF M!NUL
<1>3. \A b \in 0..255 : b \in Nat /\ b <= 255
    OBVIOUS
<1> QED BY <1>1, <1>2, <1>3

(***************************************************************************)
(* The least element of a set of numbers that is not empty.                *)
(***************************************************************************)
LEMMA LeastOf ==
    ASSUME NEW U \in SUBSET Nat, U # {}
    PROVE  M!Min(U) \in U /\ M!Min(U) \in Nat /\ \A y \in U : M!Min(U) <= y
<1>1. \E x \in U : \A y \in U : x <= y
    BY NatMin
<1>2. M!Min(U) \in U /\ \A y \in U : M!Min(U) <= y
    BY <1>1 DEF M!Min
<1> QED BY <1>2

(***************************************************************************)
(* The least of two numbers.                                               *)
(***************************************************************************)
LEMMA LeastOfTwo ==
    ASSUME NEW a \in Nat, NEW b \in Nat
    PROVE  M!Min({a, b}) = (IF a <= b THEN a ELSE b)
<1>1. {a, b} \in SUBSET Nat /\ {a, b} # {}
    OBVIOUS
<1>2. M!Min({a, b}) \in {a, b} /\ \A y \in {a, b} : M!Min({a, b}) <= y
    BY <1>1, LeastOf
<1> QED BY <1>2

(***************************************************************************)
(* A copy of n bytes: all of them are memory.                              *)
(***************************************************************************)
InMemory(m, d, s, n) ==
    /\ m \in Memories /\ d \in Nat /\ s \in Nat /\ n \in Nat
    /\ d + n <= HighAddr + 1 /\ s + n <= HighAddr + 1

InReach(d, s, n, k) ==
    /\ (d + k) - 1 \in M!Addr /\ (s + k) - 1 \in M!Addr
    /\ (d + n) - k \in M!Addr /\ (s + n) - k \in M!Addr

(***************************************************************************)
(* The kth byte of a span in memory, counted from either end, is in        *)
(* memory.                                                                 *)
(***************************************************************************)
LEMMA PassFacts ==
    ASSUME NEW m, NEW d \in Nat, NEW s \in Nat, NEW n \in Nat, InMemory(m, d, s, n), NEW k \in 1..n
    PROVE  InReach(d, s, n, k)
<1>1. HighAddr \in Nat /\ \A a : a \in M!Addr <=> a \in Nat /\ a <= HighAddr
    BY AddrFacts
<1>2. d \in Nat /\ s \in Nat /\ n \in Nat /\ d + n <= HighAddr + 1 /\ s + n <= HighAddr + 1
    BY DEF InMemory
<1>3. /\ (d + k) - 1 \in Nat /\ (d + k) - 1 <= HighAddr
      /\ (s + k) - 1 \in Nat /\ (s + k) - 1 <= HighAddr
      /\ (d + n) - k \in Nat /\ (d + n) - k <= HighAddr
      /\ (s + n) - k \in Nat /\ (s + n) - k <= HighAddr
    BY <1>1, <1>2
<1> QED BY <1>1, <1>3 DEF InReach

(***************************************************************************)
(* The loops of rep movsb, as the courses they take.                       *)
(***************************************************************************)
IsUp(g, m, d, s, n) ==
    g = [k \in 0..n |-> IF k = 0 THEN m
                        ELSE [g[k - 1] EXCEPT ![d + k - 1] = g[k - 1][s + k - 1]]]
IsDown(g, m, d, s, n) ==
    g = [k \in 0..n |-> IF k = 0 THEN m
                        ELSE [g[k - 1] EXCEPT ![d + n - k] = g[k - 1][s + n - k]]]

(***************************************************************************)
(* Storing one byte leaves a memory, changed at that address only.         *)
(***************************************************************************)
LEMMA MemoryPut ==
    ASSUME NEW f \in Memories, NEW a \in M!Addr, NEW b \in M!Addr
    PROVE  /\ [f EXCEPT ![a] = f[b]] \in Memories
           /\ [f EXCEPT ![a] = f[b]][a] = f[b]
           /\ \A c \in M!Addr : c # a => [f EXCEPT ![a] = f[b]][c] = f[c]
BY DEF Memories

(***************************************************************************)
(* The copy from the first byte on has a state of the memory after each of *)
(* its bytes.                                                              *)
(***************************************************************************)
LEMMA UpRuns ==
    ASSUME NEW m, NEW d \in Nat, NEW s \in Nat, NEW n \in Nat, InMemory(m, d, s, n)
    PROVE  \E g : IsUp(g, m, d, s, n)
<1> DEFINE step == [k \in 1..n |-> [f \in Memories |-> [f EXCEPT ![d + k - 1] = f[s + k - 1]]]]
<1>0. m \in Memories /\ n \in Nat
    BY DEF InMemory
<1>1. ASSUME NEW k \in 1..n, NEW f \in Memories
      PROVE  [f EXCEPT ![d + k - 1] = f[s + k - 1]] \in Memories
    <2>1. d + k - 1 \in M!Addr /\ s + k - 1 \in M!Addr
        <3>1. InReach(d, s, n, k)
            BY PassFacts
        <3> QED BY <3>1 DEF InReach
    <2>2. PICK x \in M!Addr, y \in M!Addr : x = d + k - 1 /\ y = s + k - 1
        BY <2>1
    <2>3. [f EXCEPT ![x] = f[y]] \in Memories
        BY MemoryPut
    <2> QED BY <2>2, <2>3
<1>2. step \in [1..n -> [Memories -> Memories]]
    BY <1>1
<1>3. PICK g \in [0..n -> Memories] : g[0] = m /\ \A k \in 1..n : g[k] = step[k][g[k - 1]]
    <2> HIDE DEF step
    <2>1. IsLoop(n, Memories, m, step)
        BY <1>0, <1>2 DEF IsLoop
    <2>2. HasCourse(n, Memories, m, step)
        BY <2>1, LoopRuns
    <2> QED BY <2>2 DEF HasCourse
<1>4. ASSUME NEW k \in 0..n
      PROVE  g[k] = IF k = 0 THEN m ELSE [g[k - 1] EXCEPT ![d + k - 1] = g[k - 1][s + k - 1]]
    <2>1. CASE k = 0
        BY <1>3, <2>1
    <2>2. CASE k # 0
        <3>1. k \in 1..n /\ k - 1 \in 0..n
            BY <1>0, <2>2
        <3>2. PICK f \in Memories : f = g[k - 1]
            BY <1>3, <3>1
        <3>3. g[k] = step[k][f]
            BY <1>3, <3>1, <3>2
        <3>4. step[k][f] = [f EXCEPT ![d + k - 1] = f[s + k - 1]]
            BY <3>1
        <3> HIDE DEF step
        <3> QED BY <2>2, <3>2, <3>3, <3>4
    <2> QED BY <2>1, <2>2
<1>5. g = [k \in 0..n |-> g[k]]
    BY <1>3
<1> HIDE DEF step
<1>6. IsUp(g, m, d, s, n)
    BY <1>4, <1>5 DEF IsUp
<1> QED BY <1>6

(***************************************************************************)
(* The copy from the last byte back has a state of the memory after each   *)
(* of its bytes.                                                           *)
(***************************************************************************)
LEMMA DownRuns ==
    ASSUME NEW m, NEW d \in Nat, NEW s \in Nat, NEW n \in Nat, InMemory(m, d, s, n)
    PROVE  \E g : IsDown(g, m, d, s, n)
<1> DEFINE step == [k \in 1..n |-> [f \in Memories |-> [f EXCEPT ![d + n - k] = f[s + n - k]]]]
<1>0. m \in Memories /\ n \in Nat
    BY DEF InMemory
<1>1. ASSUME NEW k \in 1..n, NEW f \in Memories
      PROVE  [f EXCEPT ![d + n - k] = f[s + n - k]] \in Memories
    <2>1. d + n - k \in M!Addr /\ s + n - k \in M!Addr
        <3>1. InReach(d, s, n, k)
            BY PassFacts
        <3> QED BY <3>1 DEF InReach
    <2>2. PICK x \in M!Addr, y \in M!Addr : x = d + n - k /\ y = s + n - k
        BY <2>1
    <2>3. [f EXCEPT ![x] = f[y]] \in Memories
        BY MemoryPut
    <2> QED BY <2>2, <2>3
<1>2. step \in [1..n -> [Memories -> Memories]]
    BY <1>1
<1>3. PICK g \in [0..n -> Memories] : g[0] = m /\ \A k \in 1..n : g[k] = step[k][g[k - 1]]
    <2> HIDE DEF step
    <2>1. IsLoop(n, Memories, m, step)
        BY <1>0, <1>2 DEF IsLoop
    <2>2. HasCourse(n, Memories, m, step)
        BY <2>1, LoopRuns
    <2> QED BY <2>2 DEF HasCourse
<1>4. ASSUME NEW k \in 0..n
      PROVE  g[k] = IF k = 0 THEN m ELSE [g[k - 1] EXCEPT ![d + n - k] = g[k - 1][s + n - k]]
    <2>1. CASE k = 0
        BY <1>3, <2>1
    <2>2. CASE k # 0
        <3>1. k \in 1..n /\ k - 1 \in 0..n
            BY <1>0, <2>2
        <3>2. PICK f \in Memories : f = g[k - 1]
            BY <1>3, <3>1
        <3>3. g[k] = step[k][f]
            BY <1>3, <3>1, <3>2
        <3>4. step[k][f] = [f EXCEPT ![d + n - k] = f[s + n - k]]
            BY <3>1
        <3> HIDE DEF step
        <3> QED BY <2>2, <3>2, <3>3, <3>4
    <2> QED BY <2>1, <2>2
<1>5. g = [k \in 0..n |-> g[k]]
    BY <1>3
<1> HIDE DEF step
<1>6. IsDown(g, m, d, s, n)
    BY <1>4, <1>5 DEF IsDown
<1> QED BY <1>6

(***************************************************************************)
(* What a copy has to come to: n bytes from s at d, and nothing else.      *)
(***************************************************************************)
IsCopy(r, m, d, s, n) ==
    /\ r \in Memories
    /\ \A a \in M!Addr : r[a] = IF d <= a /\ a < d + n THEN m[(s + a) - d] ELSE m[a]

(***************************************************************************)
(* The copy from the first byte on copies spans that lie apart.            *)
(***************************************************************************)
LEMMA CopyUpRight ==
    ASSUME NEW m, NEW d \in Nat, NEW s \in Nat, NEW n \in Nat, InMemory(m, d, s, n), d = s \/ M!Apart(d, s, n)
    PROVE  IsCopy(M!CopyUp(m, d, s, n), m, d, s, n)
<1> DEFINE done == CHOOSE g : IsUp(g, m, d, s, n)
<1>1. IsUp(done, m, d, s, n)
    BY UpRuns
<1>2. M!CopyUp(m, d, s, n) = done[n]
    BY DEF M!CopyUp, IsUp
<1> HIDE DEF done
<1>3. m \in Memories /\ d \in Nat /\ s \in Nat /\ n \in Nat
    BY DEF InMemory
<1>4. \A k \in 0..n : done[k] = IF k = 0 THEN m
                                ELSE [done[k - 1] EXCEPT ![d + k - 1] = done[k - 1][s + k - 1]]
    BY <1>1 DEF IsUp
<1>5. d = s \/ \A i \in 0..(n - 1), j \in 0..(n - 1) : d + i # s + j
    <2>1. ASSUME M!Apart(d, s, n), NEW i \in 0..(n - 1), NEW j \in 0..(n - 1), d + i = s + j PROVE FALSE
        <3>1. d + i \in M!Span(d, n) /\ s + j \in M!Span(s, n)
            BY <1>3 DEF M!Span
        <3> QED BY <2>1, <3>1 DEF M!Apart
    <2> QED BY <2>1
<1> DEFINE U == {k \in 0..n : IsCopy(done[k], m, d, s, k)}
<1>6. 0 \in U
    <2>0. 0 \in 0..n
        OBVIOUS
    <2>1. done[0] = m /\ 0 \in 0..n
        BY <1>4, <2>0
    <2>2. \A a \in M!Addr : ~(d <= a /\ a < d + 0)
        <3>1. \A a \in M!Addr : a \in Nat
            BY AddrFacts
        <3> QED BY <1>3, <3>1
    <2>3. IsCopy(m, m, d, s, 0)
        BY <1>3, <2>2 DEF IsCopy
    <2> QED BY <2>1, <2>3
<1>7. ASSUME NEW k \in 1..n, k - 1 \in U PROVE k \in U
    <2>1. k \in 0..n /\ k # 0
        BY <1>3
    <2>2. PICK f : f = done[k - 1] /\ IsCopy(f, m, d, s, k - 1)
        BY <1>7
    <2>3. PICK x \in M!Addr, y \in M!Addr : x = d + k - 1 /\ y = s + k - 1
        <3>1. d + k - 1 \in M!Addr /\ s + k - 1 \in M!Addr
            <4>1. InReach(d, s, n, k)
                BY PassFacts
            <4> QED BY <4>1 DEF InReach
        <3> QED BY <3>1
    <2>4. done[k] = [f EXCEPT ![x] = f[y]]
        BY <1>4, <2>1, <2>2, <2>3
    <2>5. f \in Memories
        BY <2>2 DEF IsCopy
    <2>6. f[y] = m[y]
        <3>1. ~(d <= y /\ y < d + (k - 1))
            <4> SUFFICES ASSUME d <= y, y < d + (k - 1) PROVE FALSE
                OBVIOUS
            <4>1. d # s
                BY <1>3, <2>3
            <4>2. PICK i \in 0..(n - 1) : y = d + i
                BY <1>3, <2>3
            <4>3. k - 1 \in 0..(n - 1) /\ y = s + (k - 1)
                BY <1>3, <2>3
            <4> QED BY <1>5, <4>1, <4>2, <4>3
        <3> QED BY <2>2, <3>1 DEF IsCopy
    <2>7. /\ done[k] \in Memories /\ done[k][x] = m[y]
          /\ \A c \in M!Addr : c # x => done[k][c] = f[c]
        BY <2>4, <2>5, <2>6, MemoryPut
    <2>8. ASSUME NEW a \in M!Addr
          PROVE  done[k][a] = IF d <= a /\ a < d + k THEN m[(s + a) - d] ELSE m[a]
        <3>0. a \in Nat
            BY AddrFacts
        <3>1. CASE a = x
            <4>1. d <= a /\ a < d + k /\ (s + a) - d = y
                BY <1>3, <2>3, <3>0, <3>1
            <4> QED BY <2>7, <3>1, <4>1
        <3>2. CASE a # x
            <4>1. (d <= a /\ a < d + k) <=> (d <= a /\ a < d + (k - 1))
                BY <1>3, <2>3, <3>0, <3>2
            <4>2. f[a] = IF d <= a /\ a < d + (k - 1) THEN m[(s + a) - d] ELSE m[a]
                BY <2>2 DEF IsCopy
            <4> QED BY <2>7, <3>2, <4>1, <4>2
        <3> QED BY <3>1, <3>2
    <2>9. IsCopy(done[k], m, d, s, k)
        BY <2>7, <2>8 DEF IsCopy
    <2> QED BY <2>1, <2>9
<1>8. U = 0..n
    <2>1. U \in SUBSET (0..n)
        OBVIOUS
    <2> HIDE DEF U
    <2> QED BY <1>3, <1>6, <1>7, <2>1, LoopKeeps
<1>9. n \in U
    BY <1>3, <1>8
<1> QED BY <1>2, <1>9

(***************************************************************************)
(* The copy from the last byte back copies spans that lie apart.           *)
(***************************************************************************)
LEMMA CopyDownRight ==
    ASSUME NEW m, NEW d \in Nat, NEW s \in Nat, NEW n \in Nat, InMemory(m, d, s, n), d = s \/ M!Apart(d, s, n)
    PROVE  IsCopy(M!CopyDown(m, d, s, n), m, d, s, n)
<1> DEFINE done == CHOOSE g : IsDown(g, m, d, s, n)
<1>1. IsDown(done, m, d, s, n)
    BY DownRuns
<1>2. M!CopyDown(m, d, s, n) = done[n]
    BY DEF M!CopyDown, IsDown
<1> HIDE DEF done
<1>3. m \in Memories /\ d \in Nat /\ s \in Nat /\ n \in Nat
    BY DEF InMemory
<1>4. \A k \in 0..n : done[k] = IF k = 0 THEN m
                                ELSE [done[k - 1] EXCEPT ![d + n - k] = done[k - 1][s + n - k]]
    BY <1>1 DEF IsDown
<1>5. d = s \/ \A i \in 0..(n - 1), j \in 0..(n - 1) : d + i # s + j
    <2>1. ASSUME M!Apart(d, s, n), NEW i \in 0..(n - 1), NEW j \in 0..(n - 1), d + i = s + j PROVE FALSE
        <3>1. d + i \in M!Span(d, n) /\ s + j \in M!Span(s, n)
            BY <1>3 DEF M!Span
        <3> QED BY <2>1, <3>1 DEF M!Apart
    <2> QED BY <2>1
<1> DEFINE U == {k \in 0..n : IsCopy(done[k], m, (d + n) - k, (s + n) - k, k)}
<1>6. 0 \in U
    <2>0. 0 \in 0..n
        OBVIOUS
    <2>1. done[0] = m /\ 0 \in 0..n
        BY <1>4, <2>0
    <2>2. \A a \in M!Addr : ~((d + n) - 0 <= a /\ a < ((d + n) - 0) + 0)
        <3>1. \A a \in M!Addr : a \in Nat
            BY AddrFacts
        <3> QED BY <1>3, <3>1
    <2>3. IsCopy(m, m, (d + n) - 0, (s + n) - 0, 0)
        BY <1>3, <2>2 DEF IsCopy
    <2> QED BY <2>1, <2>3
<1>7. ASSUME NEW k \in 1..n, k - 1 \in U PROVE k \in U
    <2>1. k \in 0..n /\ k # 0
        BY <1>3
    <2>0. PICK d1 \in Nat, s1 \in Nat : d1 = (d + n) - (k - 1) /\ s1 = (s + n) - (k - 1)
        BY <1>3
    <2>2. PICK f : f = done[k - 1] /\ IsCopy(f, m, d1, s1, k - 1)
        BY <1>7, <2>0
    <2>3. PICK x \in M!Addr, y \in M!Addr : x = d + n - k /\ y = s + n - k
        <3>1. d + n - k \in M!Addr /\ s + n - k \in M!Addr
            <4>1. InReach(d, s, n, k)
                BY PassFacts
            <4> QED BY <4>1 DEF InReach
        <3> QED BY <3>1
    <2>a. x \in Nat /\ y \in Nat /\ d1 = x + 1 /\ s1 = y + 1
        BY <1>3, <2>0, <2>3, AddrFacts
    <2>4. done[k] = [f EXCEPT ![x] = f[y]]
        BY <1>4, <2>1, <2>2, <2>3
    <2>5. f \in Memories
        BY <2>2 DEF IsCopy
    <2>6. f[y] = m[y]
        <3>1. ~(d1 <= y /\ y < d1 + (k - 1))
            <4> SUFFICES ASSUME d1 <= y, y < d1 + (k - 1) PROVE FALSE
                OBVIOUS
            <4>1. d # s
                BY <1>3, <2>0, <2>3
            <4>2. PICK i \in 0..(n - 1) : y = d + i
                BY <1>3, <2>0, <2>3
            <4>3. n - k \in 0..(n - 1) /\ y = s + (n - k)
                BY <1>3, <2>3
            <4> QED BY <1>5, <4>1, <4>2, <4>3
        <3> QED BY <2>2, <3>1 DEF IsCopy
    <2>7. /\ done[k] \in Memories /\ done[k][x] = m[y]
          /\ \A c \in M!Addr : c # x => done[k][c] = f[c]
        BY <2>4, <2>5, <2>6, MemoryPut
    <2>8. ASSUME NEW a \in M!Addr
          PROVE  done[k][a] = IF x <= a /\ a < x + k THEN m[(y + a) - x] ELSE m[a]
        <3>0. a \in Nat
            BY AddrFacts
        <3>1. CASE a = x
            <4>1. x <= a /\ a < x + k /\ (y + a) - x = y
                BY <2>a, <3>0, <3>1
            <4> QED BY <2>7, <3>1, <4>1
        <3>2. CASE a # x
            <4>1. (x <= a /\ a < x + k) <=> (d1 <= a /\ a < d1 + (k - 1))
                BY <1>3, <2>a, <3>0, <3>2
            <4>2. f[a] = IF d1 <= a /\ a < d1 + (k - 1) THEN m[(s1 + a) - d1] ELSE m[a]
                BY <2>2 DEF IsCopy
            <4>3. (s1 + a) - d1 = (y + a) - x
                BY <2>a, <3>0
            <4> QED BY <2>7, <3>2, <4>1, <4>2, <4>3
        <3> QED BY <3>1, <3>2
    <2>9. IsCopy(done[k], m, x, y, k)
        BY <2>7, <2>8 DEF IsCopy
    <2> QED BY <2>1, <2>3, <2>9
<1>8. U = 0..n
    <2>1. U \in SUBSET (0..n)
        OBVIOUS
    <2> HIDE DEF U
    <2> QED BY <1>3, <1>6, <1>7, <2>1, LoopKeeps
<1>9. n \in U /\ (d + n) - n = d /\ (s + n) - n = s
    BY <1>3, <1>8
<1> QED BY <1>2, <1>9

(***************************************************************************)
(* The length of a string: where its first terminator is.                  *)
(***************************************************************************)
HasLen(m, s, l) ==
    /\ l \in Nat /\ s + l \in M!Addr /\ m[s + l] = 0
    /\ \A i \in Nat : i < l => m[s + i] # 0

(***************************************************************************)
(* The ends of a string are the offsets of its null bytes.                 *)
(***************************************************************************)
LEMMA EndsFacts ==
    ASSUME NEW m, NEW s \in M!Addr
    PROVE  /\ M!Ends(m, s) \in SUBSET Nat
           /\ \A i \in Nat : i \in M!Ends(m, s) <=> s + i \in M!Addr /\ m[s + i] = 0
<1>1. HighAddr \in Nat /\ s \in Nat /\ s <= HighAddr
    BY AddrFacts
<1>2. M!Ends(m, s) = {i \in 0..(HighAddr - s) : m[s + i] = 0}
    BY ByteFacts DEF M!Ends, HighAddr
<1>3. \A i \in Nat : i \in 0..(HighAddr - s) <=> s + i \in Nat /\ s + i <= HighAddr
    BY <1>1
<1>4. \A i \in Nat : i \in 0..(HighAddr - s) <=> s + i \in M!Addr
    BY <1>3, AddrFacts
<1>5. \A i \in 0..(HighAddr - s) : i \in Nat
    BY <1>1
<1> QED BY <1>2, <1>4, <1>5

(***************************************************************************)
(* strlen returns the offset of the first null byte.                       *)
(***************************************************************************)
LEMMA StrlenFacts ==
    ASSUME NEW m, NEW s \in M!Addr, M!IsString(m, s)
    PROVE  HasLen(m, s, M!strlen(m, s))
<1>1. M!Ends(m, s) \in SUBSET Nat /\ M!Ends(m, s) # {}
    BY EndsFacts DEF M!IsString
<1>2. PICK l \in Nat : l = M!strlen(m, s) /\ l \in M!Ends(m, s) /\ \A y \in M!Ends(m, s) : l <= y
    BY <1>1, LeastOf DEF M!strlen
<1>3. s + l \in M!Addr /\ m[s + l] = 0
    BY <1>2, EndsFacts
<1>4. ASSUME NEW i \in Nat, i < l, m[s + i] = 0 PROVE FALSE
    <2>1. s + i \in M!Addr
        <3>1. s \in Nat /\ s + l <= HighAddr /\ HighAddr \in Nat
            BY <1>3, AddrFacts
        <3>2. s + i \in Nat /\ s + i <= HighAddr
            BY <1>4, <3>1
        <3> QED BY <3>2, AddrFacts
    <2>2. i \in M!Ends(m, s)
        BY <1>4, <2>1, EndsFacts
    <2>3. l <= i
        BY <1>2, <2>2
    <2> QED BY <1>4, <2>3
<1> QED BY <1>2, <1>3, <1>4 DEF HasLen

(***************************************************************************)
(* The offset of the first null byte is what strlen returns.               *)
(***************************************************************************)
LEMMA LenFound ==
    ASSUME NEW m, NEW s \in M!Addr, NEW l, HasLen(m, s, l)
    PROVE  M!IsString(m, s) /\ M!strlen(m, s) = l
<1>1. l \in Nat /\ s + l \in M!Addr /\ m[s + l] = 0 /\ \A i \in Nat : i < l => m[s + i] # 0
    BY DEF HasLen
<1>2. l \in M!Ends(m, s)
    BY <1>1, EndsFacts
<1>3. M!IsString(m, s)
    BY <1>2 DEF M!IsString
<1>4. PICK k : k = M!strlen(m, s) /\ HasLen(m, s, k)
    BY <1>3, StrlenFacts
<1>5. k \in Nat /\ m[s + k] = 0 /\ \A i \in Nat : i < k => m[s + i] # 0
    BY <1>4 DEF HasLen
<1>6. ~(k < l) /\ ~(l < k)
    BY <1>1, <1>5
<1> QED BY <1>1, <1>3, <1>4, <1>5, <1>6

-----------------------------------------------------------------------------
(***************************************************************************)
(* The index at which a comparison of the strings a and b is decided: the  *)
(* first where they differ or end.                                         *)
(***************************************************************************)
Decides(m, a, b, i) ==
    /\ i \in Nat /\ a + i \in M!Addr /\ b + i \in M!Addr
    /\ \A j \in Nat : j < i => m[a + j] = m[b + j] /\ m[a + j] # 0
    /\ m[a + i] # m[b + i] \/ m[a + i] = 0

AreStrings(m, a, b) ==
    m \in Memories /\ a \in M!Addr /\ b \in M!Addr /\ M!IsString(m, a) /\ M!IsString(m, b)

(***************************************************************************)
(* Two strings have one place that decides their comparison.               *)
(***************************************************************************)
LEMMA DecidesOnce ==
    ASSUME NEW m, NEW a, NEW b, NEW i, NEW k, Decides(m, a, b, i), Decides(m, a, b, k)
    PROVE  i = k
<1>1. /\ i \in Nat /\ \A j \in Nat : j < i => m[a + j] = m[b + j] /\ m[a + j] # 0
      /\ m[a + i] # m[b + i] \/ m[a + i] = 0
    BY DEF Decides
<1>2. /\ k \in Nat /\ \A j \in Nat : j < k => m[a + j] = m[b + j] /\ m[a + j] # 0
      /\ m[a + k] # m[b + k] \/ m[a + k] = 0
    BY DEF Decides
<1>3. ~(i < k)
    BY <1>1, <1>2
<1>4. ~(k < i)
    BY <1>1, <1>2
<1> QED BY <1>1, <1>2, <1>3, <1>4

(***************************************************************************)
(* strcmp stops at the place that decides, not behind the end of either    *)
(* string, and returns the difference of the two characters there.         *)
(***************************************************************************)
LEMMA StrcmpDecides ==
    ASSUME NEW m, NEW a, NEW b, AreStrings(m, a, b)
    PROVE  \E i \in Nat : /\ Decides(m, a, b, i)
                        /\ i <= M!strlen(m, a) /\ i <= M!strlen(m, b)
                        /\ M!strcmp(m, a, b) = M!AsChar(m[a + i]) - M!AsChar(m[b + i])
<1>1. a \in M!Addr /\ b \in M!Addr /\ M!IsString(m, a) /\ M!IsString(m, b)
    BY DEF AreStrings
<1>2. PICK la, lb : la = M!strlen(m, a) /\ lb = M!strlen(m, b) /\ HasLen(m, a, la) /\ HasLen(m, b, lb)
    BY <1>1, StrlenFacts
<1>3. la \in Nat /\ a + la \in M!Addr /\ m[a + la] = 0 /\ \A i \in Nat : i < la => m[a + i] # 0
    BY <1>2 DEF HasLen
<1>4. lb \in Nat /\ b + lb \in M!Addr /\ m[b + lb] = 0 /\ \A i \in Nat : i < lb => m[b + i] # 0
    BY <1>2 DEF HasLen
<1>5. PICK c \in Nat : c = M!Min({la, lb}) /\ c <= la /\ c <= lb /\ (c = la \/ c = lb)
    <2>1. M!Min({la, lb}) = IF la <= lb THEN la ELSE lb
        BY <1>3, <1>4, LeastOfTwo
    <2> QED BY <1>3, <1>4, <2>1
<1> DEFINE Q == {j \in 0..c : m[a + j] = 0 \/ m[b + j] = 0 \/ m[a + j] # m[b + j]}
<1>6. M!strcmp(m, a, b) = M!AsChar(m[a + M!Min(Q)]) - M!AsChar(m[b + M!Min(Q)])
    BY <1>2, <1>5, ByteFacts DEF M!strcmp
<1>7. c \in Q
    BY <1>3, <1>4, <1>5
<1>8. Q \in SUBSET Nat /\ Q # {}
    BY <1>7
<1>9. PICK i \in Nat : i = M!Min(Q) /\ i \in Q /\ \A y \in Q : i <= y
    <2> HIDE DEF Q
    <2> QED BY <1>8, LeastOf
<1>10. i <= c /\ (m[a + i] = 0 \/ m[b + i] = 0 \/ m[a + i] # m[b + i])
    BY <1>9
<1>11. a + i \in M!Addr /\ b + i \in M!Addr
    <2>1. a \in Nat /\ b \in Nat /\ HighAddr \in Nat /\ a + la <= HighAddr /\ b + lb <= HighAddr
        BY <1>1, <1>3, <1>4, AddrFacts
    <2>2. a + i \in Nat /\ a + i <= HighAddr /\ b + i \in Nat /\ b + i <= HighAddr
        BY <1>3, <1>4, <1>5, <1>10, <2>1
    <2> QED BY <2>2, AddrFacts
<1>12. ASSUME NEW j \in Nat, j < i PROVE m[a + j] = m[b + j] /\ m[a + j] # 0
    <2>1. j \in 0..c /\ j \notin Q
        <3>1. j \in 0..c
            BY <1>10, <1>12
        <3>2. ~(i <= j)
            BY <1>12
        <3> HIDE DEF Q
        <3> QED BY <1>9, <3>1, <3>2
    <2> QED BY <2>1
<1>13. Decides(m, a, b, i)
    BY <1>10, <1>11, <1>12 DEF Decides
<1>14. i <= la /\ i <= lb
    BY <1>3, <1>4, <1>5, <1>10
<1>15. M!strcmp(m, a, b) = M!AsChar(m[a + i]) - M!AsChar(m[b + i])
    <2> HIDE DEF Q
    <2> QED BY <1>6, <1>9
<1> QED BY <1>2, <1>13, <1>14, <1>15

(***************************************************************************)
(* char is signed, but two chars are equal only when their bytes are.      *)
(***************************************************************************)
LEMMA CharFacts ==
    ASSUME NEW b \in Byte, NEW c \in Byte
    PROVE  M!AsChar(b) \in Int /\ (M!AsChar(b) = M!AsChar(c) <=> b = c)
<1>1. b \in Nat /\ b <= 255 /\ c \in Nat /\ c <= 255
    BY ByteFacts
<1> QED BY <1>1 DEF M!AsChar

(***************************************************************************)
(* Equal strings, as CompareAgree says it.                                 *)
(***************************************************************************)
SameString(m, a, b) ==
    /\ M!strlen(m, a) = M!strlen(m, b)
    /\ \A i \in 0..M!strlen(m, a) : m[a + i] = m[b + i]

(***************************************************************************)
(* What comparing two strings needs of them.                               *)
(***************************************************************************)
LEMMA Lengths ==
    ASSUME NEW m, NEW a, NEW b, AreStrings(m, a, b)
    PROVE  /\ a \in Nat /\ b \in Nat /\ a \in M!Addr /\ b \in M!Addr /\ m \in Memories
           /\ HasLen(m, a, M!strlen(m, a)) /\ HasLen(m, b, M!strlen(m, b))
           /\ M!strlen(m, a) \in Nat /\ M!strlen(m, b) \in Nat
<1>1. a \in M!Addr /\ b \in M!Addr /\ M!IsString(m, a) /\ M!IsString(m, b) /\ m \in Memories
    BY DEF AreStrings
<1>2. HasLen(m, a, M!strlen(m, a)) /\ HasLen(m, b, M!strlen(m, b))
    BY <1>1, StrlenFacts
<1>3. M!strlen(m, a) \in Nat /\ M!strlen(m, b) \in Nat
    BY <1>2 DEF HasLen
<1>4. a \in Nat /\ b \in Nat
    BY <1>1, AddrFacts
<1> QED BY <1>1, <1>2, <1>3, <1>4

(***************************************************************************)
(* The characters at the deciding place are equal when the strings are.    *)
(***************************************************************************)
LEMMA DecidedEqual ==
    ASSUME NEW m, NEW a, NEW b, AreStrings(m, a, b), NEW i \in Nat, Decides(m, a, b, i),
           i <= M!strlen(m, a), i <= M!strlen(m, b)
    PROVE  m[a + i] = m[b + i] <=> SameString(m, a, b)
<1>1. PICK la \in Nat, lb \in Nat : /\ la = M!strlen(m, a) /\ lb = M!strlen(m, b)
                                   /\ HasLen(m, a, la) /\ HasLen(m, b, lb)
    BY Lengths
<1>2. m[a + la] = 0 /\ \A j \in Nat : j < la => m[a + j] # 0
    BY <1>1 DEF HasLen
<1>3. m[b + lb] = 0 /\ \A j \in Nat : j < lb => m[b + j] # 0
    BY <1>1 DEF HasLen
<1>4. /\ \A j \in Nat : j < i => m[a + j] = m[b + j] /\ m[a + j] # 0
      /\ m[a + i] # m[b + i] \/ m[a + i] = 0
    BY DEF Decides
<1>5. i <= la /\ i <= lb
    BY <1>1
<1>6. ASSUME m[a + i] = m[b + i] PROVE SameString(m, a, b)
    <2>1. m[a + i] = 0 /\ m[b + i] = 0
        BY <1>4, <1>6
    <2>2. i = la /\ i = lb
        BY <1>2, <1>3, <1>5, <2>1
    <2>3. \A j \in 0..la : m[a + j] = m[b + j]
        <3>1. \A j \in 0..la : j \in Nat /\ (j < i \/ j = i)
            BY <2>2
        <3> QED BY <1>4, <1>6, <3>1
    <2> QED BY <1>1, <2>2, <2>3 DEF SameString
<1>7. ASSUME SameString(m, a, b) PROVE m[a + i] = m[b + i]
    <2>1. \A j \in 0..la : m[a + j] = m[b + j]
        BY <1>1, <1>7 DEF SameString
    <2>2. i \in 0..la
        BY <1>5
    <2> QED BY <2>1, <2>2
<1> QED BY <1>6, <1>7

(***************************************************************************)
(* strcmp returns 0 for equal strings alone.                               *)
(***************************************************************************)
LEMMA StrcmpRight ==
    ASSUME NEW m, NEW a, NEW b, AreStrings(m, a, b)
    PROVE  M!strcmp(m, a, b) = 0 <=> SameString(m, a, b)
<1>1. PICK i \in Nat : /\ Decides(m, a, b, i)
                       /\ i <= M!strlen(m, a) /\ i <= M!strlen(m, b)
                       /\ M!strcmp(m, a, b) = M!AsChar(m[a + i]) - M!AsChar(m[b + i])
    BY StrcmpDecides
<1>2. m[a + i] = m[b + i] <=> SameString(m, a, b)
    BY <1>1, DecidedEqual
<1>3. PICK p \in Byte, q \in Byte : p = m[a + i] /\ q = m[b + i]
    <2>1. m \in Memories /\ a + i \in M!Addr /\ b + i \in M!Addr
        BY <1>1, Lengths DEF Decides
    <2> QED BY <2>1 DEF Memories
<1>4. PICK x \in Int, y \in Int : x = M!AsChar(p) /\ y = M!AsChar(q) /\ (x = y <=> p = q)
    BY CharFacts
<1>5. M!strcmp(m, a, b) = x - y
    BY <1>1, <1>3, <1>4
<1> QED BY <1>2, <1>3, <1>4, <1>5

(***************************************************************************)
(* The larger of two numbers.                                              *)
(***************************************************************************)
LEMMA LargerOfTwo ==
    ASSUME NEW a \in Nat, NEW b \in Nat
    PROVE  M!Max({a, b}) = (IF a >= b THEN a ELSE b)
<1>1. \E x \in {a, b} : \A y \in {a, b} : x >= y
    <2>1. CASE a >= b
        BY <2>1
    <2>2. CASE ~(a >= b)
        BY <2>2
    <2> QED BY <2>1, <2>2
<1>2. M!Max({a, b}) \in {a, b} /\ \A y \in {a, b} : M!Max({a, b}) >= y
    BY <1>1 DEF M!Max
<1> QED BY <1>2

(***************************************************************************)
(* strncmp over more than both lengths tells whether the strings are       *)
(* equal.                                                                  *)
(***************************************************************************)
LEMMA StrncmpRight ==
    ASSUME NEW m, NEW a, NEW b, AreStrings(m, a, b), NEW n \in Nat,
           n = M!Max({M!strlen(m, a), M!strlen(m, b)}) + 1
    PROVE  M!strncmp(m, a, b, n) = 0 <=> SameString(m, a, b)
<1>1. PICK i \in Nat : /\ Decides(m, a, b, i)
                       /\ i <= M!strlen(m, a) /\ i <= M!strlen(m, b)
    BY StrcmpDecides
<1>2. m[a + i] = m[b + i] <=> SameString(m, a, b)
    BY <1>1, DecidedEqual
<1>3. i < n
    <2>1. PICK la \in Nat, lb \in Nat : la = M!strlen(m, a) /\ lb = M!strlen(m, b)
        BY Lengths
    <2>2. n = (IF la >= lb THEN la ELSE lb) + 1
        BY <2>1, LargerOfTwo
    <2> QED BY <1>1, <2>1, <2>2
<1>4. /\ a + i \in M!Addr /\ b + i \in M!Addr
      /\ \A j \in Nat : j < i => m[a + j] = m[b + j] /\ m[a + j] # 0
      /\ m[a + i] # m[b + i] \/ m[a + i] = 0
    BY <1>1 DEF Decides
<1> DEFINE Q == {j \in M!Index(a, b, n) : m[a + j] # m[b + j] \/ m[a + j] = 0}
<1>5. M!strncmp(m, a, b, n) = IF Q = {} THEN 0 ELSE m[a + M!Min(Q)] - m[b + M!Min(Q)]
    BY ByteFacts DEF M!strncmp
<1>6. i \in Q
    <2>1. i \in 0..(n - 1)
        BY <1>3
    <2> QED BY <1>4, <2>1 DEF M!Index
<1>7. Q \in SUBSET Nat
    BY DEF M!Index
<1>8. PICK k \in Nat : k = M!Min(Q) /\ k \in Q /\ \A y \in Q : k <= y
    <2> HIDE DEF Q
    <2> QED BY <1>6, <1>7, LeastOf
<1>9. k = i
    <2>1. k <= i
        BY <1>6, <1>8
    <2>2. m[a + k] # m[b + k] \/ m[a + k] = 0
        BY <1>8
    <2>3. ~(k < i)
        BY <1>4, <2>2
    <2> QED BY <2>1, <2>3
<1>10. M!strncmp(m, a, b, n) = m[a + i] - m[b + i]
    <2> HIDE DEF Q
    <2> QED BY <1>5, <1>6, <1>8, <1>9
<1>11. PICK p \in Nat, q \in Nat : p = m[a + i] /\ q = m[b + i]
    <2>1. m \in Memories
        BY Lengths
    <2>2. m[a + i] \in Byte /\ m[b + i] \in Byte
        BY <1>4, <2>1 DEF Memories
    <2> QED BY <2>2, ByteFacts
<1>12. M!strncmp(m, a, b, n) = p - q
    BY <1>10, <1>11
<1> QED BY <1>2, <1>11, <1>12

(***************************************************************************)
(* memcmp over the longer string and its null byte tells whether the       *)
(* strings are equal.                                                      *)
(***************************************************************************)
LEMMA MemcmpRight ==
    ASSUME NEW m, NEW a, NEW b, AreStrings(m, a, b), NEW n \in Nat,
           n = M!Max({M!strlen(m, a), M!strlen(m, b)}) + 1,
           a + n - 1 \in M!Addr, b + n - 1 \in M!Addr
    PROVE  M!memcmp(m, a, b, n) = 0 <=> SameString(m, a, b)
<1>1. PICK i \in Nat : /\ Decides(m, a, b, i)
                       /\ i <= M!strlen(m, a) /\ i <= M!strlen(m, b)
    BY StrcmpDecides
<1>2. m[a + i] = m[b + i] <=> SameString(m, a, b)
    BY <1>1, DecidedEqual
<1>3. PICK la \in Nat, lb \in Nat : la = M!strlen(m, a) /\ lb = M!strlen(m, b)
    BY Lengths
<1>4. n = (IF la >= lb THEN la ELSE lb) + 1
    BY <1>3, LargerOfTwo
<1>5. i < n
    BY <1>1, <1>3, <1>4
<1>6. a + i \in M!Addr /\ b + i \in M!Addr
    BY <1>1 DEF Decides
<1> DEFINE Q == {j \in M!Index(a, b, n) : m[a + j] # m[b + j]}
<1>7. M!memcmp(m, a, b, n) = IF Q = {} THEN 0 ELSE m[a + M!Min(Q)] - m[b + M!Min(Q)]
    BY DEF M!memcmp
<1>8. Q \in SUBSET Nat
    BY DEF M!Index
<1>9. ASSUME Q = {} PROVE m[a + i] = m[b + i]
    <2>1. i \in 0..(n - 1)
        BY <1>5
    <2>2. i \in M!Index(a, b, n)
        BY <1>6, <2>1 DEF M!Index
    <2> QED BY <1>9, <2>2
<1>10. ASSUME Q # {} PROVE M!memcmp(m, a, b, n) # 0 /\ ~SameString(m, a, b)
    <2>1. PICK k \in Nat : k = M!Min(Q) /\ k \in Q
        <3> HIDE DEF Q
        <3> QED BY <1>8, <1>10, LeastOf
    <2>2. k \in M!Index(a, b, n) /\ m[a + k] # m[b + k]
        BY <2>1
    <2>3. k \in 0..(n - 1) /\ a + k \in M!Addr /\ b + k \in M!Addr
        BY <2>2 DEF M!Index
    <2>4. PICK p \in Nat, q \in Nat : p = m[a + k] /\ q = m[b + k]
        <3>1. m \in Memories
            BY Lengths
        <3>2. m[a + k] \in Byte /\ m[b + k] \in Byte
            BY <2>3, <3>1 DEF Memories
        <3> QED BY <3>2, ByteFacts
    <2>5. M!memcmp(m, a, b, n) = p - q
        <3> HIDE DEF Q
        <3> QED BY <1>7, <1>10, <2>1, <2>4
    <2>6. p - q # 0
        BY <2>2, <2>4
    <2>7. ASSUME SameString(m, a, b) PROVE FALSE
        <3>1. la = lb /\ \A j \in 0..la : m[a + j] = m[b + j]
            BY <1>3, <2>7 DEF SameString
        <3>2. k \in 0..la
            BY <1>4, <2>3, <3>1
        <3> QED BY <2>2, <3>1, <3>2
    <2> QED BY <2>5, <2>6, <2>7
<1>11. Q = {} => M!memcmp(m, a, b, n) = 0
    BY <1>7
<1> HIDE DEF Q
<1> QED BY <1>2, <1>9, <1>10, <1>11

(***************************************************************************)
(* What strcmp returns is the difference of the deciding characters; the   *)
(* order it gives is antisymmetric and transitive.                         *)
(***************************************************************************)
LEMMA StrcmpValue ==
    ASSUME NEW m, NEW a, NEW b, AreStrings(m, a, b)
    PROVE  \E i \in Nat, x \in Int, y \in Int :
              /\ Decides(m, a, b, i) /\ x = M!AsChar(m[a + i]) /\ y = M!AsChar(m[b + i])
              /\ (x = y <=> m[a + i] = m[b + i]) /\ M!strcmp(m, a, b) = x - y
<1>1. PICK i \in Nat : /\ Decides(m, a, b, i)
                       /\ M!strcmp(m, a, b) = M!AsChar(m[a + i]) - M!AsChar(m[b + i])
    BY StrcmpDecides
<1>2. m[a + i] \in Byte /\ m[b + i] \in Byte
    <2>1. m \in Memories /\ a + i \in M!Addr /\ b + i \in M!Addr
        BY <1>1, Lengths DEF Decides
    <2> QED BY <2>1 DEF Memories
<1>3. PICK x, y : x = M!AsChar(m[a + i]) /\ y = M!AsChar(m[b + i])
    OBVIOUS
<1>4. x \in Int /\ y \in Int /\ (x = y <=> m[a + i] = m[b + i])
    BY <1>2, <1>3, CharFacts
<1> QED BY <1>1, <1>3, <1>4

(***************************************************************************)
(* strcmp changes its sign with the order of its arguments.                *)
(***************************************************************************)
LEMMA StrcmpTurned ==
    ASSUME NEW m, NEW a, NEW b, AreStrings(m, a, b)
    PROVE  M!strcmp(m, a, b) = -M!strcmp(m, b, a)
<1>1. PICK i \in Nat, x \in Int, y \in Int :
              /\ Decides(m, a, b, i) /\ x = M!AsChar(m[a + i]) /\ y = M!AsChar(m[b + i])
              /\ M!strcmp(m, a, b) = x - y
    BY StrcmpValue
<1>2. AreStrings(m, b, a)
    BY DEF AreStrings
<1>3. PICK k \in Nat, u \in Int, v \in Int :
              /\ Decides(m, b, a, k) /\ u = M!AsChar(m[b + k]) /\ v = M!AsChar(m[a + k])
              /\ M!strcmp(m, b, a) = u - v
    BY <1>2, StrcmpValue
<1>4. Decides(m, a, b, k)
    BY <1>3 DEF Decides
<1>5. k = i
    BY <1>1, <1>4, DecidesOnce
<1>6. u = y /\ v = x
    BY <1>1, <1>3, <1>5
<1> QED BY <1>1, <1>3, <1>6

(***************************************************************************)
(* strcmp orders strings transitively.                                     *)
(***************************************************************************)
LEMMA StrcmpTransitive ==
    ASSUME NEW m, NEW a, NEW b, NEW c, AreStrings(m, a, b), AreStrings(m, b, c),
           M!strcmp(m, a, b) < 0, M!strcmp(m, b, c) < 0
    PROVE  M!strcmp(m, a, c) < 0
<1>1. PICK i \in Nat, x \in Int, y \in Int :
              /\ Decides(m, a, b, i) /\ x = M!AsChar(m[a + i]) /\ y = M!AsChar(m[b + i])
              /\ (x = y <=> m[a + i] = m[b + i]) /\ M!strcmp(m, a, b) = x - y
    BY StrcmpValue
<1>2. PICK k \in Nat, u \in Int, v \in Int :
              /\ Decides(m, b, c, k) /\ u = M!AsChar(m[b + k]) /\ v = M!AsChar(m[c + k])
              /\ (u = v <=> m[b + k] = m[c + k]) /\ M!strcmp(m, b, c) = u - v
    BY StrcmpValue
<1>3. x < y /\ m[a + i] # m[b + i] /\ u < v /\ m[b + k] # m[c + k]
    BY <1>1, <1>2
<1>4. /\ a + i \in M!Addr /\ b + i \in M!Addr
      /\ \A j \in Nat : j < i => m[a + j] = m[b + j] /\ m[a + j] # 0
    BY <1>1 DEF Decides
<1>5. /\ b + k \in M!Addr /\ c + k \in M!Addr
      /\ \A j \in Nat : j < k => m[b + j] = m[c + j] /\ m[b + j] # 0
    BY <1>2 DEF Decides
<1>6. a \in Nat /\ b \in Nat /\ c \in Nat
    BY Lengths
<1>7. AreStrings(m, a, c)
    BY DEF AreStrings
<1>8. PICK l \in Nat, p \in Int, q \in Int :
              /\ Decides(m, a, c, l) /\ p = M!AsChar(m[a + l]) /\ q = M!AsChar(m[c + l])
              /\ M!strcmp(m, a, c) = p - q
    BY <1>7, StrcmpValue
<1>9. /\ \A j \in Nat : j < l => m[a + j] = m[c + j] /\ m[a + j] # 0
      /\ m[a + l] # m[c + l] \/ m[a + l] = 0
    BY <1>8 DEF Decides
<1>10. CASE i < k
    <2>1. m[b + i] = m[c + i] /\ m[a + i] # m[c + i]
        BY <1>3, <1>5, <1>10
    <2>2. ~(i < l)
        BY <1>9, <2>1
    <2>3. ~(l < i)
        <3>1. ASSUME l < i PROVE FALSE
            <4>1. l < k
                BY <1>10, <3>1
            <4>2. m[a + l] = m[b + l] /\ m[a + l] # 0 /\ m[b + l] = m[c + l]
                BY <1>4, <1>5, <3>1, <4>1
            <4> QED BY <1>9, <4>2
        <3> QED BY <3>1
    <2>4. l = i
        BY <2>2, <2>3
    <2>5. p = x /\ q = y
        BY <1>1, <1>8, <2>1, <2>4
    <2> QED BY <1>3, <1>8, <2>5
<1>11. CASE k < i
    <2>1. m[a + k] = m[b + k] /\ m[a + k] # m[c + k]
        BY <1>3, <1>4, <1>11
    <2>2. ~(k < l)
        BY <1>9, <2>1
    <2>3. ~(l < k)
        <3>1. ASSUME l < k PROVE FALSE
            <4>1. l < i
                BY <1>11, <3>1
            <4>2. m[a + l] = m[b + l] /\ m[a + l] # 0 /\ m[b + l] = m[c + l]
                BY <1>4, <1>5, <3>1, <4>1
            <4> QED BY <1>9, <4>2
        <3> QED BY <3>1
    <2>4. l = k
        BY <2>2, <2>3
    <2>5. p = u /\ q = v
        BY <1>2, <1>8, <2>1, <2>4
    <2> QED BY <1>3, <1>8, <2>5
<1>12. CASE k = i
    <2>1. y = u /\ x < v
        <3>1. y = u
            BY <1>1, <1>2, <1>12
        <3> QED BY <1>3, <3>1
    <2>2. m[a + i] # m[c + i]
        BY <1>1, <1>2, <1>12, <2>1
    <2>3. ~(i < l)
        BY <1>9, <2>2
    <2>4. ~(l < i)
        <3>1. ASSUME l < i PROVE FALSE
            <4>1. l < k
                BY <1>12, <3>1
            <4>2. m[a + l] = m[b + l] /\ m[a + l] # 0 /\ m[b + l] = m[c + l]
                BY <1>4, <1>5, <3>1, <4>1
            <4> QED BY <1>9, <4>2
        <3> QED BY <3>1
    <2>5. l = i
        BY <2>3, <2>4
    <2>6. p = x /\ q = v
        BY <1>1, <1>2, <1>8, <1>12, <2>5
    <2> QED BY <1>8, <2>1, <2>6
<1> QED BY <1>10, <1>11, <1>12

(***************************************************************************)
(* The comparing routines agree in every memory.                           *)
(***************************************************************************)
LEMMA AgreeAlways ==
    ASSUME mem \in Memories
    PROVE  M!CompareAgree
<1>1. \A a, b \in M!Strings : AreStrings(mem, a, b)
    BY DEF M!Strings, AreStrings
<1>2. ASSUME NEW a \in M!Strings, NEW b \in M!Strings, NEW n,
             n = M!Max({M!strlen(mem, a), M!strlen(mem, b)}) + 1
      PROVE  /\ (M!strcmp(mem, a, b) = 0) <=> SameString(mem, a, b)
             /\ (M!strncmp(mem, a, b, n) = 0) <=> SameString(mem, a, b)
             /\ a + n - 1 \in M!Addr /\ b + n - 1 \in M!Addr
                    => ((M!memcmp(mem, a, b, n) = 0) <=> SameString(mem, a, b))
             /\ M!strcmp(mem, a, b) = -M!strcmp(mem, b, a)
             /\ \A c \in M!Strings : M!strcmp(mem, a, b) < 0 /\ M!strcmp(mem, b, c) < 0
                                         => M!strcmp(mem, a, c) < 0
    <2>0. AreStrings(mem, a, b)
        BY <1>1
    <2>1. n \in Nat
        <3>1. PICK la \in Nat, lb \in Nat : la = M!strlen(mem, a) /\ lb = M!strlen(mem, b)
            BY <2>0, Lengths
        <3>2. n = (IF la >= lb THEN la ELSE lb) + 1
            BY <1>2, <3>1, LargerOfTwo
        <3> QED BY <3>2
    <2>2. (M!strcmp(mem, a, b) = 0) <=> SameString(mem, a, b)
        BY <2>0, StrcmpRight
    <2>3. (M!strncmp(mem, a, b, n) = 0) <=> SameString(mem, a, b)
        BY <1>2, <2>0, <2>1, StrncmpRight
    <2>4. a + n - 1 \in M!Addr /\ b + n - 1 \in M!Addr
              => ((M!memcmp(mem, a, b, n) = 0) <=> SameString(mem, a, b))
        BY <1>2, <2>0, <2>1, MemcmpRight
    <2>5. M!strcmp(mem, a, b) = -M!strcmp(mem, b, a)
        BY <2>0, StrcmpTurned
    <2>6. \A c \in M!Strings : M!strcmp(mem, a, b) < 0 /\ M!strcmp(mem, b, c) < 0
                                   => M!strcmp(mem, a, c) < 0
        BY <1>1, <2>0, StrcmpTransitive
    <2> QED BY <2>2, <2>3, <2>4, <2>5, <2>6
<1>3. M!Agree(M!strlen, M!strcmp, M!strncmp, M!memcmp)
    BY <1>2 DEF M!Agree, SameString
<1>4. M!Agree(M!libc_strlen, M!libc_strcmp, M!libc_strncmp, M!libc_memcmp)
    BY <1>2 DEF M!Agree, SameString, M!libc_strlen, M!libc_strcmp, M!libc_strncmp, M!libc_memcmp
<1> QED BY <1>3, <1>4 DEF M!CompareAgree
-----------------------------------------------------------------------------
(***************************************************************************)
(* Whatever ranges a copy is given, what it leaves is memory.              *)
(***************************************************************************)
LEMMA CopyUpMemory ==
    ASSUME NEW m, NEW d \in Nat, NEW s \in Nat, NEW n \in Nat, InMemory(m, d, s, n)
    PROVE  M!CopyUp(m, d, s, n) \in Memories
<1> DEFINE done == CHOOSE g : IsUp(g, m, d, s, n)
<1>1. IsUp(done, m, d, s, n)
    BY UpRuns
<1>2. M!CopyUp(m, d, s, n) = done[n]
    BY DEF M!CopyUp, IsUp
<1> HIDE DEF done
<1>3. m \in Memories
    BY DEF InMemory
<1>4. \A k \in 0..n : done[k] = IF k = 0 THEN m
                                ELSE [done[k - 1] EXCEPT ![d + k - 1] = done[k - 1][s + k - 1]]
    BY <1>1 DEF IsUp
<1> DEFINE U == {k \in 0..n : done[k] \in Memories}
<1>5. 0 \in U
    <2>1. 0 \in 0..n
        OBVIOUS
    <2> QED BY <1>3, <1>4, <2>1
<1>6. ASSUME NEW k \in 1..n, k - 1 \in U PROVE k \in U
    <2>1. k \in 0..n /\ k # 0
        OBVIOUS
    <2>2. PICK f \in Memories : f = done[k - 1]
        BY <1>6
    <2>3. InReach(d, s, n, k)
        BY PassFacts
    <2>4. PICK x \in M!Addr, y \in M!Addr : x = d + k - 1 /\ y = s + k - 1
        BY <2>3 DEF InReach
    <2>5. done[k] = [f EXCEPT ![x] = f[y]]
        BY <1>4, <2>1, <2>2, <2>4
    <2>6. done[k] \in Memories
        BY <2>5, MemoryPut
    <2> QED BY <2>1, <2>6
<1>7. U = 0..n
    <2>1. U \in SUBSET (0..n)
        OBVIOUS
    <2> HIDE DEF U
    <2> QED BY <1>5, <1>6, <2>1, LoopKeeps
<1>8. n \in U
    BY <1>7
<1> QED BY <1>2, <1>8

(***************************************************************************)
(* The copy from the last byte back leaves a memory.                       *)
(***************************************************************************)
LEMMA CopyDownMemory ==
    ASSUME NEW m, NEW d \in Nat, NEW s \in Nat, NEW n \in Nat, InMemory(m, d, s, n)
    PROVE  M!CopyDown(m, d, s, n) \in Memories
<1> DEFINE done == CHOOSE g : IsDown(g, m, d, s, n)
<1>1. IsDown(done, m, d, s, n)
    BY DownRuns
<1>2. M!CopyDown(m, d, s, n) = done[n]
    BY DEF M!CopyDown, IsDown
<1> HIDE DEF done
<1>3. m \in Memories
    BY DEF InMemory
<1>4. \A k \in 0..n : done[k] = IF k = 0 THEN m
                                ELSE [done[k - 1] EXCEPT ![d + n - k] = done[k - 1][s + n - k]]
    BY <1>1 DEF IsDown
<1> DEFINE U == {k \in 0..n : done[k] \in Memories}
<1>5. 0 \in U
    <2>1. 0 \in 0..n
        OBVIOUS
    <2> QED BY <1>3, <1>4, <2>1
<1>6. ASSUME NEW k \in 1..n, k - 1 \in U PROVE k \in U
    <2>1. k \in 0..n /\ k # 0
        OBVIOUS
    <2>2. PICK f \in Memories : f = done[k - 1]
        BY <1>6
    <2>3. InReach(d, s, n, k)
        BY PassFacts
    <2>4. PICK x \in M!Addr, y \in M!Addr : x = d + n - k /\ y = s + n - k
        BY <2>3 DEF InReach
    <2>5. done[k] = [f EXCEPT ![x] = f[y]]
        BY <1>4, <2>1, <2>2, <2>4
    <2>6. done[k] \in Memories
        BY <2>5, MemoryPut
    <2> QED BY <2>1, <2>6
<1>7. U = 0..n
    <2>1. U \in SUBSET (0..n)
        OBVIOUS
    <2> HIDE DEF U
    <2> QED BY <1>5, <1>6, <2>1, LoopKeeps
<1>8. n \in U
    BY <1>7
<1> QED BY <1>2, <1>8

(***************************************************************************)
(* A copy, as the properties of the string routines read it.               *)
(***************************************************************************)
SameBytes(r, m, d, s, k) == \A i \in 0..(k - 1) : r[d + i] = m[s + i]
KeptBytes(r, m, d, k) == \A a \in M!Addr \ M!Span(d, k) : r[a] = m[a]

(***************************************************************************)
(* A copy has the bytes of its source and leaves the others.               *)
(***************************************************************************)
LEMMA CopySame ==
    ASSUME NEW r, NEW m, NEW d \in Nat, NEW s \in Nat, NEW k \in Nat,
           InMemory(m, d, s, k), IsCopy(r, m, d, s, k)
    PROVE  SameBytes(r, m, d, s, k) /\ KeptBytes(r, m, d, k)
<1>0. \A a \in M!Addr : r[a] = IF d <= a /\ a < d + k THEN m[(s + a) - d] ELSE m[a]
    BY DEF IsCopy
<1>1. ASSUME NEW i \in 0..(k - 1) PROVE r[d + i] = m[s + i]
    <2>1. HighAddr \in Nat /\ \A a : a \in M!Addr <=> a \in Nat /\ a <= HighAddr
        BY AddrFacts
    <2>2. d + k <= HighAddr + 1
        BY DEF InMemory
    <2>3. PICK x \in Nat : x = d + i /\ x <= HighAddr /\ d <= x /\ x < d + k /\ (s + x) - d = s + i
        BY <2>1, <2>2
    <2>4. r[x] = m[(s + x) - d]
        BY <1>0, <2>1, <2>3
    <2> QED BY <2>3, <2>4
<1>2. ASSUME NEW a \in M!Addr, a \notin M!Span(d, k) PROVE r[a] = m[a]
    <2>1. a \in Nat
        BY AddrFacts
    <2>2. ~(d <= a /\ a < d + k)
        BY <1>2, <2>1 DEF M!Span
    <2> QED BY <1>0, <2>2
<1> QED BY <1>1, <1>2 DEF SameBytes, KeptBytes

(***************************************************************************)
(* What is kept outside a span is kept outside a longer one.               *)
(***************************************************************************)
LEMMA KeptMore ==
    ASSUME NEW r, NEW m, NEW d \in Nat, NEW k \in Nat, NEW n \in Nat, k <= n, KeptBytes(r, m, d, k)
    PROVE  KeptBytes(r, m, d, n)
<1>1. \A a : a \in M!Span(d, k) => a \in M!Span(d, n)
    BY DEF M!Span
<1> QED BY <1>1 DEF KeptBytes

-----------------------------------------------------------------------------
(***************************************************************************)
(* What each call leaves, as a relation between the memory it found, m,    *)
(* and the one it leaves, r.                                               *)
(***************************************************************************)
Copies(r, m, d, s, n) ==
    d = s \/ M!Apart(d, s, n) =>
        \A a \in M!Addr : r[a] = IF a \in M!Span(d, n) THEN m[s + a - d] ELSE m[a]

Fits(r, m, d, s, n) ==
    /\ KeptBytes(r, m, d, n)
    /\ IF M!strlen(m, s) < n
       THEN /\ M!IsString(r, d) /\ M!strlen(r, d) = M!strlen(m, s)
            /\ SameBytes(r, m, d, s, M!strlen(m, s))
       ELSE SameBytes(r, m, d, s, n)

Cuts(r, m, d, s, n) ==
    /\ SameBytes(r, m, d, s, M!Min({n, M!strlen(m, s)}))
    /\ KeptBytes(r, m, d, M!Min({n, M!strlen(m, s)}))

EndsIt(r, m, d, s, n) ==
    /\ KeptBytes(r, m, d, M!Min({n, M!strlen(m, s)}) + 1)
    /\ M!IsString(r, d) /\ M!strlen(r, d) = M!Min({n, M!strlen(m, s)})
    /\ SameBytes(r, m, d, s, M!Min({n, M!strlen(m, s)}))

CallRight(fn, r, m, d, s, n) ==
    /\ r \in Memories
    /\ fn \in {"memcpy", "memmove"} => Copies(r, m, d, s, n)
    /\ fn = "strlcpy" => Fits(r, m, d, s, n)
    /\ fn \in {"strncpy", "libc_strncpy"} => Cuts(r, m, d, s, n)
    /\ fn = "libc_strlcpy" => EndsIt(r, m, d, s, n)

(***************************************************************************)
(* The invariant of Strings: memory holds bytes, and what a call left is   *)
(* right while its caller has not gone on.                                 *)
(***************************************************************************)
StringsInv ==
    mem \in Memories /\ M!CopiesAll /\ M!StringFits /\ M!NotTerminated /\ M!StringEnds

(***************************************************************************)
(* A call that does what its routine promises keeps the invariant.         *)
(***************************************************************************)
LEMMA CallKeeps ==
    ASSUME NEW fn, NEW d, NEW s, NEW n, NEW room, NEW r,
           M!Call(fn, d, s, n, room, r), CallRight(fn, r, mem, d, s, n)
    PROVE  StringsInv'
<1>1. mem' = r /\ call' = [fn |-> fn, d |-> d, s |-> s, n |-> n, old |-> mem]
    BY DEF M!Call
<1>2. PICK c : c = call'
    OBVIOUS
<1>3. c.fn = fn /\ c.d = d /\ c.s = s /\ c.n = n /\ c.old = mem
    BY <1>1, <1>2
<1>4. mem' \in Memories
    BY <1>1 DEF CallRight
<1>5. M!CopiesAll'
    <2>1. fn \in {"memcpy", "memmove"} => Copies(r, mem, d, s, n)
        BY DEF CallRight
    <2>2. M!CopiesAll' <=>
            (c.fn \in {"memcpy", "memmove"} /\ (c.d = c.s \/ M!Apart(c.d, c.s, c.n)) =>
                \A a \in M!Addr : r[a] = IF a \in M!Span(c.d, c.n) THEN c.old[c.s + a - c.d] ELSE c.old[a])
        BY <1>1, <1>2 DEF M!CopiesAll, M!Apart, M!Span, M!Addr
    <2> QED BY <1>3, <2>1, <2>2 DEF Copies
<1>6. M!StringFits'
    <2>1. fn = "strlcpy" => Fits(r, mem, d, s, n)
        BY DEF CallRight
    <2>2. M!StringFits' <=>
            (c.fn = "strlcpy" =>
                /\ KeptBytes(r, c.old, c.d, c.n)
                /\ IF M!strlen(c.old, c.s) < c.n
                   THEN /\ M!IsString(r, c.d) /\ M!strlen(r, c.d) = M!strlen(c.old, c.s)
                        /\ SameBytes(r, c.old, c.d, c.s, M!strlen(c.old, c.s))
                   ELSE SameBytes(r, c.old, c.d, c.s, c.n))
        BY <1>1, <1>2 DEF M!StringFits, M!Touched, M!SameText, SameBytes, KeptBytes, M!Addr
    <2> QED BY <1>3, <2>1, <2>2 DEF Fits
<1>7. M!NotTerminated'
    <2>1. fn \in {"strncpy", "libc_strncpy"} => Cuts(r, mem, d, s, n)
        BY DEF CallRight
    <2>2. M!NotTerminated' <=>
            (c.fn \in {"strncpy", "libc_strncpy"} =>
                /\ SameBytes(r, c.old, c.d, c.s, M!Min({c.n, M!strlen(c.old, c.s)}))
                /\ KeptBytes(r, c.old, c.d, M!Min({c.n, M!strlen(c.old, c.s)})))
        BY <1>1, <1>2 DEF M!NotTerminated, M!Touched, M!SameText, SameBytes, KeptBytes
    <2> QED BY <1>3, <2>1, <2>2 DEF Cuts
<1>8. M!StringEnds'
    <2>1. fn = "libc_strlcpy" => EndsIt(r, mem, d, s, n)
        BY DEF CallRight
    <2>2. M!StringEnds' <=>
            (c.fn = "libc_strlcpy" =>
                /\ KeptBytes(r, c.old, c.d, M!Min({c.n, M!strlen(c.old, c.s)}) + 1)
                /\ M!IsString(r, c.d) /\ M!strlen(r, c.d) = M!Min({c.n, M!strlen(c.old, c.s)})
                /\ SameBytes(r, c.old, c.d, c.s, M!Min({c.n, M!strlen(c.old, c.s)})))
        BY <1>1, <1>2 DEF M!StringEnds, M!Touched, M!SameText, SameBytes, KeptBytes
    <2> QED BY <1>3, <2>1, <2>2 DEF EndsIt
<1> QED BY <1>4, <1>5, <1>6, <1>7, <1>8 DEF StringsInv

(***************************************************************************)
(* What the guards of Next give a copy of k of the n bytes.                *)
(***************************************************************************)
CallArgs(m, d, s, n) ==
    /\ m \in Memories /\ d \in M!Addr /\ s \in M!Addr /\ n \in 0..Half
    /\ d + n \in M!Addr /\ s + n \in M!Addr

(***************************************************************************)
(* The arguments of a call name spans in memory.                           *)
(***************************************************************************)
LEMMA ArgFacts ==
    ASSUME NEW m, NEW d, NEW s, NEW n, CallArgs(m, d, s, n)
    PROVE  /\ m \in Memories /\ d \in Nat /\ s \in Nat /\ n \in Nat
           /\ \A k \in 0..n : InMemory(m, d, s, k)
<1>1. HighAddr \in Nat /\ \A a : a \in M!Addr <=> a \in Nat /\ a <= HighAddr
    BY AddrFacts
<1>2. m \in Memories /\ d \in M!Addr /\ s \in M!Addr /\ n \in 0..Half /\ d + n \in M!Addr /\ s + n \in M!Addr
    BY DEF CallArgs
<1>3. d \in Nat /\ s \in Nat /\ n \in Nat /\ d + n <= HighAddr /\ s + n <= HighAddr
    <2>1. Half \in Nat
        BY RoutinesAssumption DEF M!StringsAssumption
    <2> QED BY <1>1, <1>2, <2>1
<1>4. ASSUME NEW k \in 0..n PROVE InMemory(m, d, s, k)
    <2>1. k \in Nat /\ d + k <= HighAddr + 1 /\ s + k <= HighAddr + 1
        BY <1>1, <1>3
    <2> QED BY <1>2, <1>3, <2>1 DEF InMemory
<1> QED BY <1>2, <1>3, <1>4

(***************************************************************************)
(* A copy, byte by byte.                                                   *)
(***************************************************************************)
LEMMA CopyCopies ==
    ASSUME NEW r, NEW m, NEW d \in Nat, NEW s \in Nat, NEW n \in Nat, IsCopy(r, m, d, s, n)
    PROVE  \A a \in M!Addr : r[a] = IF a \in M!Span(d, n) THEN m[s + a - d] ELSE m[a]
<1>1. \A a \in M!Addr : a \in Nat
    BY AddrFacts
<1>2. \A a \in M!Addr : a \in M!Span(d, n) <=> (d <= a /\ a < d + n)
    BY <1>1 DEF M!Span
<1>3. \A a \in M!Addr : r[a] = IF d <= a /\ a < d + n THEN m[(s + a) - d] ELSE m[a]
    BY DEF IsCopy
<1>4. ASSUME NEW a \in M!Addr PROVE r[a] = IF a \in M!Span(d, n) THEN m[s + a - d] ELSE m[a]
    <2>1. CASE a \in M!Span(d, n)
        <3>1. s + a - d = (s + a) - d
            BY <1>1
        <3> QED BY <1>2, <1>3, <2>1, <3>1
    <2>2. CASE a \notin M!Span(d, n)
        BY <1>2, <1>3, <2>2
    <2> QED BY <2>1, <2>2
<1> QED BY <1>4

(***************************************************************************)
(* memcpy and memmove keep the invariant.                                  *)
(***************************************************************************)
LEMMA MemoryKeeps ==
    ASSUME NEW d, NEW s, NEW n, CallArgs(mem, d, s, n), M!Memory(d, s, n)
    PROVE  StringsInv'
<1>1. d \in Nat /\ s \in Nat /\ n \in Nat /\ InMemory(mem, d, s, n)
    <2>1. n \in Nat
        BY ArgFacts
    <2>2. n \in 0..n
        BY <2>1
    <2> QED BY <2>2, ArgFacts
<1>2. CASE M!Apart(d, s, n) /\ M!Call("memcpy", d, s, n, n, M!memcpy(mem, d, s, n))
    <2>1. IsCopy(M!CopyUp(mem, d, s, n), mem, d, s, n)
        BY <1>1, <1>2, CopyUpRight
    <2>2. PICK r : r = M!memcpy(mem, d, s, n) /\ IsCopy(r, mem, d, s, n)
        BY <2>1 DEF M!memcpy
    <2>3. Copies(r, mem, d, s, n)
        BY <1>1, <2>2, CopyCopies DEF Copies
    <2>4. r \in Memories
        BY <2>2 DEF IsCopy
    <2>5. CallRight("memcpy", r, mem, d, s, n)
        BY <2>3, <2>4 DEF CallRight
    <2> QED BY <1>2, <2>2, <2>5, CallKeeps
<1>3. CASE M!Call("memmove", d, s, n, n, M!memmove(mem, d, s, n))
    <2>1. PICK r : r = M!memmove(mem, d, s, n)
        OBVIOUS
    <2>2. r = M!CopyUp(mem, d, s, n) \/ r = M!CopyDown(mem, d, s, n)
        BY <2>1 DEF M!memmove
    <2>3. r \in Memories
        BY <1>1, <2>2, CopyUpMemory, CopyDownMemory
    <2>4. ASSUME d = s \/ M!Apart(d, s, n) PROVE IsCopy(r, mem, d, s, n)
        BY <1>1, <2>2, <2>4, CopyUpRight, CopyDownRight
    <2>5. Copies(r, mem, d, s, n)
        BY <1>1, <2>4, CopyCopies DEF Copies
    <2>6. CallRight("memmove", r, mem, d, s, n)
        BY <2>3, <2>5 DEF CallRight
    <2> QED BY <1>3, <2>1, <2>6, CallKeeps
<1> QED BY <1>2, <1>3 DEF M!Memory

(***************************************************************************)
(* A string routine copies a part of the string: the ranges are apart.     *)
(***************************************************************************)
IsText(m, d, s, n) ==
    /\ CallArgs(m, d, s, n)
    /\ M!IsString(m, s)
    /\ M!Span(d, n + 1) \cap M!Span(s, M!strlen(m, s) + 1) = {}

(***************************************************************************)
(* Copying the beginning of a string between spans that lie apart.         *)
(***************************************************************************)
LEMMA TextCopied ==
    ASSUME NEW m, NEW d, NEW s, NEW n, IsText(m, d, s, n),
           NEW k \in Nat, k <= n, k <= M!strlen(m, s) + 1
    PROVE  /\ IsCopy(M!CopyUp(m, d, s, k), m, d, s, k)
           /\ SameBytes(M!CopyUp(m, d, s, k), m, d, s, k) /\ KeptBytes(M!CopyUp(m, d, s, k), m, d, k)
<1>0. CallArgs(m, d, s, n) /\ M!IsString(m, s) /\ s \in M!Addr
    BY DEF IsText, CallArgs
<1>1. m \in Memories /\ d \in Nat /\ s \in Nat /\ n \in Nat /\ \A j \in 0..n : InMemory(m, d, s, j)
    BY <1>0, ArgFacts
<1>2. PICK l \in Nat : l = M!strlen(m, s)
    <2>1. HasLen(m, s, M!strlen(m, s))
        BY <1>0, StrlenFacts
    <2> QED BY <2>1 DEF HasLen
<1>3. M!Span(d, n + 1) \cap M!Span(s, l + 1) = {}
    BY <1>2 DEF IsText
<1>4. M!Apart(d, s, k)
    <2>1. \A a : a \in M!Span(d, k) => a \in M!Span(d, n + 1)
        BY <1>1 DEF M!Span
    <2>2. \A a : a \in M!Span(s, k) => a \in M!Span(s, l + 1)
        BY <1>1, <1>2 DEF M!Span
    <2> QED BY <1>3, <2>1, <2>2 DEF M!Apart
<1>5. k \in 0..n
    BY <1>1
<1>6. InMemory(m, d, s, k)
    BY <1>1, <1>5
<1>7. IsCopy(M!CopyUp(m, d, s, k), m, d, s, k)
    BY <1>1, <1>4, <1>6, CopyUpRight
<1> QED BY <1>1, <1>6, <1>7, CopySame

(***************************************************************************)
(* A copy of k characters with a null byte behind them is a string of      *)
(* length k.                                                               *)
(***************************************************************************)
LEMMA CopyHasLen ==
    ASSUME NEW r, NEW m, NEW d \in Nat, NEW s \in Nat, NEW l \in Nat, NEW k \in Nat, k <= l,
           HasLen(m, s, l), SameBytes(r, m, d, s, k), d + k \in M!Addr, r[d + k] = 0
    PROVE  HasLen(r, d, k)
<1>1. \A i \in Nat : i < l => m[s + i] # 0
    BY DEF HasLen
<1>2. ASSUME NEW i \in Nat, i < k PROVE r[d + i] # 0
    <2>1. i \in 0..(k - 1) /\ i < l
        BY <1>2
    <2>2. r[d + i] = m[s + i]
        BY <2>1 DEF SameBytes
    <2> QED BY <1>1, <2>1, <2>2
<1> QED BY <1>2 DEF HasLen

(***************************************************************************)
(* The routines that copy strings keep the invariant.                      *)
(***************************************************************************)
LEMMA TextKeeps ==
    ASSUME NEW d, NEW s, NEW n, CallArgs(mem, d, s, n), M!Text(d, s, n)
    PROVE  StringsInv'
<1>0. IsText(mem, d, s, n)
    BY DEF M!Text, IsText
<1>1. d \in M!Addr /\ s \in M!Addr /\ d \in Nat /\ s \in Nat /\ n \in Nat /\ d + n \in M!Addr
    BY ArgFacts DEF CallArgs
<1>2. PICK l \in Nat : l = M!strlen(mem, s) /\ HasLen(mem, s, l)
    <2>1. HasLen(mem, s, M!strlen(mem, s))
        BY <1>0, <1>1, StrlenFacts DEF IsText
    <2> QED BY <2>1 DEF HasLen
<1>3. PICK k \in Nat : k = M!Min({n, l}) /\ k = (IF n <= l THEN n ELSE l)
    BY <1>1, LeastOfTwo
<1>4. PICK c : /\ c = M!CopyUp(mem, d, s, k)
               /\ IsCopy(c, mem, d, s, k) /\ SameBytes(c, mem, d, s, k) /\ KeptBytes(c, mem, d, k)
    <2>1. k <= n /\ k <= l + 1
        BY <1>1, <1>3
    <2> QED BY <1>0, <1>2, <2>1, TextCopied
<1>5. c \in Memories
    BY <1>4 DEF IsCopy
<1>6. M!strncpy(mem, d, s, n) = c
    BY <1>2, <1>3, <1>4 DEF M!strncpy
<1>7. Cuts(c, mem, d, s, n)
    BY <1>2, <1>3, <1>4 DEF Cuts
<1>8. CASE M!Call("strncpy", d, s, n, n, M!strncpy(mem, d, s, n))
    <2>1. CallRight("strncpy", c, mem, d, s, n)
        BY <1>5, <1>7 DEF CallRight
    <2> QED BY <1>6, <1>8, <2>1, CallKeeps
<1>9. CASE M!Call("libc_strncpy", d, s, n, n, M!libc_strncpy(mem, d, s, n))
    <2>1. CallRight("libc_strncpy", c, mem, d, s, n)
        BY <1>5, <1>7 DEF CallRight
    <2>2. M!libc_strncpy(mem, d, s, n) = c
        BY <1>6 DEF M!libc_strncpy
    <2> QED BY <1>9, <2>1, <2>2, CallKeeps
<1>10. CASE M!Call("strlcpy", d, s, n, n, M!strlcpy(mem, d, s, n))
    <2>1. PICK j \in Nat : j = M!Min({n, l + 1}) /\ j = (IF n <= l + 1 THEN n ELSE l + 1)
        BY <1>1, LeastOfTwo
    <2>2. PICK r : /\ r = M!CopyUp(mem, d, s, j)
                   /\ IsCopy(r, mem, d, s, j) /\ SameBytes(r, mem, d, s, j) /\ KeptBytes(r, mem, d, j)
        <3>1. j <= n /\ j <= l + 1
            BY <1>1, <2>1
        <3> QED BY <1>0, <1>2, <3>1, TextCopied
    <2>3. M!strlcpy(mem, d, s, n) = r
        BY <1>2, <2>1, <2>2 DEF M!strlcpy
    <2>4. KeptBytes(r, mem, d, n)
        <3>1. j <= n
            BY <1>1, <2>1
        <3> QED BY <1>1, <2>2, <3>1, KeptMore
    <2>5. ASSUME l < n PROVE HasLen(r, d, l) /\ SameBytes(r, mem, d, s, l)
        <3>1. j = l + 1
            BY <1>1, <2>1, <2>5
        <3>2. \A i \in 0..l : r[d + i] = mem[s + i]
            BY <2>2, <3>1 DEF SameBytes
        <3>3. l \in 0..l /\ \A i \in 0..(l - 1) : i \in 0..l
            OBVIOUS
        <3>4. r[d + l] = mem[s + l] /\ SameBytes(r, mem, d, s, l)
            BY <3>2, <3>3 DEF SameBytes
        <3>5. r[d + l] = 0
            BY <1>2, <3>4 DEF HasLen
        <3>6. d + l \in M!Addr
            <4>1. HighAddr \in Nat /\ d + n <= HighAddr
                BY <1>1, AddrFacts
            <4>2. d + l \in Nat /\ d + l <= HighAddr
                BY <1>1, <2>5, <4>1
            <4> QED BY <4>2, AddrFacts
        <3> QED BY <1>1, <1>2, <3>4, <3>5, <3>6, CopyHasLen
    <2>6. ASSUME ~(l < n) PROVE SameBytes(r, mem, d, s, n)
        <3>1. j = n
            BY <1>1, <2>1, <2>6
        <3> QED BY <2>2, <3>1
    <2>7. l < n => M!IsString(r, d) /\ M!strlen(r, d) = l
        BY <1>1, <2>5, LenFound
    <2>8. Fits(r, mem, d, s, n)
        BY <1>2, <2>4, <2>5, <2>6, <2>7 DEF Fits
    <2>9. r \in Memories
        BY <2>2 DEF IsCopy
    <2>10. CallRight("strlcpy", r, mem, d, s, n)
        BY <2>8, <2>9 DEF CallRight
    <2> QED BY <1>10, <2>3, <2>10, CallKeeps
<1>11. CASE M!Call("libc_strlcpy", d, s, n, n + 1, M!libc_strlcpy(mem, d, s, n))
    <2>1. k = M!Min({l, n})
        BY <1>1, <1>3, LeastOfTwo
    <2>2. PICK x \in M!Addr : x = d + k
        <3>1. HighAddr \in Nat /\ d + n <= HighAddr
            BY <1>1, AddrFacts
        <3>2. d + k \in Nat /\ d + k <= HighAddr
            BY <1>1, <1>3, <3>1
        <3> QED BY <3>2, AddrFacts
    <2>3. PICK r : r = [c EXCEPT ![x] = 0]
        OBVIOUS
    <2>4. M!libc_strlcpy(mem, d, s, n) = r
        BY <1>2, <1>4, <2>1, <2>2, <2>3, ByteFacts DEF M!libc_strlcpy
    <2>5. r \in Memories /\ r[x] = 0 /\ \A a \in M!Addr : a # x => r[a] = c[a]
        BY <1>5, <2>3, ByteFacts DEF Memories
    <2>6. SameBytes(r, mem, d, s, k)
        <3>1. ASSUME NEW i \in 0..(k - 1) PROVE r[d + i] = mem[s + i]
            <4>1. HighAddr \in Nat /\ d + k <= HighAddr
                BY <2>2, AddrFacts
            <4>2. d + i \in Nat /\ d + i <= HighAddr /\ d + i # d + k
                BY <1>1, <4>1
            <4>3. d + i \in M!Addr /\ d + i # x
                BY <2>2, <4>2, AddrFacts
            <4>4. c[d + i] = mem[s + i]
                BY <1>4 DEF SameBytes
            <4> QED BY <2>5, <4>3, <4>4
        <3> QED BY <3>1 DEF SameBytes
    <2>7. KeptBytes(r, mem, d, k + 1)
        <3>1. \A a : a \in M!Span(d, k) \/ a = x => a \in M!Span(d, k + 1)
            BY <1>1, <2>2 DEF M!Span
        <3>2. \A a \in M!Addr \ M!Span(d, k) : c[a] = mem[a]
            BY <1>4 DEF KeptBytes
        <3> QED BY <2>5, <3>1, <3>2 DEF KeptBytes
    <2>8. HasLen(r, d, k)
        <3>1. k <= l
            BY <1>1, <1>3
        <3> QED BY <1>1, <1>2, <2>2, <2>5, <2>6, <3>1, CopyHasLen
    <2>9. M!IsString(r, d) /\ M!strlen(r, d) = k
        BY <1>1, <2>8, LenFound
    <2>10. EndsIt(r, mem, d, s, n)
        BY <1>2, <1>3, <2>6, <2>7, <2>9 DEF EndsIt
    <2>11. CallRight("libc_strlcpy", r, mem, d, s, n)
        BY <2>5, <2>10 DEF CallRight
    <2> QED BY <1>11, <2>4, <2>11, CallKeeps
<1> QED BY <1>8, <1>9, <1>10, <1>11 DEF M!Text

(***************************************************************************)
(* Before the first call there is nothing to be right.                     *)
(***************************************************************************)
LEMMA StringsNone ==
    ASSUME mem \in Memories, call = M!None
    PROVE  StringsInv
<1>1. call.fn = "none"
    BY DEF M!None
<1> QED BY <1>1 DEF StringsInv, M!CopiesAll, M!StringFits, M!NotTerminated, M!StringEnds

(***************************************************************************)
(* Every call keeps the invariant.                                         *)
(***************************************************************************)
LEMMA StringsKeeps ==
    ASSUME StringsInv, M!Next
    PROVE  StringsInv'
<1>0. mem \in Memories
    BY DEF StringsInv
<1>1. CASE \E d, s \in M!Addr, n \in 0..Half :
              d + n \in M!Addr /\ s + n \in M!Addr /\ (M!Memory(d, s, n) \/ M!Text(d, s, n))
    <2>1. PICK d \in M!Addr, s \in M!Addr, n \in 0..Half :
              d + n \in M!Addr /\ s + n \in M!Addr /\ (M!Memory(d, s, n) \/ M!Text(d, s, n))
        BY <1>1
    <2>2. CallArgs(mem, d, s, n)
        BY <1>0, <2>1 DEF CallArgs
    <2> QED BY <2>1, <2>2, MemoryKeeps, TextKeeps
<1>2. CASE \E d \in M!Addr, c \in Byte, n \in 0..Half : d + n \in M!Addr /\ M!Fill(d, c, n)
    <2>1. PICK d \in M!Addr, c \in Byte, n \in 0..Half : M!Fill(d, c, n)
        BY <1>2
    <2>2. call = M!None /\ call' = M!None /\ mem' = M!memset(mem, d, c, n)
        BY <2>1 DEF M!Fill
    <2>3. M!memset(mem, d, c, n) \in Memories
        BY <1>0 DEF M!memset, Memories
    <2>4. (mem \in Memories /\ call = M!None)'
        BY <2>2, <2>3 DEF M!None, Memories, M!Addr
    <2> QED BY <2>4, StringsNone, PTL
<1>3. CASE M!GoOn
    <2>1. (mem \in Memories /\ call = M!None)'
        BY <1>0, <1>3 DEF M!GoOn, M!None, Memories, M!Addr
    <2> QED BY <2>1, StringsNone, PTL
<1> QED BY <1>1, <1>2, <1>3 DEF M!Next

(***************************************************************************)
(* The memory and string routines of kernel/string.S, kernel/string.c and  *)
(* libc, in any memory, for any bytes, addresses and lengths the callers   *)
(* may pass: memcpy and memmove copy all of a range that does not overlap  *)
(* its source, strlcpy leaves the string when there is room, libc's always *)
(* leaves one, strncpy writes nothing behind what it copied, and the three *)
(* comparisons agree on which strings are equal.                           *)
(***************************************************************************)
THEOREM RoutinesRightAlways == M!Spec => []RoutinesRight
<1>1. M!Init => StringsInv
    <2>1. M!Init => mem \in Memories /\ call = M!None
        BY DEF M!Init, Memories
    <2> QED BY <2>1, StringsNone
<1>2. StringsInv /\ [M!Next]_M!vars => StringsInv'
    <2>1. StringsInv /\ UNCHANGED M!vars => StringsInv'
        BY DEF StringsInv, M!vars, Memories, M!CopiesAll, M!StringFits, M!NotTerminated,
               M!StringEnds, M!SameText, M!Touched
    <2> QED BY <2>1, StringsKeeps
<1>3. StringsInv => RoutinesRight
    BY AgreeAlways DEF StringsInv, RoutinesRight, M!RoutinesRight
<1> QED BY <1>1, <1>2, <1>3, PTL DEF M!Spec
=============================================================================
