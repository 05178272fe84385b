-------------------------- MODULE PageAllocProofs --------------------------
(***************************************************************************)
(* Proofs about PageAlloc for every memory map and every set of sizes, and *)
(* the proof that it implements PagePool.                                  *)
(***************************************************************************)
EXTENDS PageAlloc, CommonLemmas

-----------------------------------------------------------------------------
(***************************************************************************)
(* Lemmas about blocks                                                     *)
(***************************************************************************)

(***************************************************************************)
(* pg_roundup gives the least multiple of the page that is large enough.   *)
(***************************************************************************)
LEMMA RoundupFacts ==
    ASSUME NEW x \in Nat
    PROVE  /\ pg_roundup(x) \in Nat
           /\ pg_roundup(x) % PGSIZE = 0
           /\ \A y \in Nat : y % PGSIZE = 0 /\ y >= x => y >= pg_roundup(x)
BY DEF pg_roundup, PGSIZE

(***************************************************************************)
(* Splitting a block after need bytes divides its pages in two.            *)
(***************************************************************************)
LEMMA SplitPages ==
    ASSUME NEW b \in Block, Aligned(b),
           NEW need \in Nat, need % PGSIZE = 0, need <= b.sz
    PROVE  LET start == [addr |-> b.addr, sz |-> need]
           IN  /\ Rest(b, need) \in Block
               /\ Aligned(Rest(b, need))
               /\ Pages(start) \cup Pages(Rest(b, need)) = Pages(b)
               /\ Pages(start) \cap Pages(Rest(b, need)) = {}
               /\ need = b.sz => Pages(start) = Pages(b)
<1>1. b.addr \in Nat /\ b.sz \in Nat /\ b.addr % 4096 = 0 /\ b.sz % 4096 = 0
    BY DEF Block, Aligned, PGSIZE
<1> DEFINE u == b.addr \div 4096
           v == need \div 4096
           w == b.sz \div 4096
<1>2. /\ u \in Nat /\ v \in Nat /\ w \in Nat /\ v <= w
      /\ b.addr = 4096 * u /\ need = 4096 * v /\ b.sz = 4096 * w
    BY <1>1 DEF PGSIZE
<1> HIDE DEF u, v, w
<1>3. /\ Pages([addr |-> b.addr, sz |-> need]) = u..(u + v - 1)
      /\ Pages(b) = u..(u + w - 1)
    BY <1>2 DEF Pages, PGSIZE
<1>4. Rest(b, need) = [addr |-> 4096 * (u + v), sz |-> 4096 * (w - v)]
    BY <1>2 DEF Rest
<1>5. Pages(Rest(b, need)) = (u + v)..(u + w - 1)
    BY <1>2, <1>4 DEF Pages, PGSIZE
<1>6. Rest(b, need) \in Block /\ Aligned(Rest(b, need))
    BY <1>2, <1>4 DEF Block, Aligned, PGSIZE
<1> QED BY <1>2, <1>3, <1>5, <1>6

-----------------------------------------------------------------------------
(***************************************************************************)
(* Lemmas about lists of blocks                                            *)
(***************************************************************************)

(***************************************************************************)
(* A list the allocator can work with.                                     *)
(***************************************************************************)
GoodList(list) ==
    /\ list \in Seq(Block)
    /\ \A i \in DOMAIN list : Aligned(list[i])
    /\ Disjoint(list)

(***************************************************************************)
(* A page belongs to the list if it belongs to one of its blocks.          *)
(***************************************************************************)
LEMMA InPagesOf ==
    ASSUME NEW list, NEW x
    PROVE  x \in PagesOf(list) <=> \E i \in DOMAIN list : x \in Pages(list[i])
BY DEF PagesOf

(***************************************************************************)
(* The empty list is good.                                                 *)
(***************************************************************************)
LEMMA EmptyList == GoodList(<<>>) /\ PagesOf(<<>>) = {}
BY DEF GoodList, Disjoint, PagesOf

(***************************************************************************)
(* LIST_INSERT of a block that overlaps no other one.                      *)
(***************************************************************************)
LEMMA InsertGood ==
    ASSUME NEW list, GoodList(list), NEW n \in Block, Aligned(n),
           Pages(n) \cap PagesOf(list) = {}, NEW i \in 1..(Len(list) + 1)
    PROVE  /\ GoodList(InsertAt(list, i, n))
           /\ PagesOf(InsertAt(list, i, n)) = PagesOf(list) \cup Pages(n)
<1> DEFINE r == InsertAt(list, i, n)
<1>1. /\ list \in Seq(Block) /\ Len(list) \in Nat /\ DOMAIN list = 1..Len(list)
      /\ \A j \in DOMAIN list : Aligned(list[j])
      /\ Disjoint(list)
    BY DEF GoodList
<1>2. /\ r \in Seq(Block) /\ Len(r) = Len(list) + 1
      /\ \A j \in 1..(i - 1) : r[j] = list[j]
      /\ r[i] = n
      /\ \A j \in i..Len(list) : r[j + 1] = list[j]
    <2> DEFINE S == Block
    <2>1. list \in Seq(S) /\ n \in S
        BY <1>1
    <2> HIDE DEF S
    <2>2. r \in Seq(S) /\ Len(r) = Len(list) + 1
        BY <2>1, InsertAtElements
    <2>3. \A j \in 1..(i - 1) : r[j] = list[j]
        BY <2>1, InsertAtElements
    <2>4. r[i] = n
        BY <2>1, InsertAtElements
    <2>5. \A j \in i..Len(list) : r[j + 1] = list[j]
        BY <2>1, InsertAtElements
    <2> QED BY <2>2, <2>3, <2>4, <2>5 DEF S
<1> HIDE DEF r
<1>3. DOMAIN r = 1..(Len(list) + 1)
    BY <1>2
<1> DEFINE old(j) == IF j < i THEN j ELSE j - 1
<1>4. ASSUME NEW j \in DOMAIN r, j # i
      PROVE  old(j) \in DOMAIN list /\ r[j] = list[old(j)]
    <2>1. CASE j < i
        BY <1>1, <1>2, <1>3, <1>4, <2>1
    <2>2. CASE j > i
        <3>1. (j - 1) \in i..Len(list) /\ j - 1 + 1 = j /\ old(j) = j - 1
            BY <1>1, <1>3, <2>2
        <3>2. r[j - 1 + 1] = list[j - 1]
            BY <1>2, <3>1
        <3> QED BY <1>1, <3>1, <3>2
    <2> QED BY <1>1, <1>3, <1>4, <2>1, <2>2
<1>5. \A j, k \in DOMAIN r : j # k /\ j # i /\ k # i => old(j) # old(k)
    BY <1>1, <1>3
<1> HIDE DEF old
<1>6. \A j \in DOMAIN r : Aligned(r[j])
    BY <1>1, <1>2, <1>4
<1>7. \A j \in DOMAIN list : Pages(list[j]) \cap Pages(n) = {}
    BY InPagesOf
<1>8. Disjoint(r)
    <2> SUFFICES ASSUME NEW j \in DOMAIN r, NEW k \in DOMAIN r, j # k
                 PROVE  Pages(r[j]) \cap Pages(r[k]) = {}
        BY DEF Disjoint
    <2>1. CASE j = i
        BY <1>2, <1>4, <1>7, <2>1
    <2>2. CASE k = i
        BY <1>2, <1>4, <1>7, <2>2
    <2>3. CASE j # i /\ k # i
        BY <1>1, <1>4, <1>5, <2>3 DEF Disjoint
    <2> QED BY <2>1, <2>2, <2>3
<1>9. ASSUME NEW x \in PagesOf(r) PROVE x \in PagesOf(list) \cup Pages(n)
    <2>1. PICK j \in DOMAIN r : x \in Pages(r[j])
        BY InPagesOf
    <2> QED BY <1>2, <1>4, <2>1, InPagesOf
<1>10. ASSUME NEW x \in PagesOf(list) \cup Pages(n) PROVE x \in PagesOf(r)
    <2>1. CASE x \in Pages(n)
        <3>1. i \in DOMAIN r
            BY <1>1, <1>3
        <3> QED BY <1>2, <2>1, <3>1, InPagesOf
    <2>2. CASE x \in PagesOf(list)
        <3>1. PICK j \in DOMAIN list : x \in Pages(list[j])
            BY <2>2, InPagesOf
        <3>2. CASE j < i
            <4>1. j \in DOMAIN r /\ r[j] = list[j]
                BY <1>1, <1>2, <1>3, <3>2
            <4> QED BY <3>1, <4>1, InPagesOf
        <3>3. CASE j >= i
            <4>1. j \in i..Len(list) /\ (j + 1) \in DOMAIN r
                BY <1>1, <1>3, <3>3
            <4>2. r[j + 1] = list[j]
                BY <1>2, <4>1
            <4> QED BY <3>1, <4>1, <4>2, InPagesOf
        <3> QED BY <1>1, <3>2, <3>3
    <2> QED BY <2>1, <2>2
<1> QED BY <1>2, <1>6, <1>8, <1>9, <1>10 DEF GoodList, r

(***************************************************************************)
(* LIST_REMOVE takes the pages of one block away.                          *)
(***************************************************************************)
LEMMA RemoveGood ==
    ASSUME NEW list, GoodList(list), NEW i \in DOMAIN list
    PROVE  /\ GoodList(RemoveAt(list, i))
           /\ PagesOf(RemoveAt(list, i)) = PagesOf(list) \ Pages(list[i])
           /\ Pages(list[i]) \subseteq PagesOf(list)
           /\ list[i] \in Block /\ Aligned(list[i])
<1> DEFINE r == RemoveAt(list, i)
<1>1. /\ list \in Seq(Block) /\ Len(list) \in Nat /\ DOMAIN list = 1..Len(list)
      /\ \A j \in DOMAIN list : Aligned(list[j])
      /\ Disjoint(list)
    BY DEF GoodList
<1>2. /\ r \in Seq(Block) /\ Len(r) = Len(list) - 1
      /\ \A j \in 1..(Len(list) - 1) : r[j] = IF j < i THEN list[j] ELSE list[j + 1]
    BY <1>1, RemoveAtElements
<1> HIDE DEF r
<1>3. DOMAIN r = 1..(Len(list) - 1)
    BY <1>1, <1>2
<1> DEFINE old(j) == IF j < i THEN j ELSE j + 1
<1>4. ASSUME NEW j \in DOMAIN r
      PROVE  old(j) \in DOMAIN list /\ old(j) # i /\ r[j] = list[old(j)]
    BY <1>1, <1>2, <1>3
<1>5. \A j, k \in DOMAIN r : j # k => old(j) # old(k)
    BY <1>1, <1>3
<1> HIDE DEF old
<1>6. \A j \in DOMAIN r : Aligned(r[j])
    BY <1>1, <1>4
<1>7. Disjoint(r)
    <2> SUFFICES ASSUME NEW j \in DOMAIN r, NEW k \in DOMAIN r, j # k
                 PROVE  Pages(r[j]) \cap Pages(r[k]) = {}
        BY DEF Disjoint
    <2> QED BY <1>1, <1>4, <1>5 DEF Disjoint
<1>8. ASSUME NEW x \in PagesOf(r) PROVE x \in PagesOf(list) \ Pages(list[i])
    <2>1. PICK j \in DOMAIN r : x \in Pages(r[j])
        BY InPagesOf
    <2>2. old(j) \in DOMAIN list /\ old(j) # i /\ x \in Pages(list[old(j)])
        BY <1>4, <2>1
    <2>3. x \notin Pages(list[i])
        BY <1>1, <2>2 DEF Disjoint
    <2> QED BY <2>2, <2>3, InPagesOf
<1>9. ASSUME NEW x \in PagesOf(list) \ Pages(list[i]) PROVE x \in PagesOf(r)
    <2>1. PICK j \in DOMAIN list : x \in Pages(list[j])
        BY InPagesOf
    <2>2. CASE j < i
        <3>1. j \in DOMAIN r /\ r[j] = list[j]
            BY <1>1, <1>2, <1>3, <2>2
        <3> QED BY <2>1, <3>1, InPagesOf
    <2>3. CASE j > i
        <3>1. (j - 1) \in DOMAIN r /\ ~(j - 1 < i) /\ j - 1 + 1 = j
            BY <1>1, <1>3, <2>3
        <3>2. r[j - 1] = list[j]
            BY <1>2, <1>3, <3>1
        <3> QED BY <2>1, <3>1, <3>2, InPagesOf
    <2> QED BY <1>1, <2>1, <2>2, <2>3
<1>10. Pages(list[i]) \subseteq PagesOf(list)
    BY InPagesOf
<1>11. list[i] \in Block /\ Aligned(list[i])
    BY <1>1, ElementOfSeq
<1> QED BY <1>2, <1>6, <1>7, <1>8, <1>9, <1>10, <1>11 DEF GoodList, r

-----------------------------------------------------------------------------
(***************************************************************************)
(* Lemmas about the operations                                             *)
(***************************************************************************)

(***************************************************************************)
(* free_pages adds the pages of the block, or the list is and stays empty. *)
(***************************************************************************)
LEMMA InsertBlockFacts ==
    ASSUME NEW list, GoodList(list), NEW n \in Block, Aligned(n),
           Pages(n) \cap PagesOf(list) = {}, InsertBlock(list, n)
    PROVE  /\ GoodList(freelist')
           /\ \/ PagesOf(freelist') = PagesOf(list) \cup Pages(n)
              \/ list = <<>> /\ freelist' = <<>>
<1>1. CASE list = <<>> /\ freelist' = list
    BY <1>1
<1>2. CASE \E i \in 1..(Len(list) + 1) : freelist' = InsertAt(list, i, n)
    BY <1>2, InsertGood
<1> QED BY <1>1, <1>2 DEF InsertBlock

(***************************************************************************)
(* init_mem adds the pages of the region.                                  *)
(***************************************************************************)
LEMMA InsertAfterLargerFacts ==
    ASSUME GoodList(freelist), NEW n \in Block, Aligned(n),
           Pages(n) \cap PagesOf(freelist) = {}, InsertAfterLarger(n)
    PROVE  /\ GoodList(freelist')
           /\ PagesOf(freelist') = PagesOf(freelist) \cup Pages(n)
<1>0. freelist \in Seq(Block)
    BY DEF GoodList
<1>1. CASE freelist = <<>> /\ freelist' = <<n>>
    <2>1. <<n>> \in Seq(Block) /\ DOMAIN <<n>> = {1} /\ <<n>>[1] = n
        OBVIOUS
    <2>2. GoodList(<<n>>)
        BY <2>1 DEF GoodList, Disjoint
    <2>3. PagesOf(<<n>>) = Pages(n)
        BY <2>1 DEF PagesOf
    <2>4. PagesOf(freelist) = {}
        BY <1>1, EmptyList
    <2> QED BY <1>1, <2>2, <2>3, <2>4
<1>2. CASE \E i \in DOMAIN freelist : freelist' = InsertAt(freelist, i + 1, n)
    <2>1. PICK i \in DOMAIN freelist : freelist' = InsertAt(freelist, i + 1, n)
        BY <1>2
    <2>2. (i + 1) \in 1..(Len(freelist) + 1)
        BY <1>0
    <2> QED BY <2>1, <2>2, InsertGood
<1> QED BY <1>1, <1>2 DEF InsertAfterLarger

(***************************************************************************)
(* alloc_pages moves a run of free pages to the caller; the other pages of *)
(* the list stay in it, or it is empty.                                    *)
(***************************************************************************)
LEMMA TakeFacts ==
    ASSUME GoodList(freelist), NEW sz \in Nat, Take(sz)
    PROVE  \E u, v \in Int :
              /\ held' = held \cup (u..v)
              /\ u..v \subseteq PagesOf(freelist)
              /\ GoodList(freelist')
              /\ \/ PagesOf(freelist') = PagesOf(freelist) \ (u..v)
                 \/ freelist' = <<>>
<1> DEFINE need == pg_roundup(sz)
<1>1. PICK i \in DOMAIN freelist :
         /\ Fits(i, sz)
         /\ held' = held \cup Pages([addr |-> freelist[i].addr, sz |-> need])
         /\ \/ /\ freelist[i].sz > need
               /\ InsertBlock(RemoveAt(freelist, i), Rest(freelist[i], need))
            \/ freelist[i].sz <= need /\ freelist' = RemoveAt(freelist, i)
    BY DEF Take
<1> DEFINE b == freelist[i]
           start == [addr |-> b.addr, sz |-> need]
           list == RemoveAt(freelist, i)
<1>2. /\ GoodList(list) /\ PagesOf(list) = PagesOf(freelist) \ Pages(b)
      /\ Pages(b) \subseteq PagesOf(freelist)
      /\ b \in Block /\ Aligned(b)
    BY RemoveGood
<1>3. /\ need \in Nat /\ need % PGSIZE = 0 /\ need <= b.sz
    <2>1. b.sz \in Nat /\ b.sz % PGSIZE = 0 /\ b.sz >= sz
        BY <1>1, <1>2 DEF Block, Aligned, Fits
    <2>2. need \in Nat /\ need % PGSIZE = 0 /\ b.sz >= need
        BY <2>1, RoundupFacts
    <2> QED BY <2>1, <2>2
<1> HIDE DEF need
<1>4. /\ Rest(b, need) \in Block /\ Aligned(Rest(b, need))
      /\ Pages(start) \cup Pages(Rest(b, need)) = Pages(b)
      /\ Pages(start) \cap Pages(Rest(b, need)) = {}
      /\ need = b.sz => Pages(start) = Pages(b)
    BY <1>2, <1>3, SplitPages
<1> DEFINE u == b.addr \div PGSIZE
           v == (b.addr + need) \div PGSIZE - 1
<1>5. Pages(start) = u..v /\ u \in Int /\ v \in Int
    BY <1>2, <1>3 DEF Pages, PGSIZE, Block
<1>6. held' = held \cup Pages(start)
    BY <1>1
<1>7. b.sz \in Nat
    BY <1>2 DEF Block
<1> HIDE DEF b, list, u, v, start
<1>8. /\ Pages(start) \subseteq PagesOf(freelist)
      /\ GoodList(freelist')
      /\ PagesOf(freelist') = PagesOf(freelist) \ Pages(start) \/ freelist' = <<>>
    <2>1. CASE b.sz > need /\ InsertBlock(list, Rest(b, need))
        <3>1. Pages(Rest(b, need)) \cap PagesOf(list) = {}
            BY <1>2, <1>4
        <3>2. /\ GoodList(freelist')
              /\ \/ PagesOf(freelist') = PagesOf(list) \cup Pages(Rest(b, need))
                 \/ freelist' = <<>>
            BY <1>2, <1>4, <2>1, <3>1, InsertBlockFacts
        <3> QED BY <1>2, <1>4, <3>2
    <2>2. CASE b.sz <= need /\ freelist' = list
        <3>1. need = b.sz
            BY <1>3, <1>7, <2>2
        <3> QED BY <1>2, <1>4, <2>2, <3>1
    <2> QED BY <1>1, <2>1, <2>2 DEF b, list
<1> QED BY <1>5, <1>6, <1>8

-----------------------------------------------------------------------------
(***************************************************************************)
(* The inductive invariant                                                 *)
(***************************************************************************)

(***************************************************************************)
(* Free memory lies inside the memory map, and the regions init_mem has    *)
(* not come to are in nobody's hands.                                      *)
(***************************************************************************)
RegionInv ==
    /\ PagesOf(freelist) \subseteq PagesOf(memmap)
    /\ Coming \cap PagesOf(freelist) = {}
    /\ Coming \cap held = {}
    /\ phase # "map" => m = Len(memmap) + 1

IInv ==
    /\ TypeOK
    /\ NoSharing
    /\ RegionInv

(***************************************************************************)
(* What the invariant and the assumption on the maps say of the map.       *)
(***************************************************************************)
LEMMA MapFacts ==
    ASSUME memmap \in MemMaps
    PROVE  /\ GoodList(memmap)
           /\ Len(memmap) \in Nat /\ DOMAIN memmap = 1..Len(memmap)
           /\ PagesOf(memmap) \subseteq Nat
<1>1. GoodList(memmap)
    BY MemMapsAssumption DEF GoodList
<1>2. memmap \in Seq(Block)
    BY <1>1 DEF GoodList
<1>3. ASSUME NEW x \in PagesOf(memmap) PROVE x \in Nat
    <2>1. PICK i \in DOMAIN memmap : x \in Pages(memmap[i])
        BY InPagesOf
    <2>2. memmap[i].addr \in Nat /\ memmap[i].sz \in Nat
        <3>1. memmap[i] \in Block
            BY <1>2
        <3> QED BY <3>1 DEF Block
    <2>3. memmap[i].addr \div 4096 \in Nat
        BY <2>2
    <2> QED BY <2>1, <2>2, <2>3 DEF Pages, PGSIZE
<1> QED BY <1>1, <1>2, <1>3

(***************************************************************************)
(* Membership in Coming.                                                   *)
(***************************************************************************)
LEMMA InComing ==
    ASSUME NEW x
    PROVE  x \in Coming <=> \E i \in m..Len(memmap) : x \in Pages(memmap[i])
BY DEF Coming

(***************************************************************************)
(* init_mem starts with the invariant.                                     *)
(***************************************************************************)
LEMMA InitIInv == Init => IInv
<1> SUFFICES ASSUME Init PROVE IInv
    OBVIOUS
<1>1. /\ memmap \in MemMaps /\ m = 1 /\ freelist = <<>> /\ held = {} /\ phase = "map"
    BY DEF Init
<1>2. GoodList(freelist) /\ PagesOf(freelist) = {}
    BY <1>1, EmptyList
<1>3. m \in 1..(Len(memmap) + 1)
    BY <1>1, MapFacts
<1>4. TypeOK
    BY <1>1, <1>2, <1>3 DEF TypeOK, GoodList
<1> QED BY <1>1, <1>2, <1>4 DEF IInv, NoSharing, RegionInv, GoodList

(***************************************************************************)
(* A turn of init_mem's loop moves a region into the list.                 *)
(***************************************************************************)
LEMMA AddRegionFacts ==
    ASSUME IInv, AddRegion
    PROVE  IInv' /\ FreeSet' = FreeSet /\ held' = held
<1>1. /\ memmap \in MemMaps /\ m \in 1..Len(memmap) /\ GoodList(freelist)
      /\ phase = "map" /\ InsertAfterLarger(memmap[m])
      /\ m' = m + 1 /\ memmap' = memmap /\ held' = held /\ phase' = phase
    <2>1. memmap \in MemMaps /\ m \in 1..(Len(memmap) + 1)
        BY DEF IInv, TypeOK
    <2>2. Len(memmap) \in Nat
        BY <2>1, MapFacts
    <2> QED BY <2>1, <2>2 DEF IInv, TypeOK, NoSharing, GoodList, AddRegion
<1>2. /\ GoodList(memmap) /\ Len(memmap) \in Nat /\ DOMAIN memmap = 1..Len(memmap)
      /\ memmap[m] \in Block /\ Aligned(memmap[m])
    BY <1>1, MapFacts DEF GoodList
<1>3. Pages(memmap[m]) \subseteq Coming /\ Pages(memmap[m]) \subseteq PagesOf(memmap)
    <2>1. m \in m..Len(memmap) /\ m \in DOMAIN memmap
        BY <1>1, <1>2
    <2> QED BY <2>1, InComing, InPagesOf
<1>4. Coming' = Coming \ Pages(memmap[m])
    <2>1. ASSUME NEW x \in Coming' PROVE x \in Coming \ Pages(memmap[m])
        <3>1. PICK i \in (m + 1)..Len(memmap) : x \in Pages(memmap[i])
            BY <1>1 DEF Coming
        <3>2. i \in m..Len(memmap) /\ i # m /\ i \in DOMAIN memmap /\ m \in DOMAIN memmap
            BY <1>1, <1>2, <3>1
        <3> QED BY <1>2, <3>1, <3>2, InComing DEF GoodList, Disjoint
    <2>2. ASSUME NEW x \in Coming \ Pages(memmap[m]) PROVE x \in Coming'
        <3>1. PICK i \in m..Len(memmap) : x \in Pages(memmap[i])
            BY InComing
        <3>2. i \in (m + 1)..Len(memmap)
            BY <1>1, <1>2, <3>1
        <3> QED BY <1>1, <3>1, <3>2 DEF Coming
    <2> QED BY <2>1, <2>2
<1>5. /\ GoodList(freelist') /\ PagesOf(freelist') = PagesOf(freelist) \cup Pages(memmap[m])
    BY <1>1, <1>2, <1>3, InsertAfterLargerFacts DEF IInv, RegionInv
<1>6. TypeOK'
    <2>1. m' \in 1..(Len(memmap') + 1)
        BY <1>1, <1>2
    <2> QED BY <1>1, <1>5, <2>1 DEF IInv, TypeOK, GoodList
<1>7. NoSharing' /\ RegionInv'
    BY <1>1, <1>3, <1>4, <1>5 DEF IInv, NoSharing, RegionInv, GoodList
<1>8. FreeSet' = FreeSet
    BY <1>3, <1>4, <1>5 DEF FreeSet
<1> QED BY <1>1, <1>6, <1>7, <1>8 DEF IInv

(***************************************************************************)
(* alloc_pages, for init_mem's heap or any other caller.                   *)
(***************************************************************************)
LEMMA TakeStep ==
    ASSUME IInv, NEW sz \in Nat, Take(sz), phase # "map",
           memmap' = memmap, m' = m, phase' \in {"run", "heap"}
    PROVE  /\ IInv'
           /\ \E u, v \in Int :
                 /\ held' = held \cup (u..v)
                 /\ u..v \subseteq FreeSet
                 /\ u..v \cap held = {}
                 /\ \/ FreeSet' = FreeSet \ (u..v)
                    \/ FreeSet' = {} /\ freelist' = <<>>
<1>1. /\ memmap \in MemMaps /\ GoodList(freelist) /\ m = Len(memmap) + 1
      /\ Len(memmap) \in Nat /\ m \in 1..(Len(memmap) + 1)
    BY MapFacts DEF IInv, TypeOK, NoSharing, RegionInv, GoodList
<1>2. Coming = {} /\ Coming' = {}
    <2>1. m..Len(memmap) = {}
        BY <1>1
    <2>2. m'..Len(memmap') = {}
        BY <2>1
    <2> QED BY <2>1, <2>2 DEF Coming
<1>3. PICK u, v \in Int :
         /\ held' = held \cup (u..v)
         /\ u..v \subseteq PagesOf(freelist)
         /\ GoodList(freelist')
         /\ PagesOf(freelist') = PagesOf(freelist) \ (u..v) \/ freelist' = <<>>
    BY <1>1, TakeFacts
<1>4. u..v \cap held = {}
    BY <1>3 DEF IInv, NoSharing
<1>5. freelist' = <<>> => PagesOf(freelist') = {}
    BY EmptyList
<1>6. PagesOf(freelist') \subseteq PagesOf(freelist) /\ PagesOf(freelist') \cap (u..v) = {}
    BY <1>3, <1>5
<1>7. TypeOK'
    BY <1>1, <1>3 DEF IInv, TypeOK, RegionInv, GoodList
<1>8. NoSharing' /\ RegionInv'
    BY <1>1, <1>2, <1>3, <1>6 DEF IInv, NoSharing, RegionInv, GoodList
<1>9. FreeSet = PagesOf(freelist) /\ FreeSet' = PagesOf(freelist')
    BY <1>2 DEF FreeSet
<1> QED BY <1>3, <1>4, <1>5, <1>7, <1>8, <1>9 DEF IInv

(***************************************************************************)
(* What a caller gives back is page aligned.                               *)
(***************************************************************************)
LEMMA HeldBlock ==
    ASSUME IInv, NEW b \in HeldBlocks
    PROVE  b \in Block /\ Aligned(b)
<1>1. PICK pg \in held, sz \in Sizes :
         b = [addr |-> pg * PGSIZE, sz |-> pg_roundup(sz)]
    BY DEF HeldBlocks
<1>2. pg \in Nat /\ sz \in Nat
    BY MapFacts, SizesAssumption DEF IInv, TypeOK
<1>3. pg_roundup(sz) \in Nat /\ pg_roundup(sz) % PGSIZE = 0
    BY <1>2, RoundupFacts
<1>4. pg * PGSIZE \in Nat /\ (pg * PGSIZE) % PGSIZE = 0
    BY <1>2 DEF PGSIZE
<1> QED BY <1>1, <1>3, <1>4 DEF Block, Aligned

(***************************************************************************)
(* free_pages of a caller's pages.                                         *)
(***************************************************************************)
LEMMA FreePagesStep ==
    ASSUME IInv, NEW b \in HeldBlocks, FreePages(b)
    PROVE  /\ IInv'
           /\ \E u, v \in Int :
                 /\ u..v \subseteq held
                 /\ held' = held \ (u..v)
                 /\ \/ FreeSet' = FreeSet \cup (u..v)
                    \/ FreeSet = {} /\ FreeSet' = {} /\ freelist' = <<>>
<1>1. /\ memmap \in MemMaps /\ GoodList(freelist) /\ m = Len(memmap) + 1
      /\ Len(memmap) \in Nat /\ m \in 1..(Len(memmap) + 1) /\ held \subseteq Nat
      /\ phase = "run" /\ held \subseteq PagesOf(memmap)
    BY MapFacts DEF IInv, TypeOK, NoSharing, RegionInv, GoodList, FreePages
<1>2. /\ Pages(b) \subseteq held /\ held' = held \ Pages(b)
      /\ InsertBlock(freelist, b)
      /\ memmap' = memmap /\ m' = m /\ phase' = phase
    BY DEF FreePages
<1>3. Coming = {} /\ Coming' = {}
    <2>1. m..Len(memmap) = {}
        BY <1>1
    <2>2. m'..Len(memmap') = {}
        BY <1>2, <2>1
    <2> QED BY <2>1, <2>2 DEF Coming
<1>4. b \in Block /\ Aligned(b)
    BY HeldBlock
<1> DEFINE u == b.addr \div PGSIZE
           v == (b.addr + b.sz) \div PGSIZE - 1
<1>5. Pages(b) = u..v /\ u \in Int /\ v \in Int
    BY <1>4 DEF Pages, PGSIZE, Block
<1> HIDE DEF u, v
<1>6. Pages(b) \cap PagesOf(freelist) = {}
    BY <1>2 DEF IInv, NoSharing
<1>7. /\ GoodList(freelist')
      /\ \/ PagesOf(freelist') = PagesOf(freelist) \cup Pages(b)
         \/ freelist = <<>> /\ freelist' = <<>>
    BY <1>1, <1>2, <1>4, <1>6, InsertBlockFacts
<1>8. PagesOf(<<>>) = {}
    BY EmptyList
<1>9. PagesOf(freelist') \subseteq PagesOf(freelist) \cup Pages(b)
    BY <1>7, <1>8
<1>10. TypeOK'
    BY <1>1, <1>2, <1>7 DEF IInv, TypeOK, GoodList
<1>11. NoSharing' /\ RegionInv'
    BY <1>1, <1>2, <1>3, <1>7, <1>9 DEF IInv, NoSharing, RegionInv, GoodList
<1>12. FreeSet = PagesOf(freelist) /\ FreeSet' = PagesOf(freelist')
    BY <1>3 DEF FreeSet
<1> QED BY <1>2, <1>5, <1>7, <1>8, <1>10, <1>11, <1>12 DEF IInv

(***************************************************************************)
(* A step that touches neither the list nor the callers' pages.            *)
(***************************************************************************)
LEMMA QuietStep ==
    ASSUME IInv, UNCHANGED <<memmap, m, freelist, held>>,
           \/ phase' = phase
           \/ /\ phase' \in {"heap", "noheap"}
              /\ m = Len(memmap) + 1
    PROVE  IInv' /\ FreeSet' = FreeSet
<1>1. Coming' = Coming
    BY DEF Coming
<1>2. TypeOK'
    BY DEF IInv, TypeOK
<1>3. NoSharing' /\ RegionInv'
    BY <1>1 DEF IInv, NoSharing, RegionInv
<1> QED BY <1>1, <1>2, <1>3 DEF IInv, FreeSet

(***************************************************************************)
(* Every step preserves the invariant and is a step of the page pool, or   *)
(* leaves the pool alone.  The pool loses memory only with an empty list.  *)
(***************************************************************************)
LEMMA NextStep ==
    ASSUME IInv, [Next]_vars
    PROVE  /\ IInv'
           /\ Pool!Next \/ (FreeSet' = FreeSet /\ held' = held)
           /\ KeepsMemory \/ freelist' = <<>>
<1>0. FreeSet \cap held = {}
    BY DEF IInv, NoSharing, RegionInv, FreeSet
<1>1. \A u, v \in Int : Pool!IsRun(u..v)
    <2>1. AllPages \subseteq Int
        <3> SUFFICES ASSUME NEW map \in MemMaps, NEW x \in PagesOf(map) PROVE x \in Int
            BY DEF AllPages
        <3>1. PICK i \in DOMAIN map : x \in Pages(map[i])
            BY InPagesOf
        <3> QED BY <3>1 DEF Pages
    <2> QED BY <2>1 DEF Pool!IsRun
<1>2. ASSUME NEW sz \in Nat, Take(sz), phase # "map",
             memmap' = memmap, m' = m, phase' \in {"run", "heap"}
      PROVE  IInv' /\ Pool!Next /\ (KeepsMemory \/ freelist' = <<>>)
    <2>1. /\ IInv'
          /\ \E u, v \in Int :
                 /\ held' = held \cup (u..v)
                 /\ u..v \subseteq FreeSet
                 /\ u..v \cap held = {}
                 /\ \/ FreeSet' = FreeSet \ (u..v)
                    \/ FreeSet' = {} /\ freelist' = <<>>
        BY <1>2, TakeStep
    <2>2. PICK u, v \in Int :
                 /\ held' = held \cup (u..v)
                 /\ u..v \subseteq FreeSet
                 /\ u..v \cap held = {}
                 /\ \/ FreeSet' = FreeSet \ (u..v)
                    \/ FreeSet' = {} /\ freelist' = <<>>
        BY <2>1
    <2>3. held' \ held = u..v
        BY <2>2
    <2>4. FreeSet \ held' = FreeSet \ (u..v)
        BY <1>0, <2>2
    <2>5. Pool!Alloc
        BY <1>1, <2>2, <2>3, <2>4 DEF Pool!Alloc
    <2>6. KeepsMemory \/ freelist' = <<>>
        BY <2>2 DEF KeepsMemory
    <2> QED BY <2>1, <2>5, <2>6 DEF Pool!Next
<1>3. CASE AddRegion
    BY <1>3, AddRegionFacts DEF KeepsMemory
<1>4. CASE EndOfMap
    <2>1. m = Len(memmap) + 1
        <3>1. m \in 1..(Len(memmap) + 1) /\ Len(memmap) \in Nat
            BY MapFacts DEF IInv, TypeOK
        <3> QED BY <1>4, <3>1 DEF EndOfMap
    <2> QED BY <1>4, <2>1, QuietStep DEF EndOfMap, KeepsMemory
<1>5. CASE InitHeap
    <2>1. CASE Take(HeapSize) /\ phase' = "run"
        <3>1. HeapSize \in Nat
            BY SizesAssumption
        <3> QED BY <1>2, <1>5, <2>1, <3>1 DEF InitHeap
    <2>2. CASE phase' = "noheap" /\ UNCHANGED <<freelist, held>>
        <3>1. m = Len(memmap) + 1
            BY <1>5 DEF InitHeap, IInv, RegionInv
        <3> QED BY <1>5, <2>2, <3>1, QuietStep DEF InitHeap, KeepsMemory
    <2> QED BY <1>5, <2>1, <2>2 DEF InitHeap
<1>6. ASSUME NEW sz \in Sizes, AllocPages(sz)
      PROVE  IInv' /\ Pool!Next /\ (KeepsMemory \/ freelist' = <<>>)
    <2>1. sz \in Nat
        BY SizesAssumption
    <2> QED BY <1>2, <1>6, <2>1 DEF AllocPages
<1>7. ASSUME NEW b \in HeldBlocks, FreePages(b)
      PROVE  IInv' /\ Pool!Next /\ (KeepsMemory \/ freelist' = <<>>)
    <2>1. IInv'
        BY <1>7, FreePagesStep
    <2>2. PICK u, v \in Int :
                 /\ u..v \subseteq held
                 /\ held' = held \ (u..v)
                 /\ \/ FreeSet' = FreeSet \cup (u..v)
                    \/ FreeSet = {} /\ FreeSet' = {} /\ freelist' = <<>>
        BY <1>7, FreePagesStep
    <2>3. held \ held' = u..v
        BY <2>2
    <2>4. Pool!Free
        BY <1>1, <2>2, <2>3 DEF Pool!Free
    <2>5. KeepsMemory \/ freelist' = <<>>
        BY <2>2 DEF KeepsMemory
    <2> QED BY <2>1, <2>4, <2>5 DEF Pool!Next
<1>8. CASE OutOfMemory \/ UNCHANGED vars
    BY <1>8, QuietStep DEF OutOfMemory, vars, KeepsMemory
<1> QED BY <1>3, <1>4, <1>5, <1>6, <1>7, <1>8 DEF Next

(***************************************************************************)
(* The invariant holds throughout.                                         *)
(***************************************************************************)
LEMMA SpecIInv == Spec => []IInv
<1>1. IInv /\ [Next]_vars => IInv'
    BY NextStep
<1> QED BY <1>1, InitIInv, PTL DEF Spec

-----------------------------------------------------------------------------
(***************************************************************************)
(* The properties of PageAlloc                                             *)
(***************************************************************************)

(***************************************************************************)
(* Type correctness: alloc_pages and free_pages keep the list page         *)
(* aligned.                                                                *)
(***************************************************************************)
THEOREM TypeCorrect == Spec => []TypeOK
<1>1. IInv => TypeOK
    BY DEF IInv
<1> QED BY <1>1, SpecIInv, PTL

(***************************************************************************)
(* alloc_pages never hands out a page that is still free or that somebody  *)
(* else holds.                                                             *)
(***************************************************************************)
THEOREM NoSharingCorrect == Spec => []NoSharing
<1>1. IInv => NoSharing
    BY DEF IInv
<1> QED BY <1>1, SpecIInv, PTL

(***************************************************************************)
(* Memory is forgotten by a step that leaves the free list empty, and by   *)
(* no other.                                                               *)
(***************************************************************************)
THEOREM ForgetsOnlyWhenEmptyCorrect == Spec => ForgetsOnlyWhenEmpty
<1>1. IInv /\ [Next]_vars => [KeepsMemory \/ freelist' = <<>>]_vars
    BY NextStep
<1> QED BY <1>1, SpecIInv, PTL DEF Spec, ForgetsOnlyWhenEmpty

(***************************************************************************)
(* Taking a block out of an ordered list leaves it in order.               *)
(***************************************************************************)
LEMMA RemoveOrdered ==
    ASSUME NEW list \in Seq(Block), NEW i \in DOMAIN list, Ordered(list)
    PROVE  RemoveAt(list, i) \in Seq(Block) /\ Ordered(RemoveAt(list, i))
<1>1. PICK q : q = RemoveAt(list, i)
    OBVIOUS
<1>2. /\ q \in Seq(Block) /\ Len(q) = Len(list) - 1
      /\ \A j \in 1..(Len(list) - 1) : q[j] = IF j < i THEN list[j] ELSE list[j + 1]
    BY <1>1, RemoveAtElements
<1>3. Len(list) \in Nat /\ i \in 1..Len(list) /\ DOMAIN list = 1..Len(list) /\ DOMAIN q = 1..(Len(list) - 1)
    BY <1>2
<1>4. ASSUME NEW j \in DOMAIN q, NEW k \in DOMAIN q, j < k PROVE q[j].sz <= q[k].sz
    <2>1. PICK a \in DOMAIN list : q[j] = list[a] /\ a = IF j < i THEN j ELSE j + 1
        BY <1>2, <1>3
    <2>2. PICK b \in DOMAIN list : q[k] = list[b] /\ b = IF k < i THEN k ELSE k + 1
        BY <1>2, <1>3
    <2>3. a < b
        BY <1>3, <1>4, <2>1, <2>2
    <2> QED BY <2>1, <2>2, <2>3 DEF Ordered
<1> QED BY <1>1, <1>2, <1>4 DEF Ordered

(***************************************************************************)
(* free_pages puts a block where its size belongs.                         *)
(***************************************************************************)
LEMMA InsertOrdered ==
    ASSUME NEW list \in Seq(Block), NEW n \in Block, Ordered(list), InsertBlock(list, n)
    PROVE  Ordered(freelist')
<1>1. CASE freelist' = list
    BY <1>1 DEF Ordered
<1>2. ASSUME NEW i \in 1..(Len(list) + 1),
             \A j \in 1..(i - 1) : list[j].sz < n.sz,
             i <= Len(list) => list[i].sz >= n.sz,
             freelist' = InsertAt(list, i, n)
      PROVE  Ordered(freelist')
    <2>1. PICK q : q = InsertAt(list, i, n)
        OBVIOUS
    <2>2. /\ q \in Seq(Block) /\ Len(q) = Len(list) + 1
          /\ \A j \in 1..(i - 1) : q[j] = list[j]
          /\ q[i] = n
          /\ \A j \in i..Len(list) : q[j + 1] = list[j]
        BY <2>1, InsertAtElements
    <2>3. /\ Len(list) \in Nat /\ DOMAIN list = 1..Len(list) /\ DOMAIN q = 1..(Len(list) + 1)
          /\ \A j \in 1..Len(list) : list[j].sz \in Nat
        <3>1. \A S, l : l \in Seq(S) =>
                 Len(l) \in Nat /\ DOMAIN l = 1..Len(l) /\ \A j \in 1..Len(l) : l[j] \in S
            OBVIOUS
        <3>2. \A b \in Block : b.sz \in Nat
            BY DEF Block
        <3>3. \A j \in 1..Len(list) : list[j] \in Block
            BY <3>1
        <3> QED BY <2>2, <3>1, <3>2, <3>3
    <2>4. n.sz \in Nat
        BY DEF Block
    <2>5. ASSUME NEW k \in i..Len(list) PROVE n.sz <= list[k].sz
        <3>1. i \in 1..Len(list) /\ k \in 1..Len(list) /\ i <= Len(list)
            BY <2>3
        <3>2. list[i].sz <= list[k].sz
            BY <2>3, <2>5, <3>1 DEF Ordered
        <3> QED BY <1>2, <2>3, <2>4, <3>1, <3>2
    <2>6. ASSUME NEW j \in DOMAIN q, NEW k \in DOMAIN q, j < k PROVE q[j].sz <= q[k].sz
        <3>1. CASE k < i
            <4>1. j \in 1..(i - 1) /\ k \in 1..(i - 1) /\ j \in DOMAIN list /\ k \in DOMAIN list
                BY <2>3, <2>6, <3>1
            <4> QED BY <2>2, <2>6, <4>1 DEF Ordered
        <3>2. CASE k = i
            <4>1. j \in 1..(i - 1) /\ j \in 1..Len(list)
                BY <2>3, <2>6, <3>2
            <4> QED BY <1>2, <2>2, <2>3, <2>4, <3>2, <4>1
        <3>3. CASE k > i
            <4>1. PICK b \in i..Len(list) : k = b + 1
                <5>1. k - 1 \in i..Len(list) /\ k = (k - 1) + 1
                    BY <2>3, <3>3
                <5> QED BY <5>1
            <4>2. q[k] = list[b]
                BY <2>2, <4>1
            <4>3. CASE j < i
                <5>1. j \in 1..(i - 1) /\ j \in DOMAIN list /\ b \in DOMAIN list /\ j < b
                    BY <2>3, <4>1, <4>3
                <5> QED BY <2>2, <4>2, <5>1 DEF Ordered
            <4>4. CASE j = i
                BY <2>2, <2>5, <4>2, <4>4
            <4>5. CASE j > i
                <5>1. PICK a \in i..Len(list) : j = a + 1
                    <6>1. j - 1 \in i..Len(list) /\ j = (j - 1) + 1
                        BY <2>3, <4>5
                    <6> QED BY <6>1
                <5>2. q[j] = list[a] /\ a \in DOMAIN list /\ b \in DOMAIN list /\ a < b
                    BY <2>2, <2>3, <2>6, <4>1, <5>1
                <5> QED BY <4>2, <5>2 DEF Ordered
            <4> QED BY <2>3, <4>3, <4>4, <4>5
        <3> QED BY <2>3, <3>1, <3>2, <3>3
    <2> QED BY <1>2, <2>1, <2>6 DEF Ordered
<1> QED BY <1>1, <1>2 DEF InsertBlock

(***************************************************************************)
(* Once init_mem has left the list in order of size, alloc_pages and       *)
(* free_pages keep it so, whatever is asked for and given back.            *)
(***************************************************************************)
THEOREM StaysOrderedCorrect == Spec => StaysOrdered
<1>1. ASSUME IInv, Next, phase # "map", Ordered(freelist)
      PROVE  Ordered(freelist')
    <2>1. freelist \in Seq(Block) /\ \A i \in DOMAIN freelist : freelist[i] \in Block
        BY <1>1 DEF IInv, TypeOK
    <2>2. ASSUME NEW sz \in Nat, Take(sz) PROVE Ordered(freelist')
        <3>1. PICK i \in DOMAIN freelist :
                 \/ /\ freelist[i].sz > pg_roundup(sz)
                    /\ InsertBlock(RemoveAt(freelist, i), Rest(freelist[i], pg_roundup(sz)))
                 \/ freelist' = RemoveAt(freelist, i)
            BY <2>2 DEF Take
        <3>2. RemoveAt(freelist, i) \in Seq(Block) /\ Ordered(RemoveAt(freelist, i))
            BY <1>1, <2>1, RemoveOrdered
        <3>3. CASE freelist' = RemoveAt(freelist, i)
            BY <3>2, <3>3
        <3>4. CASE /\ freelist[i].sz > pg_roundup(sz)
                   /\ InsertBlock(RemoveAt(freelist, i), Rest(freelist[i], pg_roundup(sz)))
            <4>1. PICK b, need, list : b = freelist[i] /\ need = pg_roundup(sz) /\ list = RemoveAt(freelist, i)
                OBVIOUS
            <4>2. b \in Block /\ need \in Nat
                BY <2>1, <4>1, RoundupFacts
            <4>3. Rest(b, need) \in Block
                BY <3>4, <4>1, <4>2 DEF Rest, Block
            <4> QED BY <3>2, <3>4, <4>1, <4>3, InsertOrdered
        <3> QED BY <3>1, <3>3, <3>4
    <2>3. CASE InitHeap
        <3>1. HeapSize \in Nat
            BY SizesAssumption
        <3> QED BY <1>1, <2>2, <2>3, <3>1 DEF InitHeap
    <2>4. CASE \E sz \in Sizes : AllocPages(sz)
        BY <2>2, <2>4, SizesAssumption DEF AllocPages
    <2>5. CASE \E b \in HeldBlocks : FreePages(b)
        <3>1. PICK b \in HeldBlocks : InsertBlock(freelist, b)
            BY <2>5 DEF FreePages
        <3>2. b \in Block
            BY <1>1, HeldBlock
        <3> QED BY <1>1, <2>1, <3>1, <3>2, InsertOrdered
    <2>6. CASE EndOfMap \/ OutOfMemory
        BY <1>1, <2>6 DEF EndOfMap, OutOfMemory, vars
    <2>7. CASE AddRegion
        BY <1>1, <2>7 DEF AddRegion
    <2> QED BY <1>1, <2>3, <2>4, <2>5, <2>6, <2>7 DEF Next
<1>2. IInv /\ [Next]_vars => [phase # "map" /\ Ordered(freelist) => Ordered(freelist')]_vars
    BY <1>1
<1> QED BY <1>2, SpecIInv, PTL DEF Spec, StaysOrdered

(***************************************************************************)
(* The allocator of mem.c implements the page pool.                        *)
(***************************************************************************)
THEOREM Refinement == Spec => PoolSpec
<1>1. Init => Pool!Init
    <2> SUFFICES ASSUME Init PROVE Pool!Init
        OBVIOUS
    <2>1. memmap \in MemMaps /\ held = {} /\ m = 1
        BY DEF Init
    <2>2. PagesOf(freelist) = {}
        BY EmptyList DEF Init
    <2>3. Coming \subseteq PagesOf(memmap)
        <3>1. m..Len(memmap) = DOMAIN memmap
            BY <2>1, MapFacts
        <3> QED BY <3>1 DEF Coming, PagesOf
    <2>4. PagesOf(memmap) \subseteq AllPages
        BY <2>1 DEF AllPages
    <2> QED BY <2>1, <2>2, <2>3, <2>4 DEF Pool!Init, FreeSet
<1>2. IInv /\ [Next]_vars => [Pool!Next]_(Pool!vars)
    BY NextStep DEF Pool!vars
<1> QED BY <1>1, <1>2, SpecIInv, PTL DEF Spec, PoolSpec, Pool!Spec
=============================================================================
