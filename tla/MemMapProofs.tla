---------------------------- MODULE MemMapProofs ----------------------------
(***************************************************************************)
(* Proofs about what the boot sets up: the memory map, for any page and    *)
(* word size, any number of slots, any map of the firmware and any ranges  *)
(* to cut; the order of kernel_main; the files of the initrd with the      *)
(* descriptors opened on them, for any archive, heap and screen; and the   *)
(* devices behind them: the serial line, for any word size, and the        *)
(* console, for any frame buffer.                                          *)
(***************************************************************************)
EXTENDS MCBoot, Devices, CommonLemmas, FiniteSetTheorems

-----------------------------------------------------------------------------
(***************************************************************************)
(* Rounding.  Words is the number of pages of the address space.           *)
(***************************************************************************)
Words == WORD \div PGSIZE

(***************************************************************************)
(* The address space is a whole number of pages.                           *)
(***************************************************************************)
LEMMA WordsFacts ==
    /\ PGSIZE \in Nat \ {0} /\ WORD \in Nat \ {0} /\ WORD > PGSIZE
    /\ Words \in Nat \ {0} /\ WORD = PGSIZE * Words
<1>1. PGSIZE \in Nat \ {0} /\ WORD \in Nat \ {0} /\ WORD > PGSIZE /\ WORD % PGSIZE = 0
    BY WidthAssumption
<1>2. PICK w \in Nat, k \in Nat : w = Words /\ k = WORD % PGSIZE /\ WORD = PGSIZE * w + k
    BY <1>1, DivMod DEF Words
<1>3. WORD = PGSIZE * w + 0
    BY <1>1, <1>2
<1>4. WORD = PGSIZE * w
    BY <1>1, <1>3
<1>5. w # 0
    BY <1>1, <1>4
<1> QED BY <1>1, <1>2, <1>4, <1>5

(***************************************************************************)
(* pg_rounddown takes an address to the page that holds it.                *)
(***************************************************************************)
LEMMA RoundDown ==
    ASSUME NEW x \in Nat
    PROVE  /\ pg_rounddown(x) = PGSIZE * ((x % WORD) \div PGSIZE)
           /\ (x % WORD) \div PGSIZE \in Nat /\ x % WORD \in Nat /\ x % WORD < WORD
<1>1. /\ PGSIZE \in Nat \ {0} /\ WORD \in Nat \ {0} /\ Words \in Nat /\ WORD = PGSIZE * Words
    BY WordsFacts
<1>2. PICK d \in Nat \ {0}, W \in Nat \ {0}, w \in Nat : d = PGSIZE /\ W = WORD /\ w = Words
    BY <1>1
<1>3. PICK y \in Nat, q \in Nat : y = x % W /\ q = x \div W /\ x = W * q + y /\ y < W
    BY DivMod
<1>4. PICK b \in Nat, a \in Nat : b = y % d /\ a = y \div d /\ y = d * a + b /\ b < d
    BY DivMod
<1>5. W * q = d * (w * q)
    BY <1>1, <1>2
<1>6. x = d * (w * q + a) + b
    <2>1. PICK k \in Nat : k = w * q
        OBVIOUS
    <2>2. d * (k + a) = d * k + d * a
        OBVIOUS
    <2> QED BY <1>3, <1>4, <1>5, <2>1, <2>2
<1>7. x % d = b
    <2>1. PICK k \in Nat : k = w * q + a
        OBVIOUS
    <2>2. x = d * k + b
        BY <1>6, <2>1
    <2> QED BY <1>4, <2>2, DivModUnique
<1>8. pg_rounddown(x) = y - b
    BY <1>2, <1>3, <1>7 DEF pg_rounddown
<1>9. y - b = d * a
    BY <1>4
<1> QED BY <1>2, <1>3, <1>4, <1>8, <1>9

(***************************************************************************)
(* pg_roundup, with the wrap-around of its u32, takes an address to a      *)
(* page.                                                                   *)
(***************************************************************************)
LEMMA RoundUp ==
    ASSUME NEW x \in Nat
    PROVE  /\ pg_roundup(x) = PGSIZE * ((((x % WORD) + PGSIZE - 1) % WORD) \div PGSIZE)
           /\ (((x % WORD) + PGSIZE - 1) % WORD) \div PGSIZE \in Nat
<1>1. x % WORD \in Nat /\ PGSIZE \in Nat \ {0}
    BY WordsFacts, DivMod
<1>2. PICK y \in Nat : y = (x % WORD) + PGSIZE - 1
    BY <1>1
<1> QED BY <1>2, RoundDown DEF pg_roundup

(***************************************************************************)
(* Multiples of the page size in the address space stay where they are.    *)
(***************************************************************************)
LEMMA SmallMod ==
    ASSUME NEW x \in Nat, x < WORD
    PROVE  x % WORD = x
BY WordsFacts

(***************************************************************************)
(* Multiples of the page size below 4 GiB are left as they are by the      *)
(* conversion to u32 and by both roundings.                                *)
(***************************************************************************)
LEMMA RoundPages ==
    ASSUME NEW k \in Nat, k < Words
    PROVE  /\ PGSIZE * k \in Nat /\ PGSIZE * k < WORD
           /\ (PGSIZE * k) % WORD = PGSIZE * k
           /\ pg_rounddown(PGSIZE * k) = PGSIZE * k
           /\ pg_roundup(PGSIZE * k) = PGSIZE * k
<1>1. PICK d \in Nat \ {0}, w \in Nat \ {0} : d = PGSIZE /\ w = Words /\ WORD = d * w
    BY WordsFacts
<1>2. PICK x \in Nat : x = d * k
    OBVIOUS
<1>3. d * (k + 1) <= d * w /\ d * (k + 1) = d * k + d
    <2>1. k + 1 \in Int /\ w \in Int /\ k + 1 <= w
        BY <1>1
    <2>2. d * (k + 1) <= d * w
        BY <2>1, TimesOrder
    <2> QED BY <2>2
<1>4. x + d - 1 < WORD /\ x + d - 1 \in Nat /\ x < WORD
    BY <1>1, <1>2, <1>3
<1>5. x % WORD = x /\ (x + d - 1) % WORD = x + d - 1
    BY <1>4, SmallMod
<1>6. x \div d = k
    <2>1. x = d * k + 0 /\ 0 < d
        BY <1>2
    <2> QED BY <2>1, DivModUnique
<1>7. (x + d - 1) \div d = k
    <2>1. x + d - 1 = d * k + (d - 1) /\ d - 1 \in Nat /\ d - 1 < d
        BY <1>2
    <2> QED BY <2>1, DivModUnique
<1>8. pg_rounddown(x) = d * k
    BY <1>1, <1>5, <1>6, RoundDown
<1>9. pg_roundup(x) = d * k
    <2>1. (x % WORD) + PGSIZE - 1 = x + d - 1
        BY <1>1, <1>5
    <2>2. (((x % WORD) + PGSIZE - 1) % WORD) \div PGSIZE = k
        BY <1>1, <1>5, <1>7, <2>1
    <2>3. pg_roundup(x) = PGSIZE * ((((x % WORD) + PGSIZE - 1) % WORD) \div PGSIZE)
        BY RoundUp
    <2> QED BY <1>1, <2>2, <2>3
<1> QED BY <1>1, <1>2, <1>4, <1>5, <1>8, <1>9

-----------------------------------------------------------------------------
(***************************************************************************)
(* Pages.                                                                  *)
(***************************************************************************)
Entry(a, l) == [addr |-> PGSIZE * a, len |-> PGSIZE * l]

(***************************************************************************)
(* An entry that begins and ends on pages has those in between.            *)
(***************************************************************************)
LEMMA EntryPages ==
    ASSUME NEW a \in Nat, NEW l \in Nat
    PROVE  /\ Pages(Entry(a, l)) = a..(a + l - 1)
           /\ Entry(a, l) \in [addr : Nat, len : Nat]
           /\ Entry(a, l).addr = PGSIZE * a /\ Entry(a, l).len = PGSIZE * l
           /\ Entry(a, l).addr % PGSIZE = 0 /\ Entry(a, l).len % PGSIZE = 0
           /\ Entry(a, l).len = 0 <=> l = 0
<1>1. PICK d \in Nat \ {0} : d = PGSIZE
    BY WordsFacts
<1>2. PICK x \in Nat, y \in Nat : x = d * a /\ y = d * l
    OBVIOUS
<1>3. (x + d - 1) \div d = a
    <2>1. x + d - 1 = d * a + (d - 1) /\ d - 1 \in Nat /\ d - 1 < d
        BY <1>2
    <2> QED BY <2>1, DivModUnique
<1>4. (x + y) \div d = a + l
    <2>1. PICK k \in Nat : k = a + l
        OBVIOUS
    <2>2. d * (a + l) = d * a + d * l
        OBVIOUS
    <2>3. x + y = d * k + 0 /\ 0 < d
        BY <1>2, <2>1, <2>2
    <2> QED BY <2>1, <2>3, DivModUnique
<1>5. x % d = 0 /\ y % d = 0
    <2>1. x = d * a + 0 /\ y = d * l + 0 /\ 0 < d
        BY <1>2
    <2> QED BY <2>1, DivModUnique
<1>6. y = 0 <=> l = 0
    BY <1>2
<1>7. Entry(a, l) = [addr |-> x, len |-> y]
    BY <1>1, <1>2 DEF Entry
<1>8. Entry(a, l).addr = x /\ Entry(a, l).len = y /\ Entry(a, l) \in [addr : Nat, len : Nat]
    BY <1>7
<1>9. Pages(Entry(a, l)) = a..(a + l - 1)
    BY <1>1, <1>3, <1>4, <1>8 DEF Pages
<1> QED BY <1>1, <1>2, <1>5, <1>6, <1>8, <1>9

(***************************************************************************)
(* A region of a well formed map becomes the entry with its whole pages.   *)
(***************************************************************************)
LEMMA RegionPages ==
    ASSUME NEW f \in [addr : Nat, len : Nat], f.addr % PGSIZE = 0, f.addr + f.len < WORD
    PROVE  \E a \in Nat, l \in Nat :
               /\ a + l < Words
               /\ pg_roundup(f.addr) = PGSIZE * a /\ pg_rounddown(f.len) = PGSIZE * l
               /\ Pages(f) = a..(a + l - 1)
               /\ f.len = 0 => l = 0
<1>1. PICK d \in Nat \ {0}, w \in Nat \ {0} : d = PGSIZE /\ w = Words /\ WORD = d * w
    BY WordsFacts
<1>2. PICK x \in Nat, y \in Nat : x = f.addr /\ y = f.len
    OBVIOUS
<1>3. PICK a \in Nat : x = d * a
    <2>1. PICK a \in Nat, k \in Nat : a = x \div d /\ k = x % d /\ k < d /\ x = d * a + k
        BY DivMod
    <2>2. k = 0
        BY <1>1, <1>2, <2>1
    <2>3. x = d * a
        BY <2>1, <2>2
    <2> QED BY <2>3
<1>4. PICK l \in Nat, b \in Nat : l = y \div d /\ y = d * l + b /\ b < d
    BY DivMod
<1>5. x + y = d * (a + l) + b
    BY <1>3, <1>4
<1>6. (x + y) \div d = a + l
    <2>1. PICK k \in Nat : k = a + l
        OBVIOUS
    <2>2. x + y = d * k + b
        BY <1>5, <2>1
    <2>3. (d * k + b) \div d = k
        BY <1>4, DivModUnique
    <2> QED BY <2>1, <2>2, <2>3
<1>7. a + l < w
    <2>1. d * (a + l) < d * w
        BY <1>1, <1>2, <1>5
    <2>2. a + l \in Int /\ w \in Int
        OBVIOUS
    <2> QED BY <2>1, <2>2, TimesOrder
<1>8. pg_roundup(x) = d * a
    <2>1. a < Words
        BY <1>1, <1>7
    <2>2. pg_roundup(PGSIZE * a) = PGSIZE * a
        BY <2>1, RoundPages
    <2> QED BY <1>1, <1>3, <2>2
<1>9. pg_rounddown(y) = d * l
    <2>1. y < WORD
        BY <1>1, <1>2
    <2>2. y % WORD = y
        BY <2>1, SmallMod
    <2> QED BY <1>1, <1>4, <2>2, RoundDown
<1>10. (x + d - 1) \div d = a
    <2>1. PICK b1 \in Nat : b1 = d - 1 /\ b1 < d
        OBVIOUS
    <2>2. x + d - 1 = d * a + b1
        BY <1>3, <2>1
    <2>3. (d * a + b1) \div d = a
        BY <2>1, DivModUnique
    <2> QED BY <2>2, <2>3
<1>11. Pages(f) = a..(a + l - 1)
    BY <1>1, <1>2, <1>6, <1>10 DEF Pages
<1>12. y = 0 => l = 0
    BY <1>4
<1> QED BY <1>1, <1>2, <1>7, <1>8, <1>9, <1>11, <1>12

(***************************************************************************)
(* A range to cut, rounded outwards, is the pages it touches.              *)
(***************************************************************************)
LEMMA RangePages ==
    ASSUME NEW c \in [start : Nat, end : Nat], c.start <= c.end, c.end + PGSIZE < WORD
    PROVE  \E s \in Nat, t \in Nat :
               /\ CutStart(c) = PGSIZE * s /\ CutEnd(c) = PGSIZE * t
               /\ Touched(c) = s..(t - 1)
<1>1. PICK d \in Nat \ {0} : d = PGSIZE
    BY WordsFacts
<1>2. PICK x \in Nat, y \in Nat : x = c.start /\ y = c.end
    OBVIOUS
<1>3. x <= y /\ y + d < WORD /\ WORD \in Nat
    BY <1>1, <1>2, WordsFacts
<1>4. x % WORD = x /\ y % WORD = y
    BY <1>3, SmallMod
<1>5. PICK s \in Nat : s = x \div d
    BY DivMod
<1>6. y + d - 1 \in Nat /\ y + d - 1 < WORD
    BY <1>3
<1>7. PICK t \in Nat : t = (y + d - 1) \div d
    BY <1>6, DivMod
<1>8. CutStart(c) = d * s
    BY <1>1, <1>2, <1>4, <1>5, RoundDown DEF CutStart
<1>9. CutEnd(c) = d * t
    <2>1. pg_roundup(y) = pg_rounddown(y + d - 1)
        BY <1>1, <1>4 DEF pg_roundup
    <2>2. (y + d - 1) % WORD = y + d - 1
        BY <1>6, SmallMod
    <2>3. pg_rounddown(y + d - 1) = d * t
        BY <1>1, <1>6, <1>7, <2>2, RoundDown
    <2> QED BY <1>2, <2>1, <2>3 DEF CutEnd
<1>10. Touched(c) = s..(t - 1)
    BY <1>1, <1>2, <1>5, <1>7 DEF Touched
<1> QED BY <1>1, <1>8, <1>9, <1>10

-----------------------------------------------------------------------------
(***************************************************************************)
(* Maps: the pages they hold, the slots in use, and the maps whose entries *)
(* are whole pages of the address space, each in one entry.                *)
(***************************************************************************)
Held(tab) == UNION {Pages(tab[i]) : i \in Slots}
Occ(tab) == {i \in Slots : tab[i].len # 0}

InPages(e) == \E a \in Nat, l \in Nat : a + l < Words /\ e = Entry(a, l)

Good(tab) ==
    /\ tab \in [Slots -> [addr : Nat, len : Nat]]
    /\ \A i \in Slots : InPages(tab[i])
    /\ \A i, j \in Slots : i # j => Pages(tab[i]) \cap Pages(tab[j]) = {}

(***************************************************************************)
(* The slots in use can be counted, and are all of them when none is free. *)
(***************************************************************************)
LEMMA OccFacts ==
    ASSUME NEW tab
    PROVE  /\ IsFiniteSet(Occ(tab)) /\ Cardinality(Occ(tab)) \in Nat
           /\ FreeSlots(tab) = Slots \ Occ(tab)
           /\ FreeSlots(tab) = {} => Cardinality(Occ(tab)) = MAXMEMMAP
<1>1. MAXMEMMAP \in Nat \ {0}
    BY WidthAssumption
<1>2. IsFiniteSet(Slots) /\ Cardinality(Slots) = MAXMEMMAP
    <2>1. 1 \in Int /\ MAXMEMMAP \in Int
        BY <1>1
    <2>2. /\ IsFiniteSet(1..MAXMEMMAP)
          /\ Cardinality(1..MAXMEMMAP) = IF 1 > MAXMEMMAP THEN 0 ELSE MAXMEMMAP - 1 + 1
        BY <2>1, FS_Interval
    <2> QED BY <1>1, <2>2 DEF Slots
<1>3. Occ(tab) \subseteq Slots
    BY DEF Occ
<1>4. IsFiniteSet(Occ(tab))
    BY <1>2, <1>3, FS_Subset
<1>5. Cardinality(Occ(tab)) \in Nat
    BY <1>4, FS_CardinalityType
<1>6. FreeSlots(tab) = Slots \ Occ(tab)
    BY DEF FreeSlots, Occ
<1>7. FreeSlots(tab) = {} => Occ(tab) = Slots
    BY <1>3, <1>6
<1> QED BY <1>2, <1>4, <1>5, <1>6, <1>7

(***************************************************************************)
(* An entry goes into a free slot.                                         *)
(***************************************************************************)
Inserts(new, tab, i, a, l) ==
    /\ Good(tab) /\ i \in FreeSlots(tab)
    /\ a \in Nat /\ l \in Nat /\ a + l < Words
    /\ (a..(a + l - 1)) \cap Held(tab) = {}
    /\ new = [tab EXCEPT ![i] = Entry(a, l)]

(***************************************************************************)
(* The map stays good, holds the new pages too, and uses one slot more at  *)
(* most.                                                                   *)
(***************************************************************************)
LEMMA PutGood ==
    ASSUME NEW new, NEW tab, NEW i, NEW a, NEW l, Inserts(new, tab, i, a, l)
    PROVE  /\ Good(new)
           /\ Held(new) = Held(tab) \cup (a..(a + l - 1))
           /\ \A j \in Slots : j # i => new[j] = tab[j]
           /\ Pages(new[i]) = a..(a + l - 1)
           /\ Cardinality(Occ(new)) <= Cardinality(Occ(tab)) + 1
<1> DEFINE more == a..(a + l - 1)
<1> USE DEF Inserts
<1>1. i \in Slots /\ tab[i].len = 0
    BY DEF FreeSlots
<1>2. Entry(a, l) \in [addr : Nat, len : Nat] /\ Pages(Entry(a, l)) = more
    BY EntryPages
<1> HIDE DEF more
<1>3. new[i] = Entry(a, l) /\ \A j \in Slots : j # i => new[j] = tab[j]
    BY <1>1 DEF Good
<1>4. new \in [Slots -> [addr : Nat, len : Nat]]
    BY <1>1, <1>2 DEF Good
<1>5. Pages(tab[i]) = {}
    <2>1. PICK b \in Nat, k \in Nat : tab[i] = Entry(b, k)
        BY <1>1 DEF Good, InPages
    <2>2. k = 0
        BY <1>1, <2>1, EntryPages
    <2>3. Pages(tab[i]) = b..(b + k - 1)
        BY <2>1, EntryPages
    <2> QED BY <2>2, <2>3
<1>6. ASSUME NEW j \in Slots PROVE InPages(new[j])
    <2>1. CASE j = i
        BY <1>3, <2>1 DEF InPages
    <2>2. CASE j # i
        BY <1>3, <2>2 DEF Good
    <2> QED BY <2>1, <2>2
<1>7. ASSUME NEW j \in Slots PROVE Pages(tab[j]) \cap more = {}
    BY DEF Held, more
<1>8. ASSUME NEW j \in Slots, NEW k \in Slots, j # k PROVE Pages(new[j]) \cap Pages(new[k]) = {}
    <2>1. CASE j = i
        BY <1>2, <1>3, <1>7, <1>8, <2>1
    <2>2. CASE k = i
        BY <1>2, <1>3, <1>7, <1>8, <2>2
    <2>3. CASE j # i /\ k # i
        BY <1>3, <1>8, <2>3 DEF Good
    <2> QED BY <2>1, <2>2, <2>3
<1>9. Held(new) = Held(tab) \cup more
    <2>1. ASSUME NEW x \in Held(new) PROVE x \in Held(tab) \cup more
        <3>1. PICK j \in Slots : x \in Pages(new[j])
            BY DEF Held
        <3> QED BY <1>2, <1>3, <3>1 DEF Held
    <2>2. ASSUME NEW x \in Held(tab) PROVE x \in Held(new)
        <3>1. PICK j \in Slots : x \in Pages(tab[j])
            BY DEF Held
        <3>2. j # i
            BY <1>5, <3>1
        <3> QED BY <1>3, <3>1, <3>2 DEF Held
    <2>3. more \subseteq Held(new)
        BY <1>1, <1>2, <1>3 DEF Held
    <2> QED BY <2>1, <2>2, <2>3
<1>10. Cardinality(Occ(new)) <= Cardinality(Occ(tab)) + 1
    <2>1. Occ(new) \subseteq Occ(tab) \cup {i}
        BY <1>3 DEF Occ
    <2>2. /\ IsFiniteSet(Occ(tab) \cup {i})
          /\ Cardinality(Occ(tab) \cup {i}) = Cardinality(Occ(tab)) + 1
        <3>1. i \notin Occ(tab)
            BY <1>1 DEF Occ
        <3> QED BY <3>1, OccFacts, FS_AddElement
    <2> QED BY <2>1, <2>2, FS_Subset
<1>11. Good(new)
    BY <1>4, <1>6, <1>8 DEF Good
<1> QED BY <1>2, <1>3, <1>9, <1>10, <1>11 DEF more

(***************************************************************************)
(* The entry of a slot is taken out.                                       *)
(***************************************************************************)
Frees(new, tab, i) == Good(tab) /\ i \in Slots /\ new = FreeEntry(tab, i)

(***************************************************************************)
(* The map stays good, loses the pages of that entry only, and has one     *)
(* slot less in use.                                                       *)
(***************************************************************************)
LEMMA FreeGood ==
    ASSUME NEW new, NEW tab, NEW i, Frees(new, tab, i)
    PROVE  /\ Good(new)
           /\ Held(new) = Held(tab) \ Pages(tab[i])
           /\ \A j \in Slots : j # i => new[j] = tab[j]
           /\ Pages(new[i]) = {} /\ i \in FreeSlots(new)
           /\ tab[i].len # 0 => Cardinality(Occ(new)) = Cardinality(Occ(tab)) - 1
<1> USE DEF Frees
<1>1. Empty = Entry(0, 0)
    BY WordsFacts DEF Empty, Entry
<1>2. Pages(Empty) = {} /\ Empty \in [addr : Nat, len : Nat] /\ Empty.len = 0
    <2>1. Pages(Entry(0, 0)) = 0..(0 + 0 - 1) /\ Entry(0, 0) \in [addr : Nat, len : Nat]
        BY EntryPages
    <2> QED BY <1>1, <2>1 DEF Empty
<1>3. InPages(Empty)
    <2>1. 0 + 0 < Words
        BY WordsFacts
    <2> QED BY <1>1, <2>1 DEF InPages
<1>4. new[i] = Empty /\ \A j \in Slots : j # i => new[j] = tab[j]
    BY DEF Good, FreeEntry
<1>5. new \in [Slots -> [addr : Nat, len : Nat]]
    BY <1>2 DEF Good, FreeEntry
<1>6. ASSUME NEW j \in Slots PROVE InPages(new[j])
    BY <1>3, <1>4 DEF Good
<1>7. ASSUME NEW j \in Slots, NEW k \in Slots, j # k PROVE Pages(new[j]) \cap Pages(new[k]) = {}
    <2>1. CASE j = i \/ k = i
        BY <1>2, <1>4, <2>1
    <2>2. CASE j # i /\ k # i
        BY <1>4, <1>7, <2>2 DEF Good
    <2> QED BY <2>1, <2>2
<1>8. Held(new) = Held(tab) \ Pages(tab[i])
    <2>1. ASSUME NEW x \in Held(new) PROVE x \in Held(tab) \ Pages(tab[i])
        <3>1. PICK j \in Slots : x \in Pages(new[j])
            BY DEF Held
        <3>2. j # i
            BY <1>2, <1>4, <3>1
        <3>3. x \in Pages(tab[j]) /\ Pages(tab[j]) \cap Pages(tab[i]) = {}
            BY <1>4, <3>1, <3>2 DEF Good
        <3> QED BY <3>3 DEF Held
    <2>2. ASSUME NEW x \in Held(tab), x \notin Pages(tab[i]) PROVE x \in Held(new)
        <3>1. PICK j \in Slots : x \in Pages(tab[j])
            BY DEF Held
        <3>2. j # i
            BY <2>2, <3>1
        <3> QED BY <1>4, <3>1, <3>2 DEF Held
    <2> QED BY <2>1, <2>2
<1>9. ASSUME tab[i].len # 0 PROVE Cardinality(Occ(new)) = Cardinality(Occ(tab)) - 1
    <2>1. Occ(new) = Occ(tab) \ {i}
        BY <1>2, <1>4 DEF Occ
    <2>2. i \in Occ(tab)
        BY <1>9 DEF Occ
    <2> QED BY <2>1, <2>2, OccFacts, FS_RemoveElement
<1>10. Good(new)
    BY <1>5, <1>6, <1>7 DEF Good
<1> QED BY <1>2, <1>4, <1>8, <1>9, <1>10 DEF FreeSlots

-----------------------------------------------------------------------------
(***************************************************************************)
(* add_memmap.                                                             *)
(***************************************************************************)
Start(tab, n) == [map |-> tab, n |-> n, full |-> FALSE]

Put(tab, n, i, e) ==
    [map |-> [tab EXCEPT ![i] = e], n |-> IF i > n THEN i ELSE n, full |-> FALSE]

(***************************************************************************)
(* Its three outcomes.                                                     *)
(***************************************************************************)
LEMMA AddCases ==
    ASSUME NEW tab, NEW n, NEW addr, NEW len
    PROVE  /\ len = 0 => AddMemmap(Start(tab, n), addr, len) = Start(tab, n)
           /\ len # 0 /\ FreeSlots(tab) = {} => AddMemmap(Start(tab, n), addr, len).full = TRUE
           /\ len # 0 /\ FreeSlots(tab) # {} =>
                 \E i \in FreeSlots(tab) :
                    AddMemmap(Start(tab, n), addr, len) =
                        Put(tab, n, i, [addr |-> pg_roundup(addr), len |-> pg_rounddown(len)])
<1> DEFINE st == Start(tab, n)
<1>1. st.map = tab /\ st.n = n /\ st.full = FALSE
    BY DEF Start
<1>2. st = [map |-> tab, n |-> n, full |-> FALSE]
    BY DEF Start
<1> HIDE DEF st
<1>3. CASE len = 0
    BY <1>3 DEF AddMemmap, st
<1>4. CASE len # 0 /\ FreeSlots(tab) = {}
    <2>1. AddMemmap(st, addr, len) = [st EXCEPT !.full = TRUE]
        BY <1>1, <1>4 DEF AddMemmap
    <2>2. [st EXCEPT !.full = TRUE].full = TRUE
        BY <1>2
    <2> QED BY <1>4, <2>1, <2>2 DEF st
<1>5. CASE len # 0 /\ FreeSlots(tab) # {}
    <2>1. FreeSlots(tab) \in SUBSET Nat
        BY WidthAssumption DEF FreeSlots, Slots
    <2>2. \E i \in FreeSlots(tab) : \A j \in FreeSlots(tab) : i <= j
        BY <1>5, <2>1, NatMin
    <2>3. FirstSlot(tab) \in FreeSlots(tab)
        BY <2>2 DEF FirstSlot
    <2>4. AddMemmap(st, addr, len) =
            Put(tab, n, FirstSlot(tab), [addr |-> pg_roundup(addr), len |-> pg_rounddown(len)])
        BY <1>1, <1>5 DEF AddMemmap, Put
    <2> QED BY <1>5, <2>3, <2>4 DEF st
<1> QED BY <1>3, <1>4, <1>5

(***************************************************************************)
(* Types, whatever is added: entries on pages, none beyond the slots used. *)
(***************************************************************************)
Typed(tab, n) ==
    /\ tab \in [Slots -> [addr : Nat, len : Nat]]
    /\ \A i \in Slots :
          /\ tab[i].addr % PGSIZE = 0 /\ tab[i].len % PGSIZE = 0
          /\ i > n => tab[i] = Empty
    /\ n \in 0..MAXMEMMAP

(***************************************************************************)
(* A rounded region in some slot: mmap_n covers the slot.                  *)
(***************************************************************************)
LEMMA PutTyped ==
    ASSUME NEW tab, NEW n, Typed(tab, n), NEW i \in Slots, NEW addr \in Nat, NEW len \in Nat
    PROVE  LET st == Put(tab, n, i, [addr |-> pg_roundup(addr), len |-> pg_rounddown(len)])
           IN  Typed(st.map, st.n)
<1>1. PICK a \in Nat : pg_roundup(addr) = PGSIZE * a
    BY RoundUp
<1>2. PICK l \in Nat : pg_rounddown(len) = PGSIZE * l
    BY RoundDown
<1>3. PICK e : e = [addr |-> pg_roundup(addr), len |-> pg_rounddown(len)]
    OBVIOUS
<1>4. e = Entry(a, l)
    BY <1>1, <1>2, <1>3 DEF Entry
<1>5. e \in [addr : Nat, len : Nat] /\ e.addr % PGSIZE = 0 /\ e.len % PGSIZE = 0
    BY <1>4, EntryPages
<1>6. PICK new, k : new = [tab EXCEPT ![i] = e] /\ k = IF i > n THEN i ELSE n
    OBVIOUS
<1>7. new \in [Slots -> [addr : Nat, len : Nat]] /\ new[i] = e /\ \A j \in Slots : j # i => new[j] = tab[j]
    BY <1>5, <1>6 DEF Typed
<1>8. k \in 0..MAXMEMMAP /\ k >= n /\ k >= i
    <2>1. MAXMEMMAP \in Nat /\ n \in 0..MAXMEMMAP /\ i \in 1..MAXMEMMAP
        BY WidthAssumption DEF Typed, Slots
    <2> QED BY <1>6, <2>1
<1>9. ASSUME NEW j \in Slots
      PROVE  /\ new[j].addr % PGSIZE = 0 /\ new[j].len % PGSIZE = 0
             /\ j > k => new[j] = Empty
    <2>1. CASE j = i
        <3>1. ~(j > k)
            BY <1>8, <2>1, WidthAssumption DEF Slots
        <3> QED BY <1>5, <1>7, <2>1, <3>1
    <2>2. CASE j # i
        <3>1. j > k => j > n
            <4>1. j \in Int /\ n \in Int /\ k \in Int
                BY <1>8, WidthAssumption DEF Typed, Slots
            <4> QED BY <1>8, <4>1
        <3> QED BY <1>7, <2>2, <3>1 DEF Typed
    <2> QED BY <2>1, <2>2
<1>10. Typed(new, k)
    BY <1>7, <1>8, <1>9 DEF Typed
<1>11. Put(tab, n, i, e).map = new /\ Put(tab, n, i, e).n = k
    BY <1>6 DEF Put
<1> QED BY <1>3, <1>10, <1>11

TypedOutcome(st) == st.full = TRUE \/ \E new, k : st = Start(new, k) /\ Typed(new, k)

(***************************************************************************)
(* add_memmap panics or leaves a map with those types.                     *)
(***************************************************************************)
LEMMA AddTyped ==
    ASSUME NEW tab, NEW n, Typed(tab, n), NEW addr \in Nat, NEW len \in Nat
    PROVE  TypedOutcome(AddMemmap(Start(tab, n), addr, len))
<1> USE DEF TypedOutcome
<1>1. CASE len = 0
    BY <1>1, AddCases
<1>2. CASE len # 0 /\ FreeSlots(tab) = {}
    BY <1>2, AddCases
<1>3. CASE len # 0 /\ FreeSlots(tab) # {}
    <2>1. PICK e : e = [addr |-> pg_roundup(addr), len |-> pg_rounddown(len)]
        OBVIOUS
    <2>2. PICK i \in FreeSlots(tab) : AddMemmap(Start(tab, n), addr, len) = Put(tab, n, i, e)
        BY <1>3, <2>1, AddCases
    <2>3. i \in Slots
        BY DEF FreeSlots
    <2>4. Typed(Put(tab, n, i, e).map, Put(tab, n, i, e).n)
        BY <2>1, <2>3, PutTyped
    <2>5. Put(tab, n, i, e) = Start(Put(tab, n, i, e).map, Put(tab, n, i, e).n)
        BY DEF Put, Start
    <2> QED BY <2>2, <2>4, <2>5
<1> QED BY <1>1, <1>2, <1>3

(***************************************************************************)
(* Pages a to a + l - 1, which the map does not hold, are added; without a *)
(* free slot they are not.                                                 *)
(***************************************************************************)
Grown(new, tab, a, l) ==
    /\ Good(new)
    /\ Held(new) = Held(tab) \cup (a..(a + l - 1))
    /\ \A j \in Slots : Pages(new[j]) = Pages(tab[j]) \/ Pages(new[j]) = a..(a + l - 1)

Fresh(tab, addr, len, a, l) ==
    /\ Good(tab) /\ addr \in Nat /\ len \in Nat
    /\ a \in Nat /\ l \in Nat /\ a + l < Words
    /\ pg_roundup(addr) = PGSIZE * a /\ pg_rounddown(len) = PGSIZE * l
    /\ len = 0 => l = 0
    /\ (a..(a + l - 1)) \cap Held(tab) = {}

Outcome(st, tab, len, a, l) ==
    \/ st.full = TRUE /\ len # 0 /\ FreeSlots(tab) = {}
    \/ \E new, k :
          /\ st = Start(new, k)
          /\ Grown(new, tab, a, l)
          /\ len = 0 => Cardinality(Occ(new)) = Cardinality(Occ(tab))
          /\ Cardinality(Occ(new)) <= Cardinality(Occ(tab)) + 1

(***************************************************************************)
(* add_memmap, given a region of whole pages that the map does not hold    *)
(* yet.                                                                    *)
(***************************************************************************)
LEMMA AddGood ==
    ASSUME NEW tab, NEW n, NEW addr, NEW len, NEW a, NEW l, Fresh(tab, addr, len, a, l)
    PROVE  Outcome(AddMemmap(Start(tab, n), addr, len), tab, len, a, l)
<1> USE DEF Fresh, Outcome
<1>1. CASE len = 0
    <2>1. a..(a + l - 1) = {}
        BY <1>1
    <2>2. Grown(tab, tab, a, l)
        BY <2>1 DEF Grown
    <2>3. Cardinality(Occ(tab)) <= Cardinality(Occ(tab)) + 1
        BY OccFacts
    <2>4. AddMemmap(Start(tab, n), addr, len) = Start(tab, n)
        BY <1>1, AddCases
    <2> QED BY <2>2, <2>3, <2>4
<1>2. CASE len # 0 /\ FreeSlots(tab) = {}
    BY <1>2, AddCases
<1>3. CASE len # 0 /\ FreeSlots(tab) # {}
    <2>1. PICK e : e = [addr |-> pg_roundup(addr), len |-> pg_rounddown(len)]
        OBVIOUS
    <2>2. e = Entry(a, l)
        BY <2>1 DEF Entry
    <2>3. PICK i \in FreeSlots(tab) : AddMemmap(Start(tab, n), addr, len) = Put(tab, n, i, e)
        BY <1>3, <2>1, AddCases
    <2>4. PICK new : new = [tab EXCEPT ![i] = Entry(a, l)]
        OBVIOUS
    <2>5. /\ Good(new)
          /\ Held(new) = Held(tab) \cup (a..(a + l - 1))
          /\ \A j \in Slots : j # i => new[j] = tab[j]
          /\ Pages(new[i]) = a..(a + l - 1)
          /\ Cardinality(Occ(new)) <= Cardinality(Occ(tab)) + 1
        <3>1. Inserts(new, tab, i, a, l)
            BY <2>4 DEF Inserts
        <3> QED BY <3>1, PutGood
    <2>6. Grown(new, tab, a, l)
        BY <2>5 DEF Grown
    <2>7. Put(tab, n, i, e) = Start(new, IF i > n THEN i ELSE n)
        BY <2>2, <2>4 DEF Put, Start
    <2> QED BY <1>3, <2>3, <2>5, <2>6, <2>7
<1> QED BY <1>1, <1>2, <1>3

-----------------------------------------------------------------------------
(***************************************************************************)
(* cut_memmap: the range from page s to page t - 1 is cut out of entry i,  *)
(* which has pages a to a + l - 1.                                         *)
(***************************************************************************)
Cut(tab, n, e, start, end, i) ==
    AddMemmap(AddMemmap(Start(FreeEntry(tab, i), n), EntryStart(e), start - EntryStart(e)),
              end, EntryEnd(e) - end)

CutOutcome(st, tab, i, T) ==
    \/ st.full = TRUE /\ Cardinality(Occ(tab)) >= MAXMEMMAP
    \/ \E new, k :
          /\ st = Start(new, k) /\ Good(new)
          /\ Held(new) = Held(tab) \ (Pages(tab[i]) \cap T)
          /\ \A j \in Slots : \/ j # i /\ Pages(new[j]) = Pages(tab[j])
                              \/ Pages(new[j]) \cap T = {}
          /\ \/ Cardinality(Occ(new)) <= Cardinality(Occ(tab))
             \/ Cardinality(Occ(new)) <= Cardinality(Occ(tab)) + 1 /\ T \subseteq Pages(tab[i])

(***************************************************************************)
(* Cutting an entry takes the range, and no other page, out of the map; it *)
(* uses one slot more only if the range lies inside the entry, and fails   *)
(* only if every slot was in use.                                          *)
(***************************************************************************)
LEMMA CutGood ==
    ASSUME NEW tab, NEW n, Good(tab), NEW i \in Slots,
           NEW a \in Nat, NEW l \in Nat, a + l < Words, tab[i] = Entry(a, l),
           NEW s \in Nat, NEW t \in Nat, NEW x \in Nat, NEW y \in Nat,
           x = Larger(s, a), y = Smaller(t, a + l), x < y
    PROVE  CutOutcome(AddMemmap(AddMemmap(Start(FreeEntry(tab, i), n), PGSIZE * a, PGSIZE * (x - a)),
                                PGSIZE * y, PGSIZE * (a + l - y)),
                      tab, i, s..(t - 1))
<1> DEFINE T == s..(t - 1)
<1>1. PICK d \in Nat \ {0} : d = PGSIZE
    BY WordsFacts
<1>2. /\ a <= x /\ s <= x /\ y <= t /\ y <= a + l
      /\ x - a \in Nat /\ (a + l) - y \in Nat
      /\ x = a \/ x = s
      /\ y = t \/ y = a + l
    BY DEF Larger, Smaller
<1>3. PICK p \in Nat, q \in Nat : p = x - a /\ q = (a + l) - y
    BY <1>2
<1>4. PICK left \in Nat, right \in Nat : left = d * p /\ right = d * q
    OBVIOUS
<1>5. PICK lo \in Nat, hi \in Nat : lo = d * a /\ hi = d * y
    <2>1. d * a \in Nat /\ d * y \in Nat
        BY TimesOrder
    <2> QED BY <2>1
<1>6. (left = 0 <=> p = 0) /\ (right = 0 <=> q = 0)
    BY <1>4
<1>7. Words \in Nat /\ a < Words /\ p < Words /\ y < Words /\ q < Words /\ a + p < Words /\ y + q < Words
    <2>1. Words \in Nat
        BY WordsFacts
    <2> QED BY <1>2, <1>3, <2>1
<1>8. /\ pg_roundup(lo) = PGSIZE * a /\ pg_rounddown(left) = PGSIZE * p
      /\ pg_roundup(hi) = PGSIZE * y /\ pg_rounddown(right) = PGSIZE * q
    BY <1>1, <1>4, <1>5, <1>7, RoundPages
<1>9. Pages(tab[i]) = a..(a + l - 1) /\ tab[i].len # 0
    <2>1. l # 0
        BY <1>2
    <2> QED BY <2>1, EntryPages
<1>10. PICK freed : freed = FreeEntry(tab, i)
    OBVIOUS
<1>11. /\ Good(freed)
       /\ Held(freed) = Held(tab) \ Pages(tab[i])
       /\ \A j \in Slots : j # i => freed[j] = tab[j]
       /\ Pages(freed[i]) = {} /\ i \in FreeSlots(freed)
       /\ Cardinality(Occ(freed)) = Cardinality(Occ(tab)) - 1
    <2>1. Frees(freed, tab, i)
        BY <1>10 DEF Frees
    <2> QED BY <1>9, <2>1, FreeGood
<1>12. PICK L, R : L = a..(a + p - 1) /\ R = y..(y + q - 1)
    OBVIOUS
<1>13. /\ L \subseteq Pages(tab[i]) /\ R \subseteq Pages(tab[i]) /\ L \cap R = {}
       /\ L \cap T = {} /\ R \cap T = {} /\ Pages(tab[i]) \ T \subseteq L \cup R
    <2>0. a + p - 1 = x - 1 /\ y + q - 1 = a + l - 1
        BY <1>3
    <2>1. L = a..(x - 1) /\ R = y..(a + l - 1)
        BY <1>12, <2>0
    <2>2. L \subseteq Pages(tab[i]) /\ R \subseteq Pages(tab[i])
        <3>1. x - 1 <= a + l - 1
            BY <1>2
        <3>2. L \subseteq Pages(tab[i])
            BY <1>9, <2>1, <3>1
        <3>3. R \subseteq Pages(tab[i])
            BY <1>2, <1>9, <2>1
        <3> QED BY <3>2, <3>3
    <2>3. L \cap R = {}
        BY <1>2, <2>1
    <2>4. L \cap T = {}
        BY <1>2, <2>1
    <2>5. R \cap T = {}
        BY <1>2, <2>1
    <2>6. Pages(tab[i]) \ T \subseteq L \cup R
        BY <1>2, <1>9, <2>1
    <2> QED BY <2>2, <2>3, <2>4, <2>5, <2>6
<1>14. Cardinality(Occ(tab)) \in Nat /\ Cardinality(Occ(freed)) \in Nat
    BY OccFacts
<1>15. PICK one : one = AddMemmap(Start(freed, n), lo, left)
    OBVIOUS
<1>16. PICK mid, k :
          /\ one = Start(mid, k) /\ Grown(mid, freed, a, p)
          /\ left = 0 => Cardinality(Occ(mid)) = Cardinality(Occ(freed))
          /\ Cardinality(Occ(mid)) <= Cardinality(Occ(freed)) + 1
    <2>1. (a..(a + p - 1)) \cap Held(freed) = {}
        BY <1>11, <1>12, <1>13
    <2>2. Fresh(freed, lo, left, a, p)
        BY <1>6, <1>7, <1>8, <1>11, <2>1 DEF Fresh
    <2>3. Outcome(one, freed, left, a, p)
        BY <1>15, <2>2, AddGood
    <2>4. FreeSlots(freed) # {}
        BY <1>11
    <2> QED BY <2>3, <2>4 DEF Outcome
<1>17. /\ Good(mid) /\ Held(mid) = Held(freed) \cup L
       /\ \A j \in Slots : Pages(mid[j]) = Pages(freed[j]) \/ Pages(mid[j]) = L
    BY <1>12, <1>16 DEF Grown
<1>18. Cardinality(Occ(mid)) \in Nat
    BY OccFacts
<1>19. PICK two : two = AddMemmap(Start(mid, k), hi, right)
    OBVIOUS
<1>20. Outcome(two, mid, right, y, q)
    <2>1. (y..(y + q - 1)) \cap Held(mid) = {}
        BY <1>11, <1>12, <1>13, <1>17
    <2>2. Fresh(mid, hi, right, y, q)
        BY <1>6, <1>7, <1>8, <1>17, <2>1 DEF Fresh
    <2> QED BY <1>19, <2>2, AddGood
<1>21. ASSUME two.full = TRUE, FreeSlots(mid) = {} PROVE CutOutcome(two, tab, i, T)
    <2>1. Cardinality(Occ(mid)) = MAXMEMMAP
        BY <1>21, OccFacts
    <2>2. Cardinality(Occ(tab)) >= MAXMEMMAP
        BY <1>11, <1>14, <1>16, <1>18, <2>1
    <2> QED BY <1>21, <2>2 DEF CutOutcome
<1>22. ASSUME NEW new, NEW k2, two = Start(new, k2), Grown(new, mid, y, q),
              right = 0 => Cardinality(Occ(new)) = Cardinality(Occ(mid)),
              Cardinality(Occ(new)) <= Cardinality(Occ(mid)) + 1
       PROVE  CutOutcome(two, tab, i, T)
    <2>1. /\ Good(new) /\ Held(new) = Held(mid) \cup R
          /\ \A j \in Slots : Pages(new[j]) = Pages(mid[j]) \/ Pages(new[j]) = R
        BY <1>12, <1>22 DEF Grown
    <2>2. Pages(tab[i]) \subseteq Held(tab)
        BY DEF Held
    <2>3. Held(new) = Held(tab) \ (Pages(tab[i]) \cap T)
        BY <1>11, <1>13, <1>17, <2>1, <2>2
    <2>4. ASSUME NEW j \in Slots
          PROVE  (j # i /\ Pages(new[j]) = Pages(tab[j])) \/ Pages(new[j]) \cap T = {}
        BY <1>11, <1>13, <1>17, <2>1
    <2>5. Cardinality(Occ(new)) \in Nat
        BY OccFacts
    <2>6. CASE left = 0 \/ right = 0
        <3>1. Cardinality(Occ(new)) <= Cardinality(Occ(tab))
            BY <1>11, <1>14, <1>16, <1>18, <1>22, <2>5, <2>6
        <3> QED BY <1>22, <2>1, <2>3, <2>4, <3>1 DEF CutOutcome
    <2>7. CASE left # 0 /\ right # 0
        <3>1. Cardinality(Occ(new)) <= Cardinality(Occ(tab)) + 1
            BY <1>11, <1>14, <1>16, <1>18, <1>22, <2>5
        <3>2. x = s /\ y = t
            BY <1>2, <1>3, <1>6, <2>7
        <3>3. T \subseteq Pages(tab[i])
            BY <1>2, <1>9, <3>2
        <3> QED BY <1>22, <2>1, <2>3, <2>4, <3>1, <3>3 DEF CutOutcome
    <2> QED BY <2>6, <2>7
<1>23. CutOutcome(two, tab, i, T)
    BY <1>20, <1>21, <1>22 DEF Outcome
<1>24. /\ PGSIZE * a = lo /\ PGSIZE * (x - a) = left
       /\ PGSIZE * y = hi /\ PGSIZE * (a + l - y) = right
    BY <1>1, <1>3, <1>4, <1>5
<1>25. two = AddMemmap(AddMemmap(Start(FreeEntry(tab, i), n), lo, left), hi, right)
    BY <1>10, <1>15, <1>16, <1>19
<1> QED BY <1>23, <1>24, <1>25

(***************************************************************************)
(* Types, whatever is cut.                                                 *)
(***************************************************************************)
LEMMA FreeTyped ==
    ASSUME NEW tab, NEW n, Typed(tab, n), NEW i \in Slots
    PROVE  Typed(FreeEntry(tab, i), n)
<1>1. Empty = Entry(0, 0)
    BY WordsFacts DEF Empty, Entry
<1>2. Empty \in [addr : Nat, len : Nat] /\ Empty.addr % PGSIZE = 0 /\ Empty.len % PGSIZE = 0
    BY <1>1, EntryPages
<1>3. PICK new : new = FreeEntry(tab, i)
    OBVIOUS
<1>4. new \in [Slots -> [addr : Nat, len : Nat]]
    BY <1>2, <1>3 DEF Typed, FreeEntry
<1>5. \A j \in Slots : new[j] = IF j = i THEN Empty ELSE tab[j]
    BY <1>3 DEF Typed, FreeEntry
<1>6. \A j \in Slots :
          /\ new[j].addr % PGSIZE = 0 /\ new[j].len % PGSIZE = 0
          /\ j > n => new[j] = Empty
    BY <1>2, <1>5 DEF Typed
<1>7. n \in 0..MAXMEMMAP
    BY DEF Typed
<1> QED BY <1>3, <1>4, <1>6, <1>7 DEF Typed

(***************************************************************************)
(* Cutting an entry panics or leaves a map with those types.               *)
(***************************************************************************)
LEMMA CutTyped ==
    ASSUME NEW tab, NEW n, Typed(tab, n), NEW i \in Slots,
           NEW p \in Nat, NEW q \in Nat, NEW y \in Nat, NEW z \in Nat
    PROVE  TypedOutcome(AddMemmap(AddMemmap(Start(FreeEntry(tab, i), n), p, q), y, z))
<1>1. PICK freed : freed = FreeEntry(tab, i)
    OBVIOUS
<1>2. Typed(freed, n)
    BY <1>1, FreeTyped
<1>3. PICK one : one = AddMemmap(Start(freed, n), p, q)
    OBVIOUS
<1>4. TypedOutcome(one)
    BY <1>2, <1>3, AddTyped
<1>5. TypedOutcome(AddMemmap(one, y, z))
    <2>1. CASE one.full = TRUE
        <3>1. AddMemmap(one, y, z) = one
            BY <2>1 DEF AddMemmap
        <3> QED BY <1>4, <3>1
    <2>2. ASSUME NEW mid, NEW k, one = Start(mid, k), Typed(mid, k)
          PROVE  TypedOutcome(AddMemmap(one, y, z))
        <3>1. TypedOutcome(AddMemmap(Start(mid, k), y, z))
            BY <2>2, AddTyped
        <3> QED BY <2>2, <3>1
    <2> QED BY <1>4, <2>1, <2>2 DEF TypedOutcome
<1> QED BY <1>1, <1>3, <1>5

-----------------------------------------------------------------------------
(***************************************************************************)
(* The invariant.                                                          *)
(***************************************************************************)

(***************************************************************************)
(* The pages of the firmware's first k regions, and of the first k ranges. *)
(***************************************************************************)
Given(k) == UNION {Pages(firmware[i]) : i \in 1..k}
Gone(k) == UNION {Touched(reserved[i]) : i \in 1..k}

(***************************************************************************)
(* The range that is being cut, if any.                                    *)
(***************************************************************************)
Cutting == IF m = 0 THEN {} ELSE Touched(reserved[r])

Bounds ==
    /\ firmware \in Firmware /\ reserved \in Reserved
    /\ r \in Nat /\ r >= 1
    /\ Typed(memmap, mmap_n)
    /\ m \in 0..(MAXMEMMAP + 1)
    /\ phase \in {"add", "cut", "done", "panic"}
    /\ phase = "add" => r <= Len(firmware) + 1 /\ m = 0
    /\ phase = "cut" => r <= Len(reserved) + 1 /\ (m > 0 => r <= Len(reserved))

(***************************************************************************)
(* While regions are added, the map holds those so far and uses a slot for *)
(* each at most.                                                           *)
(***************************************************************************)
AddInv ==
    /\ Held(memmap) = Given(r - 1)
    /\ Cardinality(Occ(memmap)) <= r - 1

(***************************************************************************)
(* While ranges are cut, the map holds what is left and perhaps pages of   *)
(* the present range, but not in the entries that have had their turn. One *)
(* slot more than before for every range; the one for this range is taken  *)
(* only when an entry lay on both sides of it, and then the range is gone. *)
(***************************************************************************)
CutInv ==
    /\ Held(memmap) \subseteq Given(Len(firmware)) \ Gone(r - 1)
    /\ (Given(Len(firmware)) \ Gone(r - 1)) \ Cutting \subseteq Held(memmap)
    /\ \A i \in Slots : i < m => Pages(memmap[i]) \cap Cutting = {}
    /\ \/ Cardinality(Occ(memmap)) <= Len(firmware) + r - 1
       \/ /\ m > 0 /\ Cardinality(Occ(memmap)) <= Len(firmware) + r
          /\ Held(memmap) \cap Cutting = {}

Exact ==
    /\ Good(memmap)
    /\ phase = "add" => AddInv
    /\ phase = "cut" => CutInv
    /\ phase = "done" => Held(memmap) = Given(Len(firmware)) \ Gone(Len(reserved))
    /\ phase = "panic" => Len(firmware) + Len(reserved) > MAXMEMMAP

MapInv == Bounds /\ (WellFormed => Exact)

(***************************************************************************)
(* The sequences of regions and of ranges.                                 *)
(***************************************************************************)
LEMMA SequenceFacts ==
    ASSUME Bounds
    PROVE  /\ Len(firmware) \in Nat /\ DOMAIN firmware = 1..Len(firmware)
           /\ \A i \in 1..Len(firmware) : firmware[i] \in [addr : Nat, len : Nat]
           /\ Len(reserved) \in Nat /\ DOMAIN reserved = 1..Len(reserved)
           /\ \A i \in 1..Len(reserved) :
                 /\ reserved[i] \in [start : Nat, end : Nat]
                 /\ reserved[i].start <= reserved[i].end /\ reserved[i].end + PGSIZE < WORD
<1>1. firmware \in Seq([addr : Nat, len : Nat])
    BY FirmwareAssumption DEF Bounds
<1>2. /\ reserved \in Seq([start : Nat, end : Nat])
      /\ \A i \in DOMAIN reserved :
            reserved[i].start <= reserved[i].end /\ reserved[i].end + PGSIZE < WORD
    BY ReservedAssumption DEF Bounds
<1>3. \A X, q : q \in Seq(X) =>
          Len(q) \in Nat /\ DOMAIN q = 1..Len(q) /\ \A i \in 1..Len(q) : q[i] \in X
    OBVIOUS
<1> QED BY <1>1, <1>2, <1>3

(***************************************************************************)
(* One more region, one more range.                                        *)
(***************************************************************************)
LEMMA OneMore ==
    ASSUME NEW k \in Nat, k >= 1
    PROVE  Given(k) = Given(k - 1) \cup Pages(firmware[k]) /\ Gone(k) = Gone(k - 1) \cup Touched(reserved[k])
<1>1. 1..k = (1..(k - 1)) \cup {k}
    OBVIOUS
<1> QED BY <1>1 DEF Given, Gone

(***************************************************************************)
(* The boot starts with an empty map.                                      *)
(***************************************************************************)
LEMMA InitMap == Init => MapInv
<1> SUFFICES ASSUME Init PROVE MapInv
    OBVIOUS
<1>1. memmap = [i \in Slots |-> Empty] /\ mmap_n = 0 /\ m = 0 /\ r = 1 /\ phase = "add"
    BY DEF Init
<1>2. Empty = Entry(0, 0)
    BY WordsFacts DEF Empty, Entry
<1>3. Empty \in [addr : Nat, len : Nat] /\ Empty.addr % PGSIZE = 0 /\ Empty.len % PGSIZE = 0
    BY <1>2, EntryPages
<1>4. Pages(Empty) = {}
    <2>1. Pages(Empty) = 0..(0 + 0 - 1)
        BY <1>2, EntryPages
    <2> QED BY <2>1
<1>5. memmap \in [Slots -> [addr : Nat, len : Nat]] /\ \A i \in Slots : memmap[i] = Empty
    BY <1>1, <1>3
<1>6. MAXMEMMAP \in Nat
    BY WidthAssumption
<1>7. Typed(memmap, mmap_n)
    BY <1>1, <1>3, <1>5, <1>6 DEF Typed
<1>8. Bounds
    <2>1. firmware \in Firmware /\ reserved \in Reserved
        BY DEF Init
    <2>2. Len(firmware) \in Nat
        BY <2>1, FirmwareAssumption
    <2> QED BY <1>1, <1>6, <1>7, <2>1, <2>2 DEF Bounds
<1>9. Good(memmap)
    <2>1. InPages(Empty)
        <3>1. 0 + 0 < Words
            BY WordsFacts
        <3> QED BY <1>2, <3>1 DEF InPages
    <2> QED BY <1>4, <1>5, <2>1 DEF Good
<1>10. AddInv
    <2>1. Held(memmap) = {}
        BY <1>4, <1>5 DEF Held
    <2>2. Occ(memmap) = {}
        BY <1>5 DEF Occ, Empty
    <2>3. Cardinality(Occ(memmap)) = 0
        BY <2>2, FS_EmptySet
    <2>4. r - 1 = 0 /\ 1..(r - 1) = {}
        BY <1>1
    <2>5. Given(r - 1) = {}
        BY <2>4 DEF Given
    <2> QED BY <2>1, <2>3, <2>4, <2>5 DEF AddInv
<1> QED BY <1>1, <1>8, <1>9, <1>10 DEF MapInv, Exact

(***************************************************************************)
(* init_trunix adds a region.                                              *)
(***************************************************************************)
LEMMA AddRegionMap ==
    ASSUME MapInv, AddRegion
    PROVE  MapInv'
<1> DEFINE f == firmware[r]
           st == AddMemmap(Start(memmap, mmap_n), f.addr, f.len)
<1>1. /\ phase = "add" /\ r <= Len(firmware) /\ Store(st) /\ r' = r + 1
      /\ UNCHANGED <<firmware, reserved, m>>
    BY DEF AddRegion, Start
<1>2. Bounds
    BY DEF MapInv
<1>3. /\ Len(firmware) \in Nat /\ Len(reserved) \in Nat
      /\ \A i \in 1..Len(firmware) : firmware[i] \in [addr : Nat, len : Nat]
      /\ DOMAIN firmware = 1..Len(firmware)
    BY <1>2, SequenceFacts
<1>4. r \in Nat /\ r >= 1 /\ r \in 1..Len(firmware) /\ m = 0 /\ Typed(memmap, mmap_n)
    BY <1>1, <1>2, <1>3 DEF Bounds
<1>5. f \in [addr : Nat, len : Nat]
    BY <1>3, <1>4
<1>6. PICK addr \in Nat, len \in Nat : addr = f.addr /\ len = f.len
    BY <1>5
<1>7. st = AddMemmap(Start(memmap, mmap_n), addr, len)
    BY <1>6
<1> HIDE DEF st
<1>8. Bounds'
    <2>1. r' \in Nat /\ r' >= 1 /\ r' <= Len(firmware) + 1
        BY <1>1, <1>3, <1>4
    <2>2. CASE st.full = TRUE
        <3>1. phase' = "panic" /\ UNCHANGED <<memmap, mmap_n>>
            BY <1>1, <2>2 DEF Store
        <3> QED BY <1>1, <1>2, <2>1, <3>1 DEF Bounds, Typed
    <2>3. CASE st.full # TRUE
        <3>1. PICK new, k : st = Start(new, k) /\ Typed(new, k)
            <4>1. TypedOutcome(st)
                BY <1>4, <1>7, AddTyped
            <4> QED BY <2>3, <4>1 DEF TypedOutcome
        <3>2. memmap' = new /\ mmap_n' = k /\ phase' = phase
            BY <1>1, <3>1 DEF Store, Start
        <3>3. Typed(memmap, mmap_n)'
            BY <3>1, <3>2 DEF Typed
        <3> QED BY <1>1, <1>2, <2>1, <3>2, <3>3 DEF Bounds
    <2> QED BY <2>2, <2>3
<1>9. ASSUME WellFormed PROVE Exact'
    <2>1. Good(memmap) /\ Held(memmap) = Given(r - 1) /\ Cardinality(Occ(memmap)) <= r - 1
        BY <1>1, <1>9 DEF MapInv, Exact, AddInv
    <2>2. addr % PGSIZE = 0 /\ addr + len < WORD
        BY <1>3, <1>4, <1>6, <1>9 DEF WellFormed
    <2>3. PICK a \in Nat, l \in Nat :
              /\ a + l < Words
              /\ pg_roundup(addr) = PGSIZE * a /\ pg_rounddown(len) = PGSIZE * l
              /\ Pages(f) = a..(a + l - 1)
              /\ len = 0 => l = 0
        BY <1>5, <1>6, <2>2, RegionPages
    <2>4. Pages(f) \cap Held(memmap) = {}
        <3>1. ASSUME NEW i \in 1..(r - 1) PROVE Pages(firmware[i]) \cap Pages(firmware[r]) = {}
            <4>1. i \in 1..Len(firmware) /\ i # r
                BY <1>3, <1>4
            <4> QED BY <1>3, <1>4, <1>9, <4>1 DEF WellFormed
        <3> QED BY <2>1, <3>1 DEF Given
    <2>5. Fresh(memmap, addr, len, a, l)
        BY <2>1, <2>3, <2>4 DEF Fresh
    <2>6. Outcome(st, memmap, len, a, l)
        BY <1>7, <2>5, AddGood
    <2>7. Cardinality(Occ(memmap)) \in Nat /\ MAXMEMMAP \in Nat
        BY OccFacts, WidthAssumption
    <2>8. CASE st.full = TRUE /\ FreeSlots(memmap) = {}
        <3>1. phase' = "panic" /\ memmap' = memmap
            BY <1>1, <2>8 DEF Store
        <3>2. Cardinality(Occ(memmap)) = MAXMEMMAP
            BY <2>8, OccFacts
        <3>3. Len(firmware) + Len(reserved) > MAXMEMMAP
            BY <1>1, <1>3, <1>4, <2>1, <2>7, <3>2
        <3>4. Len(firmware') + Len(reserved') > MAXMEMMAP
            BY <1>1, <3>3
        <3>5. Good(memmap')
            BY <2>1, <3>1
        <3> QED BY <3>1, <3>4, <3>5 DEF Exact, Good
    <2>9. ASSUME NEW new, NEW k, st = Start(new, k), Grown(new, memmap, a, l),
                 Cardinality(Occ(new)) <= Cardinality(Occ(memmap)) + 1
          PROVE  Exact'
        <3>1. memmap' = new /\ phase' = phase
            BY <1>1, <2>9 DEF Store, Start
        <3>2. Good(new) /\ Held(new) = Held(memmap) \cup Pages(f)
            BY <2>3, <2>9 DEF Grown
        <3>3. Held(new) = Given(r)
            BY <1>4, <2>1, <3>2, OneMore
        <3>4. r' - 1 = r
            BY <1>1, <1>4
        <3>5. Cardinality(Occ(new)) <= r
            <4>1. Cardinality(Occ(new)) \in Nat
                BY OccFacts
            <4> QED BY <1>4, <2>1, <2>7, <2>9, <4>1
        <3>6. Given(r - 1)' = Given(r)
            BY <1>1, <3>4 DEF Given
        <3>7. Held(memmap)' = Held(new) /\ Occ(memmap)' = Occ(new)
            BY <3>1 DEF Held, Occ
        <3>8. AddInv'
            BY <3>3, <3>4, <3>5, <3>6, <3>7 DEF AddInv
        <3>9. Good(memmap)'
            BY <3>1, <3>2 DEF Good
        <3> QED BY <1>1, <3>1, <3>8, <3>9 DEF Exact
    <2> QED BY <2>6, <2>8, <2>9 DEF Outcome
<1>10. WellFormed' <=> WellFormed
    BY <1>1 DEF WellFormed
<1> QED BY <1>8, <1>9, <1>10 DEF MapInv
(***************************************************************************)
(* The regions are all in.                                                 *)
(***************************************************************************)
LEMMA StartCuttingMap ==
    ASSUME MapInv, StartCutting
    PROVE  MapInv'
<1>1. /\ phase = "add" /\ r > Len(firmware) /\ phase' = "cut" /\ r' = 1
      /\ firmware' = firmware /\ reserved' = reserved /\ memmap' = memmap
      /\ mmap_n' = mmap_n /\ m' = m
    BY DEF StartCutting
<1>2. Bounds
    BY DEF MapInv
<1>3. Len(firmware) \in Nat /\ Len(reserved) \in Nat
    BY <1>2, SequenceFacts
<1>4. r \in Nat /\ r - 1 = Len(firmware) /\ m = 0
    BY <1>1, <1>2, <1>3 DEF Bounds
<1>5. Bounds'
    <2>1. Typed(memmap, mmap_n)'
        BY <1>1, <1>2 DEF Bounds, Typed
    <2> QED BY <1>1, <1>2, <1>3, <1>4, <2>1 DEF Bounds
<1>6. ASSUME WellFormed PROVE Exact'
    <2>1. Good(memmap) /\ Held(memmap) = Given(Len(firmware)) /\ Cardinality(Occ(memmap)) <= Len(firmware)
        BY <1>1, <1>4, <1>6 DEF MapInv, Exact, AddInv
    <2>2. /\ Held(memmap)' = Held(memmap) /\ Occ(memmap)' = Occ(memmap)
          /\ Given(Len(firmware))' = Given(Len(firmware))
        BY <1>1 DEF Held, Occ, Given
    <2>3. Gone(r - 1)' = {} /\ Cutting' = {}
        <3>1. r' - 1 = 0 /\ 1..(r' - 1) = {}
            BY <1>1
        <3> QED BY <1>1, <1>4, <3>1 DEF Gone, Cutting
    <2>4. Cardinality(Occ(memmap)) <= Len(firmware) + 1 - 1
        BY <1>3, <2>1
    <2>5. CutInv'
        BY <1>1, <1>4, <2>1, <2>2, <2>3, <2>4 DEF CutInv
    <2>6. Good(memmap)'
        BY <1>1, <2>1 DEF Good
    <2> QED BY <1>1, <2>5, <2>6 DEF Exact
<1>7. WellFormed' <=> WellFormed
    BY <1>1 DEF WellFormed
<1> QED BY <1>5, <1>6, <1>7 DEF MapInv

(***************************************************************************)
(* The next range is taken up: no entry has had its turn.                  *)
(***************************************************************************)
LEMMA BeginCutMap ==
    ASSUME MapInv, BeginCut
    PROVE  MapInv'
<1>1. /\ phase = "cut" /\ m = 0 /\ r <= Len(reserved) /\ m' = 1
      /\ firmware' = firmware /\ reserved' = reserved /\ memmap' = memmap
      /\ mmap_n' = mmap_n /\ phase' = phase /\ r' = r
    BY DEF BeginCut
<1>2. Bounds
    BY DEF MapInv
<1>3. Len(firmware) \in Nat /\ Len(reserved) \in Nat /\ MAXMEMMAP \in Nat
    BY <1>2, SequenceFacts, WidthAssumption
<1>4. Bounds'
    <2>1. Typed(memmap, mmap_n)'
        BY <1>1, <1>2 DEF Bounds, Typed
    <2>2. m' \in 0..(MAXMEMMAP + 1)
        BY <1>1, <1>3
    <2> QED BY <1>1, <1>2, <1>3, <2>1, <2>2 DEF Bounds
<1>5. ASSUME WellFormed PROVE Exact'
    <2>1. Good(memmap) /\ CutInv
        BY <1>1, <1>5 DEF MapInv, Exact
    <2>2. /\ Held(memmap)' = Held(memmap) /\ Occ(memmap)' = Occ(memmap)
          /\ Given(Len(firmware))' = Given(Len(firmware)) /\ Gone(r - 1)' = Gone(r - 1)
        BY <1>1 DEF Held, Occ, Given, Gone
    <2>3. Held(memmap) = Given(Len(firmware)) \ Gone(r - 1)
        BY <1>1, <2>1 DEF CutInv, Cutting
    <2>4. Cardinality(Occ(memmap)) <= Len(firmware) + r - 1
        BY <1>1, <2>1 DEF CutInv
    <2>5. \A i \in Slots : ~(i < m')
        BY <1>1, <1>3 DEF Slots
    <2>6. /\ Held(memmap)' \subseteq (Given(Len(firmware)) \ Gone(r - 1))'
          /\ ((Given(Len(firmware)) \ Gone(r - 1)) \ Cutting)' \subseteq Held(memmap)'
        BY <2>2, <2>3
    <2>7. Cardinality(Occ(memmap))' <= Len(firmware)' + r' - 1
        BY <1>1, <2>2, <2>4
    <2>8. CutInv'
        BY <2>5, <2>6, <2>7 DEF CutInv
    <2>9. Good(memmap)'
        BY <1>1, <2>1 DEF Good
    <2> QED BY <1>1, <2>8, <2>9 DEF Exact
<1>6. WellFormed' <=> WellFormed
    BY <1>1 DEF WellFormed
<1> QED BY <1>4, <1>5, <1>6 DEF MapInv

(***************************************************************************)
(* Every entry has had its turn: the range is gone from the map.           *)
(***************************************************************************)
LEMMA EndCutMap ==
    ASSUME MapInv, EndCut
    PROVE  MapInv'
<1>1. /\ phase = "cut" /\ m > mmap_n /\ m' = 0 /\ r' = r + 1
      /\ firmware' = firmware /\ reserved' = reserved /\ memmap' = memmap
      /\ mmap_n' = mmap_n /\ phase' = phase
    BY DEF EndCut
<1>2. Bounds
    BY DEF MapInv
<1>3. Len(firmware) \in Nat /\ Len(reserved) \in Nat /\ MAXMEMMAP \in Nat
    BY <1>2, SequenceFacts, WidthAssumption
<1>4. /\ r \in Nat /\ r >= 1 /\ m \in Nat /\ mmap_n \in Nat /\ m > 0
      /\ r <= Len(reserved) /\ Typed(memmap, mmap_n)
    <2>1. m \in Nat /\ mmap_n \in Nat
        BY <1>2, <1>3 DEF Bounds, Typed
    <2>2. m > 0
        BY <1>1, <2>1
    <2> QED BY <1>1, <1>2, <2>1, <2>2 DEF Bounds
<1>5. Bounds'
    <2>1. Typed(memmap, mmap_n)'
        BY <1>1, <1>4 DEF Typed
    <2>2. m' \in 0..(MAXMEMMAP + 1) /\ r' \in Nat /\ r' >= 1 /\ r' <= Len(reserved) + 1
        BY <1>1, <1>3, <1>4
    <2> QED BY <1>1, <1>2, <2>1, <2>2 DEF Bounds
<1>6. ASSUME WellFormed PROVE Exact'
    <2>1. Good(memmap) /\ CutInv
        BY <1>1, <1>6 DEF MapInv, Exact
    <2>2. Cutting = Touched(reserved[r])
        BY <1>4 DEF Cutting
    <2>3. ASSUME NEW i \in Slots PROVE Pages(memmap[i]) \cap Cutting = {}
        <3>0. i \in Int
            BY <1>3 DEF Slots
        <3>1. CASE i < m
            BY <2>1, <3>1 DEF CutInv
        <3>2. CASE i >= m
            <4>1. i > mmap_n
                BY <1>1, <1>4, <3>0, <3>2
            <4>2. memmap[i] = Empty
                BY <1>4, <4>1 DEF Typed
            <4>3. Empty = Entry(0, 0)
                BY WordsFacts DEF Empty, Entry
            <4>4. Pages(memmap[i]) = 0..(0 + 0 - 1)
                BY <4>2, <4>3, EntryPages
            <4> QED BY <4>4
        <3> QED BY <1>4, <3>0, <3>1, <3>2
    <2>4. Held(memmap) \cap Cutting = {}
        BY <2>3 DEF Held
    <2>5. Gone(r) = Gone(r - 1) \cup Cutting
        BY <1>4, <2>2, OneMore
    <2>6. Held(memmap) = Given(Len(firmware)) \ Gone(r)
        BY <2>1, <2>4, <2>5 DEF CutInv
    <2>7. r' - 1 = r
        BY <1>1, <1>4
    <2>8. /\ Held(memmap)' = Held(memmap) /\ Occ(memmap)' = Occ(memmap)
          /\ Given(Len(firmware))' = Given(Len(firmware)) /\ Gone(r - 1)' = Gone(r)
        BY <1>1, <2>7 DEF Held, Occ, Given, Gone
    <2>9. Cutting' = {}
        BY <1>1 DEF Cutting
    <2>10. Cardinality(Occ(memmap)) <= Len(firmware) + r
        <3>1. Cardinality(Occ(memmap)) \in Nat
            BY OccFacts
        <3> QED BY <1>3, <1>4, <2>1, <3>1 DEF CutInv
    <2>11. Cardinality(Occ(memmap))' <= Len(firmware)' + r' - 1
        BY <1>1, <1>3, <1>4, <2>8, <2>10
    <2>12. CutInv'
        BY <2>6, <2>8, <2>9, <2>11 DEF CutInv
    <2>13. Good(memmap)'
        BY <1>1, <2>1 DEF Good
    <2> QED BY <1>1, <2>12, <2>13 DEF Exact
<1>7. WellFormed' <=> WellFormed
    BY <1>1 DEF WellFormed
<1> QED BY <1>5, <1>6, <1>7 DEF MapInv

(***************************************************************************)
(* The boot is through.                                                    *)
(***************************************************************************)
LEMMA EndBootMap ==
    ASSUME MapInv, EndBoot
    PROVE  MapInv'
<1>1. /\ phase = "cut" /\ m = 0 /\ r > Len(reserved) /\ phase' = "done"
      /\ firmware' = firmware /\ reserved' = reserved /\ memmap' = memmap
      /\ mmap_n' = mmap_n /\ m' = m /\ r' = r
    BY DEF EndBoot
<1>2. Bounds
    BY DEF MapInv
<1>3. Len(firmware) \in Nat /\ Len(reserved) \in Nat
    BY <1>2, SequenceFacts
<1>4. r \in Nat /\ r - 1 = Len(reserved)
    BY <1>1, <1>2, <1>3 DEF Bounds
<1>5. Bounds'
    <2>1. Typed(memmap, mmap_n)'
        BY <1>1, <1>2 DEF Bounds, Typed
    <2> QED BY <1>1, <1>2, <2>1 DEF Bounds
<1>6. ASSUME WellFormed PROVE Exact'
    <2>1. Good(memmap) /\ CutInv
        BY <1>1, <1>6 DEF MapInv, Exact
    <2>2. Held(memmap) = Given(Len(firmware)) \ Gone(Len(reserved))
        BY <1>1, <1>4, <2>1 DEF CutInv, Cutting
    <2>3. /\ Held(memmap)' = Held(memmap)
          /\ Given(Len(firmware))' = Given(Len(firmware))
          /\ Gone(Len(reserved))' = Gone(Len(reserved))
        BY <1>1 DEF Held, Given, Gone
    <2>4. Good(memmap)'
        BY <1>1, <2>1 DEF Good
    <2> QED BY <1>1, <2>2, <2>3, <2>4 DEF Exact
<1>7. WellFormed' <=> WellFormed
    BY <1>1 DEF WellFormed
<1> QED BY <1>5, <1>6, <1>7 DEF MapInv

(***************************************************************************)
(* What a turn compares, for an entry and a range that are whole pages.    *)
(***************************************************************************)
LEMMA TurnPages ==
    ASSUME NEW a \in Nat, NEW l \in Nat, a + l < Words, NEW e, e = Entry(a, l),
           NEW s \in Nat, NEW t \in Nat
    PROVE  /\ EntryStart(e) = PGSIZE * a /\ EntryEnd(e) = PGSIZE * (a + l)
           /\ Larger(PGSIZE * s, EntryStart(e)) = PGSIZE * Larger(s, a)
           /\ Smaller(PGSIZE * t, EntryEnd(e)) = PGSIZE * Smaller(t, a + l)
<1>1. PICK d \in Nat \ {0} : d = PGSIZE
    BY WordsFacts
<1>2. e.addr = d * a /\ e.len = d * l
    BY <1>1, EntryPages
<1>3. PICK b \in Nat : b = a + l
    OBVIOUS
<1>4. e.addr + e.len = d * b
    BY <1>2, <1>3, TimesAdd
<1>5. a < Words /\ b < Words
    BY <1>3, WordsFacts
<1>6. EntryStart(e) = d * a
    BY <1>1, <1>2, <1>5, RoundPages DEF EntryStart
<1>7. EntryEnd(e) = d * b
    BY <1>1, <1>4, <1>5, RoundPages DEF EntryEnd
<1>8. d * s < d * a <=> s < a
    BY TimesOrder
<1>9. d * t < d * b <=> t < b
    BY TimesOrder
<1>10. Larger(d * s, d * a) = d * Larger(s, a)
    BY <1>8 DEF Larger
<1>11. Smaller(d * t, d * b) = d * Smaller(t, b)
    BY <1>9 DEF Smaller
<1> QED BY <1>1, <1>3, <1>6, <1>7, <1>10, <1>11

(***************************************************************************)
(* What a turn compares, whatever the entry and the range.                 *)
(***************************************************************************)
LEMMA TurnTyped ==
    ASSUME NEW e \in [addr : Nat, len : Nat], NEW c \in [start : Nat, end : Nat]
    PROVE  /\ EntryStart(e) \in Nat /\ EntryEnd(e) \in Nat
           /\ Larger(CutStart(c), EntryStart(e)) \in Nat
           /\ Larger(CutStart(c), EntryStart(e)) - EntryStart(e) \in Nat
           /\ Smaller(CutEnd(c), EntryEnd(e)) \in Nat
           /\ EntryEnd(e) - Smaller(CutEnd(c), EntryEnd(e)) \in Nat
<1>1. PICK x \in Nat, y \in Nat : x = e.addr /\ y = e.addr + e.len
    OBVIOUS
<1>2. WORD \in Nat \ {0} /\ PGSIZE \in Nat \ {0}
    BY WordsFacts
<1>3. PICK p \in Nat, q \in Nat : p = EntryStart(e) /\ q = EntryEnd(e)
    BY <1>1, <1>2, DivMod DEF EntryStart, EntryEnd
<1>4. PICK u \in Nat : u = CutStart(c)
    <2>1. PICK x1 \in Nat : x1 = c.start
        OBVIOUS
    <2>2. PICK k \in Nat : pg_rounddown(x1) = PGSIZE * k
        BY RoundDown
    <2>3. PGSIZE * k \in Nat
        BY <1>2, TimesOrder
    <2> QED BY <2>1, <2>2, <2>3 DEF CutStart
<1>5. PICK v \in Nat : v = CutEnd(c)
    <2>1. PICK x1 \in Nat : x1 = c.end
        OBVIOUS
    <2>2. PICK k \in Nat : pg_roundup(x1) = PGSIZE * k
        BY RoundUp
    <2>3. PGSIZE * k \in Nat
        BY <1>2, TimesOrder
    <2> QED BY <2>1, <2>2, <2>3 DEF CutEnd
<1>6. Larger(u, p) \in Nat /\ Larger(u, p) - p \in Nat
    BY DEF Larger
<1>7. Smaller(v, q) \in Nat /\ q - Smaller(v, q) \in Nat
    BY DEF Smaller
<1> QED BY <1>3, <1>4, <1>5, <1>6, <1>7

(***************************************************************************)
(* An entry has its turn.                                                  *)
(***************************************************************************)
LEMMA CutTurnMap ==
    ASSUME MapInv, CutTurn
    PROVE  MapInv'
<1> DEFINE e == memmap[m]
           c == reserved[r]
           start == Larger(CutStart(c), EntryStart(e))
           end == Smaller(CutEnd(c), EntryEnd(e))
           st == Cut(memmap, mmap_n, e, start, end, m)
<1>1. /\ phase = "cut" /\ m \in 1..mmap_n /\ m' = m + 1
      /\ firmware' = firmware /\ reserved' = reserved /\ r' = r
    BY DEF CutTurn, NextIndex
<1>2. \/ ~(start < end) /\ UNCHANGED <<memmap, mmap_n, phase>>
      \/ start < end /\ Store(st)
    BY DEF CutTurn, Overlaps, CutEntry, Cut, Start
<1>3. Bounds
    BY DEF MapInv
<1>4. /\ Len(firmware) \in Nat /\ Len(reserved) \in Nat /\ MAXMEMMAP \in Nat
      /\ \A i \in 1..Len(reserved) :
            /\ reserved[i] \in [start : Nat, end : Nat]
            /\ reserved[i].start <= reserved[i].end /\ reserved[i].end + PGSIZE < WORD
    BY <1>3, SequenceFacts, WidthAssumption
<1>5. /\ r \in Nat /\ r >= 1 /\ mmap_n \in 0..MAXMEMMAP /\ m \in Nat /\ m >= 1
      /\ Typed(memmap, mmap_n)
    BY <1>1, <1>3, <1>4 DEF Bounds, Typed
<1>6. m \in Slots /\ r \in 1..Len(reserved) /\ m + 1 \in 0..(MAXMEMMAP + 1)
    BY <1>1, <1>3, <1>4, <1>5 DEF Bounds, Slots
<1>7. /\ e \in [addr : Nat, len : Nat] /\ c \in [start : Nat, end : Nat]
      /\ c.start <= c.end /\ c.end + PGSIZE < WORD
    BY <1>4, <1>5, <1>6 DEF Typed
<1> HIDE DEF e, c, start, end, st
<1>8. Bounds'
    <2>1. CASE UNCHANGED <<memmap, mmap_n>> /\ phase' \in {phase, "panic"}
        <3>1. Typed(memmap, mmap_n)'
            BY <1>5, <2>1 DEF Typed
        <3> QED BY <1>1, <1>3, <1>6, <2>1, <3>1 DEF Bounds
    <2>2. CASE Store(st)
        <3>1. TypedOutcome(st)
            <4>1. PICK p \in Nat, q \in Nat, y \in Nat, z \in Nat :
                      /\ p = EntryStart(e) /\ q = start - EntryStart(e)
                      /\ y = end /\ z = EntryEnd(e) - end
                BY <1>7, TurnTyped DEF start, end
            <4>2. st = AddMemmap(AddMemmap(Start(FreeEntry(memmap, m), mmap_n), p, q), y, z)
                BY <4>1 DEF st, Cut
            <4> QED BY <1>5, <1>6, <4>2, CutTyped
        <3>2. CASE st.full = TRUE
            BY <2>1, <2>2, <3>2 DEF Store
        <3>3. ASSUME NEW new, NEW k, st = Start(new, k), Typed(new, k) PROVE Bounds'
            <4>1. memmap' = new /\ mmap_n' = k /\ phase' = phase
                BY <2>2, <3>3 DEF Store, Start
            <4>2. Typed(memmap, mmap_n)'
                BY <3>3, <4>1 DEF Typed
            <4> QED BY <1>1, <1>3, <1>6, <4>1, <4>2 DEF Bounds
        <3> QED BY <3>1, <3>2, <3>3 DEF TypedOutcome
    <2> QED BY <1>2, <2>1, <2>2
<1>9. ASSUME WellFormed PROVE Exact'
    <2> DEFINE T == Touched(c)
    <2>1. Good(memmap) /\ CutInv
        BY <1>1, <1>9 DEF MapInv, Exact
    <2>2. Cutting = T /\ Cutting' = T /\ Gone(r - 1)' = Gone(r - 1)
          /\ Given(Len(firmware))' = Given(Len(firmware))
        BY <1>1, <1>5 DEF Cutting, c, Gone, Given
    <2>3. PICK a \in Nat, l \in Nat : a + l < Words /\ e = Entry(a, l)
        BY <1>6, <2>1 DEF Good, InPages, e
    <2>4. PICK s \in Nat, t \in Nat :
              CutStart(c) = PGSIZE * s /\ CutEnd(c) = PGSIZE * t /\ T = s..(t - 1)
        BY <1>7, RangePages
    <2>5. PICK x \in Nat, y \in Nat, b \in Nat : b = a + l /\ x = Larger(s, a) /\ y = Smaller(t, b)
        <3>1. Larger(s, a) \in Nat /\ Smaller(t, a + l) \in Nat
            BY DEF Larger, Smaller
        <3> QED BY <3>1
    <2>6. /\ EntryStart(e) = PGSIZE * a /\ EntryEnd(e) = PGSIZE * b
          /\ start = PGSIZE * x /\ end = PGSIZE * y
        BY <2>3, <2>4, <2>5, TurnPages DEF start, end
    <2>7. start < end <=> x < y
        BY <2>6, WordsFacts, TimesOrder
    <2>8. Pages(e) = a..(b - 1)
        BY <2>3, <2>5, EntryPages
    <2> HIDE DEF T
    <2>9. Cardinality(Occ(memmap)) \in Nat
        BY OccFacts
    <2>10. ASSUME ~(x < y), UNCHANGED <<memmap, mmap_n, phase>> PROVE Exact'
        <3>1. Pages(e) \cap T = {}
            BY <2>4, <2>5, <2>8, <2>10 DEF Larger, Smaller
        <3>2. Held(memmap)' = Held(memmap) /\ Occ(memmap)' = Occ(memmap)
            BY <2>10 DEF Held, Occ
        <3>3. ASSUME NEW i \in Slots, i < m + 1 PROVE Pages(memmap[i]) \cap T = {}
            <4>1. i < m \/ i = m
                BY <1>4, <1>5, <3>3 DEF Slots
            <4> QED BY <2>1, <2>2, <3>1, <4>1 DEF CutInv, e
        <3>4. (\A i \in Slots : i < m => Pages(memmap[i]) \cap Cutting = {})'
            BY <1>1, <2>2, <2>10, <3>3 DEF Pages
        <3>5. m' > 0
            BY <1>1, <1>5
        <3>6. CutInv'
            BY <1>1, <2>1, <2>2, <3>2, <3>4, <3>5 DEF CutInv
        <3>7. Good(memmap)'
            BY <2>1, <2>10 DEF Good
        <3> QED BY <1>1, <2>10, <3>6, <3>7 DEF Exact
    <2>11. ASSUME x < y, Store(st) PROVE Exact'
        <3>1. CutOutcome(st, memmap, m, T)
            <4>1. start - EntryStart(e) = PGSIZE * (x - a) /\ EntryEnd(e) - end = PGSIZE * (b - y)
                BY <2>6, WordsFacts, TimesAdd
            <4>2. st = AddMemmap(AddMemmap(Start(FreeEntry(memmap, m), mmap_n), PGSIZE * a, PGSIZE * (x - a)),
                                 PGSIZE * y, PGSIZE * (a + l - y))
                BY <2>5, <2>6, <4>1 DEF st, Cut
            <4>3. memmap[m] = Entry(a, l) /\ y = Smaller(t, a + l)
                BY <2>3, <2>5 DEF e
            <4>4. CutOutcome(AddMemmap(AddMemmap(Start(FreeEntry(memmap, m), mmap_n), PGSIZE * a, PGSIZE * (x - a)),
                                       PGSIZE * y, PGSIZE * (a + l - y)),
                             memmap, m, s..(t - 1))
                BY <1>6, <2>1, <2>3, <2>5, <2>11, <4>3, CutGood
            <4> QED BY <2>4, <4>2, <4>4
        <3>2. Pages(e) \cap T # {}
            <4>1. x \in Pages(e) /\ x \in T
                BY <2>4, <2>5, <2>8, <2>11 DEF Larger, Smaller
            <4> QED BY <4>1
        <3>3. Pages(e) \subseteq Held(memmap)
            BY <1>6 DEF Held, e
        <3>4. Cardinality(Occ(memmap)) <= Len(firmware) + r - 1
            BY <2>1, <2>2, <3>2, <3>3 DEF CutInv
        <3>5. CASE st.full = TRUE /\ Cardinality(Occ(memmap)) >= MAXMEMMAP
            <4>1. phase' = "panic" /\ memmap' = memmap
                BY <2>11, <3>5 DEF Store
            <4>2. Len(firmware) + Len(reserved) > MAXMEMMAP
                BY <1>4, <1>5, <1>6, <2>9, <3>4, <3>5
            <4>3. Len(firmware') + Len(reserved') > MAXMEMMAP
                BY <1>1, <4>2
            <4>4. Good(memmap)'
                BY <2>1, <4>1 DEF Good
            <4> QED BY <4>1, <4>3, <4>4 DEF Exact
        <3>6. ASSUME NEW new, NEW k, st = Start(new, k), Good(new),
                     Held(new) = Held(memmap) \ (Pages(e) \cap T),
                     \A j \in Slots : (j # m /\ Pages(new[j]) = Pages(memmap[j]))
                                       \/ Pages(new[j]) \cap T = {},
                     \/ Cardinality(Occ(new)) <= Cardinality(Occ(memmap))
                     \/ /\ Cardinality(Occ(new)) <= Cardinality(Occ(memmap)) + 1
                        /\ T \subseteq Pages(e)
              PROVE  Exact'
            <4>1. memmap' = new /\ phase' = phase
                BY <2>11, <3>6 DEF Store, Start
            <4>2. Held(memmap)' = Held(new) /\ Occ(memmap)' = Occ(new)
                BY <4>1 DEF Held, Occ
            <4>3. Cardinality(Occ(new)) \in Nat
                BY OccFacts
            <4>4. ASSUME NEW i \in Slots, i < m + 1 PROVE Pages(new[i]) \cap T = {}
                <5>1. i < m \/ i = m
                    BY <1>4, <1>5, <4>4 DEF Slots
                <5> QED BY <2>1, <2>2, <3>6, <5>1 DEF CutInv
            <4>5. (\A i \in Slots : i < m => Pages(memmap[i]) \cap Cutting = {})'
                BY <1>1, <2>2, <4>1, <4>4 DEF Pages
            <4>6. m' > 0
                BY <1>1, <1>5
            <4>7. /\ Held(new) \subseteq Given(Len(firmware)) \ Gone(r - 1)
                  /\ (Given(Len(firmware)) \ Gone(r - 1)) \ T \subseteq Held(new)
                BY <2>1, <2>2, <3>6 DEF CutInv
            <4>8. \/ Cardinality(Occ(new)) <= Len(firmware) + r - 1
                  \/ Cardinality(Occ(new)) <= Len(firmware) + r /\ Held(new) \cap T = {}
                <5>1. CASE Cardinality(Occ(new)) <= Cardinality(Occ(memmap))
                    BY <1>4, <1>5, <2>9, <3>4, <4>3, <5>1
                <5>2. CASE Cardinality(Occ(new)) <= Cardinality(Occ(memmap)) + 1 /\ T \subseteq Pages(e)
                    <6>1. Cardinality(Occ(new)) <= Len(firmware) + r
                        BY <1>4, <1>5, <2>9, <3>4, <4>3, <5>2
                    <6>2. Held(new) \cap T = {}
                        BY <3>6, <5>2
                    <6> QED BY <6>1, <6>2
                <5> QED BY <3>6, <5>1, <5>2
            <4>9. CutInv'
                BY <1>1, <2>2, <4>2, <4>5, <4>6, <4>7, <4>8 DEF CutInv
            <4>10. Good(memmap)'
                BY <3>6, <4>1 DEF Good
            <4> QED BY <1>1, <4>1, <4>9, <4>10 DEF Exact
        <3>7. memmap[m] = e
            BY DEF e
        <3> QED BY <3>1, <3>5, <3>6, <3>7 DEF CutOutcome
    <2> QED BY <1>2, <2>7, <2>10, <2>11
<1>10. WellFormed' <=> WellFormed
    BY <1>1 DEF WellFormed
<1> QED BY <1>8, <1>9, <1>10 DEF MapInv

(***************************************************************************)
(* Every step keeps the invariant.                                         *)
(***************************************************************************)
LEMMA NextMap ==
    ASSUME MapInv, [Next]_vars
    PROVE  MapInv'
<1>1. CASE AddRegion
    BY <1>1, AddRegionMap
<1>2. CASE StartCutting
    BY <1>2, StartCuttingMap
<1>3. CASE BeginCut
    BY <1>3, BeginCutMap
<1>4. CASE CutTurn
    BY <1>4, CutTurnMap
<1>5. CASE EndCut
    BY <1>5, EndCutMap
<1>6. CASE EndBoot
    BY <1>6, EndBootMap
<1>7. CASE UNCHANGED vars
    <2>1. /\ firmware' = firmware /\ reserved' = reserved /\ r' = r /\ memmap' = memmap
          /\ mmap_n' = mmap_n /\ m' = m /\ phase' = phase
        BY <1>7 DEF vars
    <2>2. Bounds'
        <3>1. Bounds
            BY DEF MapInv
        <3>2. Typed(memmap, mmap_n)'
            BY <2>1, <3>1 DEF Bounds, Typed
        <3> QED BY <2>1, <3>1, <3>2 DEF Bounds
    <2>3. ASSUME WellFormed PROVE Exact'
        <3>1. Exact
            BY <2>3 DEF MapInv
        <3>2. /\ Held(memmap)' = Held(memmap) /\ Occ(memmap)' = Occ(memmap)
              /\ Given(Len(firmware))' = Given(Len(firmware)) /\ Given(r - 1)' = Given(r - 1)
              /\ Gone(Len(reserved))' = Gone(Len(reserved)) /\ Gone(r - 1)' = Gone(r - 1)
              /\ Cutting' = Cutting
            BY <2>1 DEF Held, Occ, Given, Gone, Cutting
        <3>3. Good(memmap)'
            BY <2>1, <3>1 DEF Exact, Good
        <3>4. AddInv => AddInv'
            BY <2>1, <3>2 DEF AddInv
        <3>5. CutInv => CutInv'
            BY <2>1, <3>2 DEF CutInv
        <3> QED BY <2>1, <3>1, <3>2, <3>3, <3>4, <3>5 DEF Exact
    <2>4. WellFormed' <=> WellFormed
        BY <2>1 DEF WellFormed
    <2> QED BY <2>2, <2>3, <2>4 DEF MapInv
<1> QED BY <1>1, <1>2, <1>3, <1>4, <1>5, <1>6, <1>7 DEF Next, Step, Stopped

(***************************************************************************)
(* What the invariant says of the map that init_mem is handed.             *)
(***************************************************************************)
LEMMA MapInvRight == MapInv => MapRight
<1> SUFFICES ASSUME MapInv PROVE MapRight
    OBVIOUS
<1>1. Bounds
    BY DEF MapInv
<1>2. TypeOK
    BY <1>1 DEF Bounds, Typed, TypeOK
<1>3. DOMAIN firmware = 1..Len(firmware) /\ DOMAIN reserved = 1..Len(reserved)
    BY <1>1, SequenceFacts
<1>4. ExactMap
    BY <1>3 DEF MapInv, Exact, ExactMap, Held, Given, Gone
<1>5. EntriesDisjoint
    BY DEF MapInv, Exact, Good, EntriesDisjoint
<1>6. PanicsOnlyWhenFull
    BY DEF MapInv, Exact, PanicsOnlyWhenFull
<1> QED BY <1>2, <1>4, <1>5, <1>6 DEF MapRight

(***************************************************************************)
(* The map that init_trunix hands to init_mem: the entries are page        *)
(* aligned and lie in the slots in use; for a map of the firmware whose    *)
(* regions start on a page, end below 4 GiB and do not overlap, no page is *)
(* in two entries at any step of the cutting, the pages at the end are     *)
(* those of the firmware that no reserved range touches, and the kernel    *)
(* panics only if there are fewer slots than regions and ranges together.  *)
(***************************************************************************)
THEOREM MapRightAlways == Spec => []MapRight
<1>1. Init => MapInv
    BY InitMap
<1>2. MapInv /\ [Next]_vars => MapInv'
    BY NextMap
<1>3. MapInv => MapRight
    BY MapInvRight
<1> QED BY <1>1, <1>2, <1>3, PTL DEF Spec

-----------------------------------------------------------------------------
(***************************************************************************)
(* The order of the boot. Before(s) is what has been set up, and not taken *)
(* away, when kmain comes to step s.                                       *)
(***************************************************************************)
Before(s) ==
    CASE s = "descriptors" -> {"mbi", "low", "upper"}
      [] s = "init_serial" -> {"mbi", "low", "upper", "tss"}
      [] s = "memcpy" -> {"mbi", "low", "upper", "tss", "serial"}
      [] s = "pg_clear_identity" -> {"upper", "tss", "serial", "k"}
      [] s = "init_mem" -> {"tss", "serial", "k"}
      [] s = "load_initrd" -> {"tss", "serial", "k", "pages", "kpagedir"}
      [] s = "init_pmm" -> {"tss", "serial", "k", "pages", "kpagedir", "files"}
      [] s = "initsys" ->
            {"tss", "serial", "k", "pages", "kpagedir", "files", "memtab"}
      [] s = "init_sched" -> {"tss", "serial", "pages", "process"}

KmainSteps == {B!StepOrder[i] : i \in 1..9}

(***************************************************************************)
(* Where the boot may be, and what it has then: nothing is used too early, *)
(* the magic was tested, initrd is the loader's module once the map is     *)
(* cut, and the last step is reached only with init of that module.        *)
(***************************************************************************)
BootInv ==
    /\ mode \in {"boot", "sched", "panic", "reset"}
    /\ pc \in {"head", "add", "cut", "paging"} \cup KmainSteps
    /\ pc # "head" => mbi.magic
    /\ pc = "head" => mode \in {"boot", "reset"}
    /\ pc \in {"add", "cut", "paging"} => "mbi" \in have /\ mode # "sched"
    /\ pc = "paging" => mode # "panic"
    /\ pc \in {"paging"} \cup KmainSteps =>
            initrd = IF "MODS" \in mbi.flags THEN mbi.module ELSE "junk"
    /\ pc \in KmainSteps => Before(pc) \subseteq have
    /\ pc = "init_sched" => initrd = "init"
    /\ mode = "sched" => pc = "init_sched"
    /\ (mode = "panic" /\ pc \in KmainSteps) => "serial" \in have

(***************************************************************************)
(* The steps of kmain, one by one.                                         *)
(***************************************************************************)
LEMMA StepsOfKmain ==
    /\ DOMAIN B!StepOrder = 1..9 /\ Len(B!StepOrder) = 9
    /\ B!StepOrder[1] = "descriptors" /\ B!StepOrder[2] = "init_serial"
    /\ B!StepOrder[3] = "memcpy" /\ B!StepOrder[4] = "pg_clear_identity"
    /\ B!StepOrder[5] = "init_mem" /\ B!StepOrder[6] = "load_initrd"
    /\ B!StepOrder[7] = "init_pmm" /\ B!StepOrder[8] = "initsys"
    /\ B!StepOrder[9] = "init_sched"
BY DEF B!StepOrder

(***************************************************************************)
(* The set of their names.                                                 *)
(***************************************************************************)
LEMMA StepNames ==
    KmainSteps = {"descriptors", "init_serial", "memcpy", "pg_clear_identity",
        "init_mem", "load_initrd", "init_pmm", "initsys", "init_sched"}
<1>1. 1..9 = {1, 2, 3, 4, 5, 6, 7, 8, 9}
    OBVIOUS
<1> QED BY <1>1, StepsOfKmain DEF KmainSteps

(***************************************************************************)
(* Before the boot loader enters, nothing has been done.                   *)
(***************************************************************************)
LEMMA InitBoot == B!Init => BootInv
BY StepNames DEF B!Init, BootInv

(***************************************************************************)
(* Entry: the magic number is tested before anything is read.              *)
(***************************************************************************)
LEMMA EnterBoot == BootInv /\ B!Enter => BootInv'
BY StepNames, StepsOfKmain DEF BootInv, B!Enter, B!Goto, B!Stop, B!MagicTest

(***************************************************************************)
(* The regions of the boot loader are added.                               *)
(***************************************************************************)
LEMMA AddBoot == BootInv /\ B!AddRegions => BootInv'
BY StepNames DEF BootInv, B!AddRegions, B!Goto, B!Stop

(***************************************************************************)
(* The kernel and the modules are cut out.                                 *)
(***************************************************************************)
LEMMA CutBoot == BootInv /\ B!CutRegions => BootInv'
BY StepNames DEF BootInv, B!CutRegions, B!Goto, B!Stop

(***************************************************************************)
(* Paging goes on, and kmain begins.                                       *)
(***************************************************************************)
LEMMA PagingBoot == BootInv /\ B!Paging => BootInv'
BY StepNames, StepsOfKmain DEF BootInv, B!Paging, B!Goto, B!Stop, Before

(***************************************************************************)
(* Each step of kmain finds done what it needs, and marks itself done.     *)
(***************************************************************************)
LEMMA KmainBoot ==
    ASSUME NEW i \in 1..9, BootInv, B!Kmain(i) PROVE BootInv'
<1>1. CASE i = 1
    BY <1>1, StepNames, StepsOfKmain
       DEF B!Kmain, B!Stop, B!Step, B!MayFail, B!MustFail, B!Needs, B!Gives,
           B!Takes, Before, BootInv
<1>2. CASE i = 2
    BY <1>2, StepNames, StepsOfKmain
       DEF B!Kmain, B!Stop, B!Step, B!MayFail, B!MustFail, B!Needs, B!Gives,
           B!Takes, Before, BootInv
<1>3. CASE i = 3
    BY <1>3, StepNames, StepsOfKmain
       DEF B!Kmain, B!Stop, B!Step, B!MayFail, B!MustFail, B!Needs, B!Gives,
           B!Takes, Before, BootInv
<1>4. CASE i = 4
    BY <1>4, StepNames, StepsOfKmain
       DEF B!Kmain, B!Stop, B!Step, B!MayFail, B!MustFail, B!Needs, B!Gives,
           B!Takes, Before, BootInv
<1>5. CASE i = 5
    BY <1>5, StepNames, StepsOfKmain
       DEF B!Kmain, B!Stop, B!Step, B!MayFail, B!MustFail, B!Needs, B!Gives,
           B!Takes, Before, BootInv
<1>6. CASE i = 6
    BY <1>6, StepNames, StepsOfKmain
       DEF B!Kmain, B!Stop, B!Step, B!MayFail, B!MustFail, B!Needs, B!Gives,
           B!Takes, Before, BootInv
<1>7. CASE i = 7
    BY <1>7, StepNames, StepsOfKmain
       DEF B!Kmain, B!Stop, B!Step, B!MayFail, B!MustFail, B!Needs, B!Gives,
           B!Takes, Before, BootInv
<1>8. CASE i = 8
    BY <1>8, StepNames, StepsOfKmain
       DEF B!Kmain, B!Stop, B!Step, B!MayFail, B!MustFail, B!Needs, B!Gives,
           B!Takes, Before, BootInv
<1>9. CASE i = 9
    BY <1>9, StepNames, StepsOfKmain
       DEF B!Kmain, B!Stop, B!Step, B!MayFail, B!MustFail, B!Needs, B!Gives,
           B!Takes, Before, BootInv
<1>10. i \in {1, 2, 3, 4, 5, 6, 7, 8, 9}
    OBVIOUS
<1> QED BY <1>1, <1>2, <1>3, <1>4, <1>5, <1>6, <1>7, <1>8, <1>9, <1>10

(***************************************************************************)
(* Every step of the boot keeps BootInv.                                   *)
(***************************************************************************)
LEMMA NextBoot == BootInv /\ [B!Next]_(B!vars) => BootInv'
<1> SUFFICES ASSUME BootInv, [B!Next]_(B!vars) PROVE BootInv'
    OBVIOUS
<1>1. CASE B!Enter
    BY <1>1, EnterBoot
<1>2. CASE B!AddRegions
    BY <1>2, AddBoot
<1>3. CASE B!CutRegions
    BY <1>3, CutBoot
<1>4. CASE B!Paging
    BY <1>4, PagingBoot
<1>5. CASE \E i \in DOMAIN B!StepOrder : B!Kmain(i)
    BY <1>5, StepsOfKmain, KmainBoot
<1>6. CASE B!Ended \/ UNCHANGED B!vars
    BY <1>6 DEF B!Ended, B!vars, BootInv
<1> QED BY <1>1, <1>2, <1>3, <1>4, <1>5, <1>6 DEF B!Next

(***************************************************************************)
(* BootInv says what BootSafe asks for.                                    *)
(***************************************************************************)
LEMMA BootInvSafe == BootInv => BootSafe
<1> SUFFICES ASSUME BootInv PROVE B!InOrder /\ B!StartsInit /\ B!PanicHeard
    BY DEF BootSafe, B!BootSafe
<1>1. B!InOrder
    BY DEF BootInv, B!InOrder
<1>2. mode = "sched" => Before("init_sched") \subseteq have
    BY StepNames DEF BootInv
<1>3. B!StartsInit
    BY <1>2 DEF BootInv, B!StartsInit, Before
<1>4. B!PanicHeard
    BY DEF BootInv, B!PanicHeard
<1> QED BY <1>1, <1>3, <1>4

(***************************************************************************)
(* Whatever the loader left out of the boot information: no step of head.S,*)
(* init_trunix or kmain uses what is not set up yet or no longer mapped,   *)
(* the scheduler starts only with a process made from /sbin/init of the    *)
(* loader's module, and a panic after paging is reported over a serial     *)
(* line that has been set up.                                              *)
(***************************************************************************)
THEOREM BootSafeAlways == B!Spec => []BootSafe
<1>1. B!Init => BootInv
    BY InitBoot
<1>2. BootInv /\ [B!Next]_(B!vars) => BootInv'
    BY NextBoot
<1>3. BootInv => BootSafe
    BY BootInvSafe
<1> QED BY <1>1, <1>2, <1>3, PTL DEF B!Spec
-----------------------------------------------------------------------------
(***************************************************************************)
(* The initrd and the files, for any archive, heap and screen.             *)
(***************************************************************************)
-----------------------------------------------------------------------------
(***************************************************************************)
(* The numbers of a header.  rest is what is left of the number, digit by  *)
(* digit from the last.                                                    *)
(***************************************************************************)
Rests(rest, v, d) ==
    rest \in [0..d -> Nat] /\ rest[0] = v /\ \A k \in 1..d : rest[k] = rest[k - 1] \div 8

(***************************************************************************)
(* What tar writes in a field of d digits: the remainders modulo 8 of the  *)
(* number divided again and again by 8, the last of them first.            *)
(***************************************************************************)
LEMMA FieldDigits ==
    ASSUME NEW v \in Nat, NEW d \in Nat
    PROVE  \E rest : /\ Rests(rest, v, d)
                     /\ F!tar_field(v, d) = [k \in 1..d |-> 48 + (rest[d - k] % 8)] \o <<32, 0>>
<1> DEFINE R(g) == g = [k \in 0..d |-> IF k = 0 THEN v ELSE g[k - 1] \div 8]
           rest == CHOOSE g : R(g)
           step == [k \in 1..d |-> [u \in Nat |-> u \div 8]]
<1>1. step \in [1..d -> [Nat -> Nat]]
    <2>1. \A n \in Nat : n \div 8 \in Nat
        OBVIOUS
    <2> QED BY <2>1
<1>2. PICK f \in [0..d -> Nat] : f[0] = v /\ \A k \in 1..d : f[k] = step[k][f[k - 1]]
    <2>4. PICK T : T = Nat
        OBVIOUS
    <2>5. v \in T /\ step \in [1..d -> [T -> T]]
        BY <2>4, <1>1
    <2> HIDE DEF step
    <2>6. IsLoop(d, T, v, step)
        BY <2>5 DEF IsLoop
    <2>7. HasCourse(d, T, v, step)
        BY <2>6, LoopRuns
    <2> QED BY <2>4, <2>7 DEF HasCourse
<1>3. R(f)
    <2>1. ASSUME NEW k \in 0..d PROVE f[k] = IF k = 0 THEN v ELSE f[k - 1] \div 8
        <3>1. k # 0 => k \in 1..d /\ k - 1 \in 0..d
            OBVIOUS
        <3>2. k # 0 => f[k - 1] \in Nat /\ f[k] = step[k][f[k - 1]]
            BY <1>2, <3>1
        <3> QED BY <1>2, <3>1, <3>2
    <2> QED BY <2>1
<1>4. R(rest)
    <2> HIDE DEF R
    <2> QED BY <1>3
<1>5. rest = [k \in 0..d |-> IF k = 0 THEN v ELSE rest[k - 1] \div 8]
    BY <1>4
<1>6. F!tar_field(v, d) = [k \in 1..d |-> 48 + (rest[d - k] % 8)] \o <<32, 0>>
    BY DEF F!tar_field, F!Zero, F!Space, F!NUL
<1> HIDE DEF rest
<1>7. rest[0] = v /\ \A k \in 1..d : rest[k] = rest[k - 1] \div 8
    <2>1. 0 \in 0..d /\ \A k \in 1..d : k \in 0..d /\ k # 0
        OBVIOUS
    <2> QED BY <1>5, <2>1
<1>8. rest \in [0..d -> Nat]
    <2> DEFINE U == {k \in 0..d : rest[k] \in Nat}
    <2>1. 0 \in U
        BY <1>7
    <2>2. \A k \in 1..d : k - 1 \in U => k \in U
        BY <1>7
    <2>3. U \in SUBSET (0..d)
        OBVIOUS
    <2> HIDE DEF U
    <2>4. U = 0..d
        BY <2>1, <2>2, <2>3, LoopKeeps
    <2>5. \A k \in 0..d : rest[k] \in Nat
        BY <2>4 DEF U
    <2> QED BY <1>5, <2>5
<1> QED BY <1>6, <1>7, <1>8 DEF Rests

(***************************************************************************)
(* oct2int, told to stop behind the digits, reads the number back, if the  *)
(* field had room for it.                                                  *)
(***************************************************************************)
LEMMA ReadsBack ==
    ASSUME NEW v \in Nat, NEW d \in Nat,
           \A rest : Rests(rest, v, d) => rest[d] = 0
    PROVE  F!oct2int(F!tar_field(v, d), d) = v
<1>1. PICK rest : /\ Rests(rest, v, d)
                  /\ F!tar_field(v, d) = [k \in 1..d |-> 48 + (rest[d - k] % 8)] \o <<32, 0>>
    BY FieldDigits
<1> DEFINE c == F!tar_field(v, d)
           digits == [k \in 1..d |-> 48 + (rest[d - k] % 8)]
           D == 0..57
<1>2. /\ rest \in [0..d -> Nat] /\ rest[0] = v /\ rest[d] = 0
      /\ \A k \in 1..d : rest[k] = rest[k - 1] \div 8
    BY <1>1 DEF Rests
<1>3. ASSUME NEW k \in 1..d
      PROVE  rest[d - k] \in Nat /\ digits[k] = 48 + (rest[d - k] % 8) /\ digits[k] \in 48..57
    <2>1. d - k \in 0..d
        OBVIOUS
    <2>2. rest[d - k] \in Nat
        BY <1>2, <2>1
    <2>3. \A n \in Nat : n % 8 \in 0..7
        OBVIOUS
    <2> QED BY <2>2, <2>3
<1>4. digits \in Seq(Int) /\ Len(digits) = d /\ <<32, 0>> \in Seq(Int) /\ Len(<<32, 0>>) = 2
      /\ <<32, 0>>[1] = 32 /\ <<32, 0>>[2] = 0
    <2>1. digits \in [1..d -> Int]
        BY <1>3
    <2> QED BY <2>1
<1> HIDE DEF digits
<1>5. /\ c \in Seq(Int) /\ Len(c) = d + 2
      /\ \A k \in 1..d : c[k] = digits[k]
      /\ c[d + 1] = 32 /\ c[d + 2] = 0
    <2>1. c = digits \o <<32, 0>>
        BY <1>1 DEF digits
    <2>2. /\ Len(digits \o <<32, 0>>) = d + 2
          /\ \A k \in 1..(d + 2) : (digits \o <<32, 0>>)[k] =
                IF k <= d THEN digits[k] ELSE <<32, 0>>[k - d]
        BY <1>4
    <2>3. d + 1 \in 1..(d + 2) /\ d + 2 \in 1..(d + 2) /\ ~(d + 1 <= d) /\ ~(d + 2 <= d)
          /\ (d + 1) - d = 1 /\ (d + 2) - d = 2
          /\ \A k \in 1..d : k \in 1..(d + 2) /\ k <= d
        OBVIOUS
    <2> QED BY <1>4, <2>1, <2>2, <2>3
<1> HIDE DEF c
<1>6. {k \in 1..Len(c) : c[k] = 0} \cup {d + 1} = {d + 1, d + 2}
    <2>1. \A k \in 1..(d + 2) : k \in 1..d \/ k = d + 1 \/ k = d + 2
        OBVIOUS
    <2>2. \A k \in 1..d : c[k] # 0
        <3>1. \A k \in 1..d : digits[k] # 0
            <4>1. \A k \in 1..d : digits[k] \in 48..57
                BY <1>3
            <4> QED BY <4>1
        <3> QED BY <1>5, <3>1
    <2>3. d + 2 \in 1..(d + 2)
        OBVIOUS
    <2> QED BY <1>5, <2>1, <2>2, <2>3
<1>7. F!Min({k \in 1..Len(c) : c[k] = 0} \cup {d + 1}) = d + 1
    <2>1. F!Min({d + 1, d + 2}) = d + 1
        BY DEF F!Min
    <2> QED BY <1>6, <2>1
<1> DEFINE R(g) == g = [k \in 0..d |-> IF k = 0 THEN 0 ELSE g[k - 1] * 8 + c[k] - 48]
           n == CHOOSE g : R(g)
           step == [k \in 1..d |-> [u \in Int |-> u * 8 + c[k] - 48]]
<1>8. F!oct2int(c, d) = n[d]
    <2>1. (d + 1) - 1 = d
        OBVIOUS
    <2> QED BY <1>7, <2>1 DEF F!oct2int, F!NUL, F!Zero
<1>9. PICK f \in [0..d -> Int] : f[0] = 0 /\ \A k \in 1..d : f[k] = step[k][f[k - 1]]
    <2>1. \A k \in 1..d : c[k] \in Int
        BY <1>3, <1>5
    <2>2. step \in [1..d -> [Int -> Int]]
        BY <2>1
    <2>3. 0 \in Int
        OBVIOUS
    <2>4. PICK T : T = Int
        OBVIOUS
    <2>5. 0 \in T /\ step \in [1..d -> [T -> T]]
        BY <2>4, <2>2, <2>3
    <2> HIDE DEF step
    <2>6. IsLoop(d, T, 0, step)
        BY <2>5 DEF IsLoop
    <2>7. HasCourse(d, T, 0, step)
        BY <2>6, LoopRuns
    <2> QED BY <2>4, <2>7 DEF HasCourse
<1>10. R(f)
    <2>1. ASSUME NEW k \in 0..d PROVE f[k] = IF k = 0 THEN 0 ELSE f[k - 1] * 8 + c[k] - 48
        <3>1. k # 0 => k \in 1..d /\ k - 1 \in 0..d
            OBVIOUS
        <3>2. k # 0 => f[k - 1] \in Int /\ f[k] = step[k][f[k - 1]]
            BY <1>9, <3>1
        <3> QED BY <1>9, <3>1, <3>2
    <2> QED BY <2>1
<1>11. R(n)
    <2> HIDE DEF R
    <2> QED BY <1>10
<1>12. n = [k \in 0..d |-> IF k = 0 THEN 0 ELSE n[k - 1] * 8 + c[k] - 48]
    BY <1>11
<1> HIDE DEF n
<1> DEFINE U == {k \in 0..d : n[k] = rest[d - k]}
<1>13. 0 \in U
    <2>1. 0 \in 0..d /\ d - 0 = d
        OBVIOUS
    <2> QED BY <1>2, <1>12, <2>1
<1>14. ASSUME NEW k \in 1..d, k - 1 \in U PROVE k \in U
    <2>1. k \in 0..d /\ k # 0 /\ d - k + 1 \in 1..d /\ (d - k + 1) - 1 = d - k
          /\ d - (k - 1) = d - k + 1
        OBVIOUS
    <2>2. n[k] = n[k - 1] * 8 + c[k] - 48
        BY <1>12, <2>1
    <2>3. c[k] = 48 + (rest[d - k] % 8) /\ rest[d - k] \in Nat
        BY <1>3, <1>5
    <2>4. n[k - 1] = rest[d - k] \div 8
        BY <1>2, <1>14, <2>1
    <2>5. \A u \in Nat : (u \div 8) * 8 + (48 + (u % 8)) - 48 = u
        OBVIOUS
    <2> QED BY <2>1, <2>2, <2>3, <2>4, <2>5
<1>15. U = 0..d
    <2>1. U \in SUBSET (0..d)
        OBVIOUS
    <2> HIDE DEF U
    <2> QED BY <1>13, <1>14, <2>1, LoopKeeps
<1>16. d \in 0..d /\ d - d = 0
    OBVIOUS
<1> QED BY <1>2, <1>8, <1>15, <1>16 DEF c

(***************************************************************************)
(* Six octal digits have room for a device number, eleven for an int.      *)
(***************************************************************************)
LEMMA FieldsWide ==
    ASSUME NEW v \in Nat, NEW rest
    PROVE  /\ v <= 262143 /\ Rests(rest, v, 6) => rest[6] = 0
           /\ v <= 2147483647 /\ Rests(rest, v, 11) => rest[11] = 0
<1> DEFINE Down(k, w) == rest[k] \in Nat /\ rest[k] < w
<1>1. ASSUME NEW d \in Nat, Rests(rest, v, d), NEW k \in 1..d, NEW w \in Nat, Down(k - 1, 8 * w)
      PROVE  Down(k, w)
    <2>1. \A u \in Nat : u < 8 * w => u \div 8 \in Nat /\ u \div 8 < w
        OBVIOUS
    <2>2. rest[k] = rest[k - 1] \div 8
        BY <1>1 DEF Rests
    <2> QED BY <1>1, <2>1, <2>2
<1>2. ASSUME v <= 262143, Rests(rest, v, 6) PROVE rest[6] = 0
    <2>0. Down(0, 262144)
        BY <1>2 DEF Rests
    <2> HIDE DEF Down
    <2>1. Down(1, 32768)
        <3>1. 6 \in Nat /\ 1 \in 1..6 /\ 1 - 1 = 0 /\ 32768 \in Nat /\ 8 * 32768 = 262144
            OBVIOUS
        <3> QED BY <1>1, <1>2, <2>0, <3>1
    <2>2. Down(2, 4096)
        <3>1. 6 \in Nat /\ 2 \in 1..6 /\ 2 - 1 = 1 /\ 4096 \in Nat /\ 8 * 4096 = 32768
            OBVIOUS
        <3> QED BY <1>1, <1>2, <2>1, <3>1
    <2>3. Down(3, 512)
        <3>1. 6 \in Nat /\ 3 \in 1..6 /\ 3 - 1 = 2 /\ 512 \in Nat /\ 8 * 512 = 4096
            OBVIOUS
        <3> QED BY <1>1, <1>2, <2>2, <3>1
    <2>4. Down(4, 64)
        <3>1. 6 \in Nat /\ 4 \in 1..6 /\ 4 - 1 = 3 /\ 64 \in Nat /\ 8 * 64 = 512
            OBVIOUS
        <3> QED BY <1>1, <1>2, <2>3, <3>1
    <2>5. Down(5, 8)
        <3>1. 6 \in Nat /\ 5 \in 1..6 /\ 5 - 1 = 4 /\ 8 \in Nat /\ 8 * 8 = 64
            OBVIOUS
        <3> QED BY <1>1, <1>2, <2>4, <3>1
    <2>6. Down(6, 1)
        <3>1. 6 \in Nat /\ 6 \in 1..6 /\ 6 - 1 = 5 /\ 1 \in Nat /\ 8 * 1 = 8
            OBVIOUS
        <3> QED BY <1>1, <1>2, <2>5, <3>1
    <2> QED BY <2>6 DEF Down
<1>3. ASSUME v <= 2147483647, Rests(rest, v, 11) PROVE rest[11] = 0
    <2>0. Down(0, 8589934592)
        BY <1>3 DEF Rests
    <2> HIDE DEF Down
    <2>1. Down(1, 1073741824)
        <3>1. 11 \in Nat /\ 1 \in 1..11 /\ 1 - 1 = 0 /\ 1073741824 \in Nat /\ 8 * 1073741824 = 8589934592
            OBVIOUS
        <3> QED BY <1>1, <1>3, <2>0, <3>1
    <2>2. Down(2, 134217728)
        <3>1. 11 \in Nat /\ 2 \in 1..11 /\ 2 - 1 = 1 /\ 134217728 \in Nat /\ 8 * 134217728 = 1073741824
            OBVIOUS
        <3> QED BY <1>1, <1>3, <2>1, <3>1
    <2>3. Down(3, 16777216)
        <3>1. 11 \in Nat /\ 3 \in 1..11 /\ 3 - 1 = 2 /\ 16777216 \in Nat /\ 8 * 16777216 = 134217728
            OBVIOUS
        <3> QED BY <1>1, <1>3, <2>2, <3>1
    <2>4. Down(4, 2097152)
        <3>1. 11 \in Nat /\ 4 \in 1..11 /\ 4 - 1 = 3 /\ 2097152 \in Nat /\ 8 * 2097152 = 16777216
            OBVIOUS
        <3> QED BY <1>1, <1>3, <2>3, <3>1
    <2>5. Down(5, 262144)
        <3>1. 11 \in Nat /\ 5 \in 1..11 /\ 5 - 1 = 4 /\ 262144 \in Nat /\ 8 * 262144 = 2097152
            OBVIOUS
        <3> QED BY <1>1, <1>3, <2>4, <3>1
    <2>6. Down(6, 32768)
        <3>1. 11 \in Nat /\ 6 \in 1..11 /\ 6 - 1 = 5 /\ 32768 \in Nat /\ 8 * 32768 = 262144
            OBVIOUS
        <3> QED BY <1>1, <1>3, <2>5, <3>1
    <2>7. Down(7, 4096)
        <3>1. 11 \in Nat /\ 7 \in 1..11 /\ 7 - 1 = 6 /\ 4096 \in Nat /\ 8 * 4096 = 32768
            OBVIOUS
        <3> QED BY <1>1, <1>3, <2>6, <3>1
    <2>8. Down(8, 512)
        <3>1. 11 \in Nat /\ 8 \in 1..11 /\ 8 - 1 = 7 /\ 512 \in Nat /\ 8 * 512 = 4096
            OBVIOUS
        <3> QED BY <1>1, <1>3, <2>7, <3>1
    <2>9. Down(9, 64)
        <3>1. 11 \in Nat /\ 9 \in 1..11 /\ 9 - 1 = 8 /\ 64 \in Nat /\ 8 * 64 = 512
            OBVIOUS
        <3> QED BY <1>1, <1>3, <2>8, <3>1
    <2>10. Down(10, 8)
        <3>1. 11 \in Nat /\ 10 \in 1..11 /\ 10 - 1 = 9 /\ 8 \in Nat /\ 8 * 8 = 64
            OBVIOUS
        <3> QED BY <1>1, <1>3, <2>9, <3>1
    <2>11. Down(11, 1)
        <3>1. 11 \in Nat /\ 11 \in 1..11 /\ 11 - 1 = 10 /\ 1 \in Nat /\ 8 * 1 = 8
            OBVIOUS
        <3> QED BY <1>1, <1>3, <2>10, <3>1
    <2> QED BY <2>11 DEF Down
<1> QED BY <1>2, <1>3

-----------------------------------------------------------------------------
(***************************************************************************)
(* load_initrd.                                                            *)
(***************************************************************************)

(***************************************************************************)
(* What load_initrd makes of a header is what tar was given to write.      *)
(***************************************************************************)
LEMMA InodeRight ==
    ASSUME F!BoundsAssumption, archive \in Archives, NEW i \in 1..Len(archive)
    PROVE  /\ F!Inode(i) = [name |-> archive[i].name, major |-> archive[i].major,
                            size |-> archive[i].size,
                            addr |-> IF archive[i].size > 0 THEN i + 1 ELSE 0]
           /\ F!Inode(i) \in F!inode
<1>1. archive[i] \in F!block
    <2>1. archive \in Seq(F!block)
        BY DEF F!BoundsAssumption
    <2> QED BY <2>1
<1>2. /\ archive[i].name \in STRING /\ archive[i].magic \in BOOLEAN
      /\ archive[i].major \in Nat /\ archive[i].major <= 262143
      /\ archive[i].size \in Nat /\ archive[i].size <= 2147483647
    <2>1. \A n \in Nat : \A k \in 0..n : k \in Nat /\ k <= n
        OBVIOUS
    <2>2. F!MAXMAJOR \in Nat /\ \A k \in Nat : k <= F!MAXMAJOR => k <= 262143
        BY DEF F!MAXMAJOR
    <2>3. F!MAXINT \in Nat /\ \A k \in Nat : k <= F!MAXINT => k <= 2147483647
        BY DEF F!MAXINT
    <2>4. /\ archive[i].name \in STRING /\ archive[i].magic \in BOOLEAN
          /\ archive[i].major \in 0..F!MAXMAJOR /\ archive[i].size \in 0..F!MAXINT
        BY <1>1 DEF F!block
    <2>5. archive[i].major \in Nat /\ archive[i].major <= 262143
        BY <2>1, <2>2, <2>4
    <2>6. archive[i].size \in Nat /\ archive[i].size <= 2147483647
        BY <2>1, <2>3, <2>4
    <2> QED BY <2>4, <2>5, <2>6
<1>3. F!oct2int(F!tar_field(archive[i].major, 6), F!MajorLen) = archive[i].major
    <2>1. PICK v \in Nat : v = archive[i].major /\ v <= 262143
        BY <1>2
    <2>2. PICK d \in Nat : d = 6
        OBVIOUS
    <2>3. \A rest : Rests(rest, v, d) => rest[d] = 0
        BY <2>1, <2>2, FieldsWide
    <2>4. F!oct2int(F!tar_field(v, d), d) = v
        BY <2>3, ReadsBack
    <2> QED BY <2>1, <2>2, <2>4 DEF F!MajorLen
<1>4. F!HeaderSize(i) = archive[i].size
    <2>1. PICK v \in Nat : v = archive[i].size /\ v <= 2147483647
        BY <1>2
    <2>2. PICK d \in Nat : d = 11
        OBVIOUS
    <2>3. \A rest : Rests(rest, v, d) => rest[d] = 0
        BY <2>1, <2>2, FieldsWide
    <2>4. F!oct2int(F!tar_field(v, d), d) = v
        BY <2>3, ReadsBack
    <2> QED BY <2>1, <2>2, <2>4 DEF F!SizeLen, F!HeaderSize
<1>5. F!Inode(i) = [name |-> archive[i].name, major |-> archive[i].major,
                    size |-> archive[i].size,
                    addr |-> IF archive[i].size > 0 THEN i + 1 ELSE 0]
    BY <1>3, <1>4 DEF F!Inode, F!AddrOfData
<1>6. i + 1 \in Nat
    OBVIOUS
<1> QED BY <1>2, <1>5, <1>6 DEF F!inode

(***************************************************************************)
(* The headers among the first n blocks, and how many they are: the place  *)
(* of the last one among the members.                                      *)
(***************************************************************************)
Magic(n) == {i \in 1..n : archive[i].magic}

(***************************************************************************)
(* One more header makes one more magic header, and the rank of a header   *)
(* among them is at most their number.                                     *)
(***************************************************************************)
LEMMA MagicGrows ==
    ASSUME NEW n \in Nat
    PROVE  /\ IsFiniteSet(Magic(n)) /\ Cardinality(Magic(n)) \in Nat
           /\ archive[n + 1].magic =>
                 /\ Magic(n + 1) = Magic(n) \cup {n + 1}
                 /\ Cardinality(Magic(n + 1)) = Cardinality(Magic(n)) + 1
           /\ ~archive[n + 1].magic => Magic(n + 1) = Magic(n)
           /\ \A k \in 0..n : Cardinality(Magic(k)) \in 0..Cardinality(Magic(n))
<1>1. \A k \in Nat : IsFiniteSet(Magic(k)) /\ Cardinality(Magic(k)) \in Nat
    <2> SUFFICES ASSUME NEW k \in Nat
                 PROVE  IsFiniteSet(Magic(k)) /\ Cardinality(Magic(k)) \in Nat
        OBVIOUS
    <2>1. 1 \in Int /\ k \in Int
        OBVIOUS
    <2>2. IsFiniteSet(1..k)
        BY <2>1, FS_Interval
    <2>3. Magic(k) \subseteq 1..k
        BY DEF Magic
    <2>4. IsFiniteSet(Magic(k))
        BY <2>2, <2>3, FS_Subset
    <2> QED BY <2>4, FS_CardinalityType
<1>2. \A j : j \in 1..(n + 1) <=> j \in 1..n \/ j = n + 1
    OBVIOUS
<1>3. ASSUME archive[n + 1].magic
      PROVE  Magic(n + 1) = Magic(n) \cup {n + 1} /\ n + 1 \notin Magic(n)
    BY <1>2, <1>3 DEF Magic
<1>4. archive[n + 1].magic => Cardinality(Magic(n + 1)) = Cardinality(Magic(n)) + 1
    BY <1>1, <1>3, FS_AddElement
<1>5. ~archive[n + 1].magic => Magic(n + 1) = Magic(n)
    BY <1>2 DEF Magic
<1>6. ASSUME NEW k \in 0..n PROVE Cardinality(Magic(k)) \in 0..Cardinality(Magic(n))
    <2>1. k \in Nat /\ \A j \in 1..k : j \in 1..n
        OBVIOUS
    <2>2. Magic(k) \subseteq Magic(n)
        BY <2>1 DEF Magic
    <2>3. Cardinality(Magic(k)) <= Cardinality(Magic(n))
        BY <1>1, <2>2, FS_Subset
    <2> QED BY <1>1, <2>1, <2>3
<1> QED BY <1>1, <1>3, <1>4, <1>5, <1>6

(***************************************************************************)
(* Behind block blk - 1: the headers seen so far, each at its place.       *)
(***************************************************************************)
LoadInv ==
    /\ archive \in Archives /\ blk \in 1..(Len(archive) + 1) /\ Len(archive) \in Nat
    /\ inodes \in Seq(F!inode)
    /\ Len(inodes) = Cardinality(Magic(blk - 1))
    /\ \A i \in Magic(blk - 1) : inodes[Cardinality(Magic(i))] = F!Inode(i)
    /\ state \notin {"load", "overrun"} => blk = Len(archive) + 1

(***************************************************************************)
(* A step keeps LoadInv: the inode that init_initrd appends is the one of  *)
(* the header it just passed.                                              *)
(***************************************************************************)
LEMMA LoadKeeps ==
    ASSUME F!BoundsAssumption, LoadInv, [F!Next]_(F!vars)
    PROVE  LoadInv'
<1>1. ASSUME UNCHANGED <<archive, blk, inodes>>,
             state' \notin {"load", "overrun"} => blk = Len(archive) + 1
      PROVE  LoadInv'
    <2>1. \A n : Magic(n)' = Magic(n)
        BY <1>1 DEF Magic
    <2>2. \A i : F!Inode(i)' = F!Inode(i)
        BY <1>1 DEF F!Inode, F!HeaderSize
    <2> QED BY <1>1, <2>1, <2>2 DEF LoadInv
<1>2. ASSUME F!LoadBlock PROVE LoadInv'
    <2> DEFINE n == blk - 1
    <2>1. /\ state = "load" /\ blk <= Len(archive) /\ blk' = blk + 1 /\ archive' = archive
          /\ state' \in {"load", "overrun"}
        BY <1>2 DEF F!LoadBlock
    <2>2. /\ n \in Nat /\ n + 1 = blk /\ blk \in 1..Len(archive) /\ blk \in Nat
          /\ blk + 1 \in 1..(Len(archive) + 1) /\ (blk + 1) - 1 = blk
        BY <2>1 DEF LoadInv
    <2>3. /\ \A k : Magic(k)' = Magic(k)
          /\ \A i : F!Inode(i)' = F!Inode(i)
        BY <2>1 DEF Magic, F!Inode, F!HeaderSize
    <2>4. /\ Len(inodes) = Cardinality(Magic(n)) /\ inodes \in Seq(F!inode)
          /\ \A i \in Magic(n) : inodes[Cardinality(Magic(i))] = F!Inode(i)
        BY DEF LoadInv
    <2> HIDE DEF n
    <2>5. ASSUME ~archive[blk].magic, inodes' = inodes
          PROVE  LoadInv'
        <3>1. Magic(blk) = Magic(n)
            BY <2>2, <2>5, MagicGrows
        <3> QED BY <2>1, <2>2, <2>3, <2>4, <2>5, <3>1 DEF LoadInv
    <2>6. ASSUME archive[blk].magic, inodes' = Append(inodes, F!Inode(blk))
          PROVE  LoadInv'
        <3>1. /\ Magic(blk) = Magic(n) \cup {blk}
              /\ Cardinality(Magic(blk)) = Cardinality(Magic(n)) + 1
            BY <2>2, <2>6, MagicGrows
        <3>2. F!Inode(blk) \in F!inode
            BY <2>2, InodeRight DEF LoadInv
        <3>3. /\ inodes' \in Seq(F!inode) /\ Len(inodes') = Len(inodes) + 1
              /\ inodes'[Len(inodes) + 1] = F!Inode(blk)
              /\ \A k \in 1..Len(inodes) : inodes'[k] = inodes[k]
            BY <2>4, <2>6, <3>2
        <3>4. ASSUME NEW i \in Magic(n) PROVE inodes'[Cardinality(Magic(i))] = F!Inode(i)
            <4>1. i \in 1..n /\ archive[i].magic /\ i \in Nat /\ i - 1 \in Nat /\ (i - 1) + 1 = i
                  /\ i \in 0..n
                BY <2>2 DEF Magic
            <4>2. /\ Cardinality(Magic(i)) = Cardinality(Magic(i - 1)) + 1
                  /\ Cardinality(Magic(i - 1)) \in Nat
                BY <4>1, MagicGrows
            <4>3. Cardinality(Magic(i)) \in 0..Len(inodes)
                BY <2>2, <2>4, <4>1, MagicGrows
            <4>4. Cardinality(Magic(i)) \in 1..Len(inodes)
                BY <4>2, <4>3
            <4> QED BY <2>4, <3>3, <4>4
        <3>5. \A i \in Magic(blk) : inodes'[Cardinality(Magic(i))] = F!Inode(i)
            BY <2>4, <3>1, <3>3, <3>4
        <3> QED BY <2>1, <2>2, <2>3, <2>4, <3>1, <3>3, <3>5 DEF LoadInv
    <2> QED BY <1>2, <2>5, <2>6 DEF F!LoadBlock
<1>3. ASSUME F!InitSys PROVE LoadInv'
    <2>1. blk > Len(archive) /\ UNCHANGED <<archive, blk, inodes>>
        BY <1>3 DEF F!InitSys, F!Stop
    <2> QED BY <1>1, <2>1 DEF LoadInv
<1>4. ASSUME state \notin {"load", "overrun"}, UNCHANGED <<archive, blk, inodes>>
      PROVE  LoadInv'
    BY <1>1, <1>4 DEF LoadInv
<1>5. ASSUME NEW q, NEW name, F!Opens(q, name) PROVE UNCHANGED <<archive, blk, inodes>>
    BY <1>5 DEF F!Opens, F!Stop
<1>6. ASSUME F!InitOpens PROVE LoadInv'
    <2>1. UNCHANGED <<archive, blk, inodes>>
        BY <1>5, <1>6 DEF F!InitOpens, F!Stop
    <2> QED BY <1>4, <1>6, <2>1 DEF F!InitOpens
<1>7. ASSUME NEW q \in F!Procs, NEW name \in Names, F!SysOpen(q, name) PROVE LoadInv'
    <2>1. UNCHANGED <<archive, blk, inodes>>
        BY <1>5, <1>7 DEF F!SysOpen, F!vars
    <2> QED BY <1>4, <1>7, <2>1 DEF F!SysOpen, F!Live
<1>8. ASSUME NEW q \in F!Procs, F!SysFork(q) PROVE LoadInv'
    <2>1. UNCHANGED <<archive, blk, inodes>>
        BY <1>8 DEF F!SysFork, F!Stop
    <2> QED BY <1>4, <1>8, <2>1 DEF F!SysFork, F!Live
<1>9. ASSUME NEW q \in F!Procs, NEW fd, NEW str, F!SysWrite(q, fd, str) PROVE LoadInv'
    <2>1. UNCHANGED <<archive, blk, inodes>>
        BY <1>9 DEF F!SysWrite, F!vars
    <2> QED BY <1>4, <1>9, <2>1 DEF F!SysWrite, F!Live
<1>10. ASSUME UNCHANGED F!vars PROVE LoadInv'
    <2>1. UNCHANGED <<archive, blk, inodes, state>>
        BY <1>10 DEF F!vars
    <2> QED BY <1>1, <2>1 DEF LoadInv
<1> QED BY <1>2, <1>3, <1>6, <1>7, <1>8, <1>9, <1>10 DEF F!Next, F!SysRead, F!Stopped

(***************************************************************************)
(* Before the first header no inode is there.                              *)
(***************************************************************************)
LEMMA LoadBegins ==
    ASSUME F!BoundsAssumption, F!Init
    PROVE  LoadInv
<1>1. Len(archive) \in Nat /\ archive \in Archives /\ blk = 1 /\ inodes = <<>>
      /\ state = "load"
    BY DEF F!Init, F!BoundsAssumption
<1>2. blk - 1 = 0 /\ 1..0 = {} /\ 1 \in 1..(Len(archive) + 1)
    BY <1>1
<1>3. Magic(0) = {}
    BY <1>2 DEF Magic
<1>4. Cardinality({}) = 0
    BY FS_EmptySet
<1>5. inodes \in Seq(F!inode) /\ Len(inodes) = 0
    BY <1>1
<1> QED BY <1>1, <1>2, <1>3, <1>4, <1>5 DEF LoadInv

(***************************************************************************)
(* Once the archive is passed, LoadInv says that the members are listed.   *)
(***************************************************************************)
LEMMA LoadLists ==
    ASSUME F!BoundsAssumption, LoadInv
    PROVE  F!ListsMembers
<1> SUFFICES ASSUME state \notin {"load", "overrun"},
                    {i \in DOMAIN archive : archive[i].magic} = F!IsHeader
             PROVE  /\ Len(inodes) = F!Cardinality(F!IsHeader)
                    /\ \A i \in F!IsHeader :
                          LET k == F!Cardinality({j \in F!IsHeader : j <= i})
                          IN  /\ inodes[k].name = archive[i].name
                              /\ inodes[k].major = archive[i].major
                              /\ inodes[k].size = archive[i].size
                              /\ archive[i].size > 0 => inodes[k].addr = i + 1
    BY DEF F!ListsMembers
<1> DEFINE n == Len(archive)
<1>1. \A M : F!Cardinality(M) = Cardinality(M)
    BY DEF F!Cardinality, Cardinality
<1>2. n \in Nat /\ blk - 1 = n /\ DOMAIN archive = 1..n
    <2>1. archive \in Seq(F!block)
        BY DEF LoadInv, F!BoundsAssumption
    <2> QED BY <2>1 DEF LoadInv
<1>3. F!IsHeader = Magic(n)
    BY <1>2 DEF Magic
<1>4. Len(inodes) = Cardinality(Magic(n))
    BY <1>2 DEF LoadInv
<1>5. ASSUME NEW i \in Magic(n)
      PROVE  LET k == Cardinality({j \in Magic(n) : j <= i})
             IN  /\ inodes[k].name = archive[i].name
                 /\ inodes[k].major = archive[i].major
                 /\ inodes[k].size = archive[i].size
                 /\ archive[i].size > 0 => inodes[k].addr = i + 1
    <2>1. i \in 1..n
        BY DEF Magic
    <2>2. \A j : j \in 1..i <=> j \in 1..n /\ j <= i
        BY <1>2, <2>1
    <2>3. {j \in Magic(n) : j <= i} = Magic(i)
        BY <2>2 DEF Magic
    <2>4. inodes[Cardinality(Magic(i))] = F!Inode(i)
        BY <1>2 DEF LoadInv
    <2>5. F!Inode(i) = [name |-> archive[i].name, major |-> archive[i].major,
                        size |-> archive[i].size,
                        addr |-> IF archive[i].size > 0 THEN i + 1 ELSE 0]
        BY <2>1, InodeRight DEF LoadInv
    <2> DEFINE k == Cardinality({j \in Magic(n) : j <= i})
    <2>6. k = Cardinality(Magic(i))
        BY <2>3
    <2> HIDE DEF k
    <2>7. /\ inodes[k].name = archive[i].name /\ inodes[k].major = archive[i].major
          /\ inodes[k].size = archive[i].size
          /\ archive[i].size > 0 => inodes[k].addr = i + 1
        BY <2>4, <2>5, <2>6
    <2> QED BY <2>7 DEF k
<1> QED BY <1>1, <1>3, <1>4, <1>5

(***************************************************************************)
(* load_initrd lists exactly the members of the archive, in order and with *)
(* the numbers tar was given, for every archive whose files contain no     *)
(* header.                                                                 *)
(***************************************************************************)
THEOREM ListsMembersAlways == F!Spec => []ListsMembers
<1>1. F!Init => LoadInv
    BY FilesAssumption, LoadBegins
<1>2. LoadInv /\ [F!Next]_(F!vars) => LoadInv'
    BY FilesAssumption, LoadKeeps
<1>3. LoadInv => ListsMembers
    BY FilesAssumption, LoadLists DEF ListsMembers
<1> QED BY <1>1, <1>2, <1>3, PTL DEF F!Spec

-----------------------------------------------------------------------------
(***************************************************************************)
(* The cursor of the console stays on its line, or two cells behind it.    *)
(***************************************************************************)
Cursors == [x : 0..(Cols + 1), y : Nat, off : BOOLEAN]

(***************************************************************************)
(* A character leaves the cursor within one column of the screen's width.  *)
(***************************************************************************)
LEMMA PutMoves ==
    ASSUME F!BoundsAssumption, NEW c \in Cursors, NEW ch
    PROVE  F!Put(c, ch) \in Cursors
<1>1. /\ c = [x |-> c.x, y |-> c.y, off |-> c.off] /\ c.x \in 0..(Cols + 1) /\ c.y \in Nat
      /\ c.off \in BOOLEAN /\ Cols \in Nat /\ Rows \in Nat
    BY DEF Cursors, F!BoundsAssumption
<1>2. CASE c.x > Cols \/ ch = "newline"
    <2>1. F!Put(c, ch) = [x |-> 0, y |-> c.y + 1, off |-> c.off]
        BY <1>1, <1>2 DEF F!Put, F!LineFull
    <2> QED BY <1>1, <2>1 DEF Cursors
<1>3. CASE ~(c.x > Cols \/ ch = "newline") /\ ch = "backspace" /\ c.x > 0
    <2>1. F!Put(c, ch) = [x |-> c.x - 1, y |-> c.y, off |-> c.off]
        BY <1>1, <1>3 DEF F!Put, F!LineFull
    <2> QED BY <1>1, <1>3, <2>1 DEF Cursors
<1>4. CASE ~(c.x > Cols \/ ch = "newline") /\ ~(ch = "backspace" /\ c.x > 0)
    <2>1. F!Put(c, ch) = [x |-> c.x + 1, y |-> c.y, off |-> c.off \/ c.y >= Rows]
        BY <1>1, <1>4 DEF F!Put, F!LineFull
    <2>2. (c.off \/ c.y >= Rows) \in BOOLEAN /\ c.x + 1 \in 0..(Cols + 1)
        BY <1>1, <1>4
    <2> QED BY <1>1, <2>1, <2>2 DEF Cursors
<1> QED BY <1>2, <1>3, <1>4

(***************************************************************************)
(* So does a text, character after character.                              *)
(***************************************************************************)
LEMMA CursorMoves ==
    ASSUME F!BoundsAssumption, col \in 0..(Cols + 1), row \in Nat, NEW str \in Texts
    PROVE  F!Cursor(str) \in Cursors
<1> DEFINE N == Len(str)
           first == [x |-> col, y |-> row, off |-> FALSE]
           R(g) == g = [i \in 0..N |-> IF i = 0 THEN first ELSE F!Put(g[i - 1], str[i])]
           at == CHOOSE g : R(g)
           step == [i \in 1..N |-> [c \in Cursors |-> F!Put(c, str[i])]]
<1>1. N \in Nat
    BY DEF F!BoundsAssumption
<1>2. first \in Cursors
    BY DEF Cursors
<1>3. F!Cursor(str) = at[N]
    BY DEF F!Cursor
<1> HIDE DEF N, first
<1>4. step \in [1..N -> [Cursors -> Cursors]]
    BY PutMoves
<1>5. HasCourse(N, Cursors, first, step)
    <2> HIDE DEF step
    <2>1. IsLoop(N, Cursors, first, step)
        BY <1>1, <1>2, <1>4 DEF IsLoop
    <2> QED BY <2>1, LoopRuns
<1>6. PICK f \in [0..N -> Cursors] :
          f[0] = first /\ \A i \in 1..N : f[i] = step[i][f[i - 1]]
    <2> HIDE DEF step
    <2> QED BY <1>5 DEF HasCourse
<1>7. R(f)
    <2>1. ASSUME NEW i \in 0..N
          PROVE  f[i] = IF i = 0 THEN first ELSE F!Put(f[i - 1], str[i])
        <3>1. i # 0 => i \in 1..N /\ i - 1 \in 0..N
            BY <1>1
        <3>2. i # 0 => f[i - 1] \in Cursors /\ f[i] = step[i][f[i - 1]]
            BY <1>6, <3>1
        <3> QED BY <1>6, <3>1, <3>2
    <2> QED BY <2>1
<1>8. R(at)
    <2> HIDE DEF R
    <2> QED BY <1>7
<1>9. at = [i \in 0..N |-> IF i = 0 THEN first ELSE F!Put(at[i - 1], str[i])]
    BY <1>8
<1> HIDE DEF at
<1> DEFINE U == {i \in 0..N : at[i] \in Cursors}
<1>10. 0 \in U
    BY <1>1, <1>2, <1>9
<1>11. ASSUME NEW i \in 1..N, i - 1 \in U PROVE i \in U
    <2>1. i \in 0..N /\ i # 0
        BY <1>1
    <2>2. at[i] = F!Put(at[i - 1], str[i])
        BY <1>9, <2>1
    <2> QED BY <1>11, <2>1, <2>2, PutMoves
<1>12. U = 0..N
    <2>1. U \in SUBSET (0..N)
        OBVIOUS
    <2> HIDE DEF U
    <2> QED BY <1>1, <1>10, <1>11, <2>1, LoopKeeps
<1>13. N \in 0..N
    BY <1>1
<1> QED BY <1>3, <1>12, <1>13

-----------------------------------------------------------------------------
(***************************************************************************)
(* The descriptors.  Until kmain starts the scheduler only init exists; it *)
(* gets the console up to three times.  A process that does not exist yet  *)
(* has no descriptors.                                                     *)
(***************************************************************************)
NoFiles == [fd \in F!Slots |-> F!NULL]

Tabled(t, n) == n \in F!Slots /\ \A fd \in F!Slots : t[fd] # F!NULL <=> fd < n

Files0 ==
    /\ inodes \in Seq(F!inode)
    /\ ofile \in [F!Procs -> [F!Slots -> F!file]]
    /\ \A q \in F!Procs : \E n : Tabled(ofile[q], n)
    /\ \A q \in F!Procs, fd \in F!Slots :
          ofile[q][fd] # F!NULL => ofile[q][fd].inode \in DOMAIN inodes /\ ofile[q][fd].data = 1
    /\ \A q \in F!Procs : q >= pid => ofile[q] = NoFiles

(***************************************************************************)
(* What initsys has opened so far.                                         *)
(***************************************************************************)
Consoles ==
    /\ F!Found(Console)
    /\ \E n \in 0..3 : Tabled(ofile[1], n)
    /\ \A fd \in F!Slots : ofile[1][fd] # F!NULL => ofile[1][fd].inode = F!Lookup(Console)

Stages ==
    /\ state \in {"load", "boot"} => pid = 2
    /\ state = "load" => ofile[1] = NoFiles
    /\ state = "boot" => Consoles
    /\ F!StandardFiles

Counters ==
    /\ blk \in 1..(Len(archive) + 1) /\ pid \in 2..(MaxPid + 1) /\ used \in 0..Objects
    /\ col \in 0..(Cols + 1) /\ row \in 0..MaxLine
    /\ state \in {"load", "boot", "run", "panic", "fault", "nomem", "overrun", "offscreen"}

FInv == LoadInv /\ Files0 /\ Stages /\ Counters

(***************************************************************************)
(* The loop over a table without gaps ends where its files do.             *)
(***************************************************************************)
LEMMA FreeSlot ==
    ASSUME F!BoundsAssumption, NEW t, NEW n, Tabled(t, n)
    PROVE  F!FirstFree(t) = n
<1>1. MaxOpen \in Nat
    BY DEF F!BoundsAssumption
<1>2. n \in F!Slots /\ n \in Nat /\ \A fd \in F!Slots : t[fd] # F!NULL <=> fd < n
    BY <1>1 DEF Tabled, F!Slots
<1>3. t[n] = F!NULL /\ \A i \in 0..(n - 1) : t[i] # F!NULL
    <2>1. \A i \in 0..(n - 1) : i \in F!Slots /\ i < n
        BY <1>1, <1>2 DEF F!Slots
    <2>2. ~(n < n)
        BY <1>2
    <2> QED BY <1>2, <2>1, <2>2
<1>4. ASSUME NEW fd \in F!Slots, t[fd] = F!NULL, \A i \in 0..(fd - 1) : t[i] # F!NULL
      PROVE  fd = n
    <2>1. fd \in Nat /\ ~(fd < n)
        BY <1>1, <1>2, <1>4 DEF F!Slots
    <2>2. n \notin 0..(fd - 1)
        BY <1>3, <1>4
    <2> QED BY <1>2, <2>1, <2>2
<1> QED BY <1>2, <1>3, <1>4 DEF F!FirstFree

(***************************************************************************)
(* lookup returns an inode when one has the name.                          *)
(***************************************************************************)
LEMMA LookupFinds ==
    ASSUME inodes \in Seq(F!inode), NEW name, F!Found(name)
    PROVE  F!Lookup(name) \in DOMAIN inodes
<1> DEFINE U == {i \in DOMAIN inodes : inodes[i].name = name}
<1>1. U \in SUBSET Nat /\ U # {} /\ DOMAIN inodes = 1..Len(inodes)
    BY DEF F!Found
<1>2. PICK i \in U : \A j \in U : i <= j
    BY <1>1, NatMin
<1>3. \A j \in 1..(i - 1) : inodes[j].name # name
    <2>1. ASSUME NEW j \in 1..(i - 1) PROVE inodes[j].name # name
        <3>1. i \in 1..Len(inodes) /\ j \in DOMAIN inodes /\ ~(i <= j)
            BY <1>1, <1>2
        <3> QED BY <1>2, <3>1
    <2> QED BY <2>1
<1>4. i \in DOMAIN inodes /\ inodes[i].name = name
    BY <1>2
<1> QED BY <1>3, <1>4 DEF F!Lookup

(***************************************************************************)
(* An open stops the machine, or gives a file that leads to a frame buffer *)
(* and takes no more objects than there are.                               *)
(***************************************************************************)
Halts(how) == state' = how /\ UNCHANGED <<archive, blk, inodes, ofile, pid, used, col, row>>

Opened(q, name, f) ==
    /\ f \in F!file /\ f.inode = F!Lookup(name) /\ f.inode \in DOMAIN inodes /\ f.data = 1
    /\ used' \in 0..Objects
    /\ ofile' = [ofile EXCEPT ![q] = F!PutFile(@, f)]
    /\ UNCHANGED <<archive, blk, inodes, pid, col, row, state>>

(***************************************************************************)
(* What sys_open does to a name that is found: it stops the machine or     *)
(* puts a file on the inode in the first free descriptor of its caller.    *)
(***************************************************************************)
LEMMA OpenOutcomes ==
    ASSUME FInv, F!BoundsAssumption, NEW q \in F!Procs, NEW name, F!Found(name),
           F!Opens(q, name)
    PROVE  \/ \E how \in {"panic", "fault", "nomem"} : Halts(how)
           \/ \E f : Opened(q, name, f)
<1> DEFINE i == F!Lookup(name)
           major == inodes[i].major
           objects == 1 + F!DeviceObjects(major)
<1>1. i \in DOMAIN inodes /\ i \in Nat
    <2>1. i \in DOMAIN inodes
        BY LookupFinds DEF FInv, Files0
    <2> QED BY <2>1 DEF FInv, Files0
<1>2. objects \in Nat
    BY DEF F!DeviceObjects
<1>3. \/ F!Stop("panic") \/ F!Stop("fault") \/ F!Stop("nomem")
      \/ /\ ~F!OpenPanics(major) /\ ~F!OpenFaults(major)
         /\ used + objects <= Objects /\ used' = used + objects
         /\ ofile' = [ofile EXCEPT ![q] = F!PutFile(@, F!File(i))]
         /\ UNCHANGED <<archive, blk, inodes, pid, col, row, state>>
    BY DEF F!Opens
<1>4. ASSUME NEW how, F!Stop(how) PROVE Halts(how)
    BY <1>4 DEF F!Stop, Halts
<1>5. ASSUME ~F!OpenPanics(major), ~F!OpenFaults(major)
      PROVE  F!File(i) = [inode |-> i, data |-> 1]
    BY <1>5 DEF F!OpenPanics, F!OpenFaults, F!File, F!DeviceData, F!CONSOLE, F!FRAMEBUFFER
<1>6. ASSUME used + objects <= Objects PROVE used + objects \in 0..Objects
    BY <1>2, <1>6 DEF FInv, Counters, F!BoundsAssumption
<1>7. [inode |-> i, data |-> 1] \in F!file
    BY <1>1 DEF F!file
<1> HIDE DEF objects, major
<1>8. ASSUME ~F!OpenPanics(major), ~F!OpenFaults(major), used + objects <= Objects,
             used' = used + objects, ofile' = [ofile EXCEPT ![q] = F!PutFile(@, F!File(i))],
             UNCHANGED <<archive, blk, inodes, pid, col, row, state>>
      PROVE  Opened(q, name, F!File(i))
    <2>1. F!File(i) = [inode |-> i, data |-> 1]
        BY <1>5, <1>8
    <2>2. F!File(i) \in F!file /\ F!File(i).inode = i /\ F!File(i).data = 1
        BY <1>7, <2>1
    <2> QED BY <1>1, <1>6, <1>8, <2>2 DEF Opened
<1> QED BY <1>3, <1>4, <1>8

(***************************************************************************)
(* The machine stops: nothing else changes.                                *)
(***************************************************************************)
LEMMA HaltKeeps ==
    ASSUME FInv, LoadInv', NEW how, Halts(how),
           \/ how \in {"panic", "fault", "nomem"}
           \/ how = "run" /\ F!StandardFiles'
           \/ how = "boot" /\ pid = 2 /\ Consoles
    PROVE  FInv'
<1>1. UNCHANGED <<archive, blk, inodes, ofile, pid, used, col, row>> /\ state' = how
    BY DEF Halts
<1>2. F!Found(Console)' <=> F!Found(Console)
    BY <1>1 DEF F!Found
<1>3. F!Lookup(Console)' = F!Lookup(Console)
    BY <1>1 DEF F!Lookup
<1>4. Files0'
    BY <1>1 DEF FInv, Files0
<1>5. Counters'
    BY <1>1 DEF FInv, Counters
<1>6. Stages'
    <2>1. Consoles => Consoles'
        BY <1>1, <1>2, <1>3 DEF Consoles
    <2> QED BY <1>1, <1>2, <1>3, <2>1 DEF Stages, F!StandardFiles
<1> QED BY <1>4, <1>5, <1>6 DEF FInv

(***************************************************************************)
(* A file is put in the first free descriptor of a process.                *)
(***************************************************************************)
LEMMA OpenKeeps ==
    ASSUME FInv, LoadInv', F!BoundsAssumption, NEW q \in F!Procs, NEW name, NEW f,
           Opened(q, name, f), q < pid, F!FirstFree(ofile[q]) < MaxOpen,
           \/ state = "run"
           \/ state = "boot" /\ q = 1 /\ name = Console /\ F!FirstFree(ofile[1]) < 3
    PROVE  FInv'
<1>1. /\ f \in F!file /\ f.inode = F!Lookup(name) /\ f.inode \in DOMAIN inodes /\ f.data = 1
      /\ used' \in 0..Objects /\ ofile' = [ofile EXCEPT ![q] = F!PutFile(@, f)]
      /\ UNCHANGED <<archive, blk, inodes, pid, col, row, state>>
    BY DEF Opened
<1>2. /\ ofile \in [F!Procs -> [F!Slots -> F!file]] /\ inodes \in Seq(F!inode)
      /\ MaxOpen \in Nat
    BY DEF FInv, Files0, F!BoundsAssumption
<1>3. PICK n : Tabled(ofile[q], n)
    BY DEF FInv, Files0
<1>4. F!FirstFree(ofile[q]) = n
    BY <1>3, FreeSlot
<1> DEFINE s == ofile[q]
           t == [s EXCEPT ![n] = f]
<1>5. /\ s \in [F!Slots -> F!file] /\ n \in F!Slots /\ n \in Nat /\ n < MaxOpen
      /\ \A fd \in F!Slots : s[fd] # F!NULL <=> fd < n
    BY <1>2, <1>3, <1>4 DEF Tabled, F!Slots
<1>6. /\ t \in [F!Slots -> F!file] /\ t[n] = f
      /\ \A fd \in F!Slots : fd # n => t[fd] = s[fd]
    BY <1>1, <1>5
<1>7. F!PutFile(s, f) = t
    BY <1>4 DEF F!PutFile
<1> HIDE DEF t
<1>8. /\ ofile' \in [F!Procs -> [F!Slots -> F!file]] /\ ofile'[q] = t
      /\ \A u \in F!Procs : u # q => ofile'[u] = ofile[u]
    BY <1>1, <1>2, <1>6, <1>7
<1>9. f # F!NULL
    BY <1>1 DEF F!NULL
<1>10. Tabled(t, n + 1)
    <2>1. n + 1 \in F!Slots
        BY <1>2, <1>5 DEF F!Slots
    <2>2. ASSUME NEW fd \in F!Slots PROVE t[fd] # F!NULL <=> fd < n + 1
        <3>1. fd \in Nat
            BY <1>2 DEF F!Slots
        <3>2. fd = n \/ (fd < n <=> fd < n + 1)
            BY <1>5, <3>1
        <3>3. n < n + 1
            BY <1>5
        <3> QED BY <1>5, <1>6, <1>9, <3>2, <3>3
    <2> QED BY <2>1, <2>2 DEF Tabled
<1> HIDE DEF s
<1>11. F!Found(Console)' <=> F!Found(Console)
    BY <1>1 DEF F!Found
<1>12. F!Lookup(Console)' = F!Lookup(Console)
    BY <1>1 DEF F!Lookup
<1>13. Files0'
    <2>1. \A fd \in F!Slots : t[fd] # F!NULL => t[fd].inode \in DOMAIN inodes /\ t[fd].data = 1
        <3>1. \A fd \in F!Slots : s[fd] # F!NULL => s[fd].inode \in DOMAIN inodes /\ s[fd].data = 1
            BY DEF FInv, Files0, s
        <3> QED BY <1>1, <1>6, <3>1
    <2>2. \A u \in F!Procs : \E i : Tabled(ofile'[u], i)
        <3>1. \A u \in F!Procs : \E i : Tabled(ofile[u], i)
            BY DEF FInv, Files0
        <3> QED BY <1>8, <1>10, <3>1
    <2>3. \A u \in F!Procs, fd \in F!Slots : ofile'[u][fd] # F!NULL =>
              ofile'[u][fd].inode \in DOMAIN inodes /\ ofile'[u][fd].data = 1
        <3>1. \A u \in F!Procs, fd \in F!Slots : ofile[u][fd] # F!NULL =>
                  ofile[u][fd].inode \in DOMAIN inodes /\ ofile[u][fd].data = 1
            BY DEF FInv, Files0
        <3> QED BY <1>8, <2>1, <3>1
    <2>4. \A u \in F!Procs : u >= pid => ofile'[u] = NoFiles
        <3>1. ASSUME NEW u \in F!Procs, u >= pid PROVE u # q
            BY <3>1 DEF F!Procs, FInv, Counters, F!BoundsAssumption
        <3> QED BY <1>8, <3>1 DEF FInv, Files0
    <2> QED BY <1>1, <1>2, <1>8, <2>2, <2>3, <2>4 DEF Files0, NoFiles, Tabled, F!Slots, F!NULL
<1>14. Counters'
    BY <1>1 DEF FInv, Counters
<1>15. CASE state = "run"
    <2>1. ASSUME F!Found(Console), NEW u \in 1..(pid - 1), NEW fd \in 0..2
          PROVE  ofile'[u][fd].inode = F!Lookup(Console)
        <3>1. ofile[u][fd].inode = F!Lookup(Console)
            BY <1>15, <2>1 DEF FInv, Stages, F!StandardFiles
        <3>2. u \in F!Procs /\ fd \in F!Slots
            BY DEF F!Procs, F!Slots, FInv, Counters, F!BoundsAssumption
        <3>3. CASE u = q
            <4>1. F!Lookup(Console) \in DOMAIN inodes
                BY <1>2, <2>1, LookupFinds
            <4>2. F!Lookup(Console) # 0
                BY <1>2, <4>1
            <4>3. s[n] = F!NULL
                <5>1. ~(n < n)
                    BY <1>5
                <5> QED BY <1>5, <5>1
            <4>4. fd # n
                BY <3>1, <3>3, <4>2, <4>3 DEF s, F!NULL
            <4> QED BY <1>6, <1>8, <3>1, <3>2, <3>3, <4>4 DEF s
        <3>4. CASE u # q
            BY <1>8, <3>1, <3>2, <3>4
        <3> QED BY <3>3, <3>4
    <2>2. F!StandardFiles'
        BY <1>1, <1>11, <1>12, <2>1 DEF F!StandardFiles
    <2>3. Stages'
        BY <1>1, <1>15, <2>2 DEF Stages
    <2> QED BY <1>13, <1>14, <2>3 DEF FInv
<1>16. CASE state = "boot" /\ q = 1 /\ name = Console /\ F!FirstFree(ofile[1]) < 3
    <2>1. /\ F!Found(Console) /\ pid = 2
          /\ \A fd \in F!Slots : s[fd] # F!NULL => s[fd].inode = F!Lookup(Console)
        BY <1>16 DEF FInv, Stages, Consoles, s
    <2>2. n + 1 \in 0..3
        BY <1>4, <1>5, <1>16
    <2>3. \A fd \in F!Slots : t[fd] # F!NULL => t[fd].inode = F!Lookup(Console)
        BY <1>1, <1>6, <1>16, <2>1
    <2>4. F!StandardFiles'
        BY <1>1, <1>16 DEF F!StandardFiles
    <2>5. \E i \in 0..3 : Tabled(ofile'[1], i)
        BY <1>8, <1>10, <1>16, <2>2
    <2>6. \A fd \in F!Slots : ofile'[1][fd] # F!NULL => ofile'[1][fd].inode = F!Lookup(Console)
        BY <1>8, <1>16, <2>3
    <2>7. Consoles'
        BY <1>11, <1>12, <2>1, <2>5, <2>6 DEF Consoles, Tabled, F!Slots, F!NULL
    <2>8. Stages'
        BY <1>1, <1>16, <2>1, <2>4, <2>7 DEF Stages
    <2> QED BY <1>13, <1>14, <2>8 DEF FInv
<1> QED BY <1>15, <1>16

(***************************************************************************)
(* sys_fork: the child, whose table was empty, gets that of the parent,    *)
(* which has no gap.                                                       *)
(***************************************************************************)
LEMMA ForkKeeps ==
    ASSUME FInv, LoadInv', F!BoundsAssumption, NEW q \in F!Procs, F!SysFork(q)
    PROVE  FInv'
<1>1. state = "run" /\ q < pid /\ pid <= MaxPid
    BY DEF F!SysFork, F!Live
<1>2. PICK n : Tabled(ofile[q], n)
    BY DEF FInv, Files0
<1>3. F!FirstFree(ofile[q]) = n /\ n \in Nat
    <2>1. F!FirstFree(ofile[q]) = n
        BY <1>2, FreeSlot
    <2> QED BY <1>2, <2>1 DEF Tabled, F!Slots, F!BoundsAssumption
<1>4. F!CopyFiles(ofile[q]) = ofile[q]
    <2>1. ofile[q] \in [F!Slots -> F!file]
        BY DEF FInv, Files0
    <2>2. \A fd \in F!Slots : ofile[q][fd] = IF fd < n THEN ofile[q][fd] ELSE F!NULL
        BY <1>2 DEF Tabled
    <2> QED BY <1>3, <2>1, <2>2 DEF F!CopyFiles
<1>5. CASE F!Stop("nomem")
    <2>1. Halts("nomem")
        BY <1>5 DEF F!Stop, Halts
    <2> QED BY <2>1, HaltKeeps
<1>6. CASE /\ used + n <= Objects /\ ofile' = [ofile EXCEPT ![pid] = ofile[q]]
           /\ used' = used + n /\ pid' = pid + 1
           /\ UNCHANGED <<archive, blk, inodes, col, row, state>>
    <2>1. /\ pid \in F!Procs /\ pid \in Nat /\ q # pid
          /\ used \in Nat /\ pid + 1 \in 2..(MaxPid + 1) /\ Objects \in Nat
        BY <1>1 DEF F!Procs, FInv, Counters, F!BoundsAssumption
    <2>2. ofile \in [F!Procs -> [F!Slots -> F!file]]
        BY DEF FInv, Files0
    <2>3. /\ ofile' \in [F!Procs -> [F!Slots -> F!file]] /\ ofile'[pid] = ofile[q]
          /\ \A u \in F!Procs : u # pid => ofile'[u] = ofile[u]
        BY <1>6, <2>1, <2>2
    <2>4. \A u \in F!Procs : ofile'[u] = ofile[u] \/ ofile'[u] = ofile[q]
        BY <2>3
    <2>5. Files0'
        <3>1. \A u \in F!Procs : \E i : Tabled(ofile'[u], i)
            <4>1. \A u \in F!Procs : \E i : Tabled(ofile[u], i)
                BY DEF FInv, Files0
            <4> QED BY <2>4, <4>1
        <3>2. \A u \in F!Procs, fd \in F!Slots : ofile'[u][fd] # F!NULL =>
                  ofile'[u][fd].inode \in DOMAIN inodes /\ ofile'[u][fd].data = 1
            <4>1. \A u \in F!Procs, fd \in F!Slots : ofile[u][fd] # F!NULL =>
                      ofile[u][fd].inode \in DOMAIN inodes /\ ofile[u][fd].data = 1
                BY DEF FInv, Files0
            <4> QED BY <2>4, <4>1
        <3>3. \A u \in F!Procs : u >= pid + 1 => ofile'[u] = NoFiles
            <4>1. ASSUME NEW u \in F!Procs, u >= pid + 1 PROVE u # pid /\ u >= pid
                BY <2>1, <4>1 DEF F!Procs, F!BoundsAssumption
            <4> QED BY <2>3, <4>1 DEF FInv, Files0
        <3>4. inodes \in Seq(F!inode)
            BY DEF FInv, Files0
        <3> QED BY <1>6, <2>3, <3>1, <3>2, <3>3, <3>4 DEF Files0, NoFiles, Tabled, F!Slots, F!NULL
    <2>6. Counters'
        <3>1. used' \in 0..Objects
            BY <1>3, <1>6, <2>1
        <3> QED BY <1>6, <2>1, <3>1 DEF FInv, Counters
    <2>7. F!Found(Console)' <=> F!Found(Console)
        BY <1>6 DEF F!Found
    <2>8. F!Lookup(Console)' = F!Lookup(Console)
        BY <1>6 DEF F!Lookup
    <2>9. ASSUME F!Found(Console), NEW u \in 1..((pid + 1) - 1), NEW fd \in 0..2
          PROVE  ofile'[u][fd].inode = F!Lookup(Console)
        <3>1. \A v \in 1..(pid - 1) : ofile[v][fd].inode = F!Lookup(Console)
            BY <1>1, <2>9 DEF FInv, Stages, F!StandardFiles
        <3>2. q \in 1..(pid - 1)
            BY <1>1, <2>1 DEF F!Procs
        <3>3. u # pid => u \in 1..(pid - 1) /\ u \in F!Procs
            BY <1>1, <2>1 DEF F!Procs, F!BoundsAssumption
        <3> QED BY <2>3, <3>1, <3>2, <3>3
    <2>10. F!StandardFiles'
        BY <1>6, <2>7, <2>8, <2>9 DEF F!StandardFiles
    <2>11. Stages'
        BY <1>1, <1>6, <2>10 DEF Stages
    <2> QED BY <2>5, <2>6, <2>11 DEF FInv
<1> QED BY <1>3, <1>4, <1>5, <1>6 DEF F!SysFork

(***************************************************************************)
(* A step that leaves the files alone.                                     *)
(***************************************************************************)
LEMMA CursorKeeps ==
    ASSUME FInv, LoadInv', UNCHANGED <<archive, blk, inodes, ofile, pid, used>>,
           col' \in 0..(Cols + 1), row' \in 0..MaxLine,
           state' = state \/ state' = "offscreen"
    PROVE  FInv'
<1>1. F!Found(Console)' <=> F!Found(Console)
    BY DEF F!Found
<1>2. F!Lookup(Console)' = F!Lookup(Console)
    BY DEF F!Lookup
<1>3. Files0'
    BY DEF FInv, Files0
<1>4. Counters'
    BY DEF FInv, Counters
<1>5. Stages'
    <2>1. Consoles => Consoles'
        BY <1>1, <1>2 DEF Consoles
    <2> QED BY <1>1, <1>2, <2>1 DEF FInv, Stages, F!StandardFiles
<1> QED BY <1>3, <1>4, <1>5 DEF FInv

(***************************************************************************)
(* init_initrd runs before any descriptor is there.                        *)
(***************************************************************************)
LEMMA LoadBlockKeeps ==
    ASSUME FInv, LoadInv', F!LoadBlock
    PROVE  FInv'
<1>1. /\ UNCHANGED <<archive, ofile, pid, used, col, row>>
      /\ state = "load" /\ state' \in {"load", "overrun"}
    BY DEF F!LoadBlock
<1>2. \A q \in F!Procs : ofile[q] = NoFiles
    <2>1. pid = 2 /\ ofile[1] = NoFiles
        BY <1>1 DEF FInv, Stages
    <2>2. \A q \in F!Procs : q = 1 \/ q >= pid
        BY <2>1 DEF F!Procs
    <2> QED BY <2>1, <2>2 DEF FInv, Files0
<1>3. Files0'
    <2>1. inodes' \in Seq(F!inode)
        BY DEF LoadInv
    <2>2. \A fd \in F!Slots : NoFiles[fd] = F!NULL
        BY DEF NoFiles
    <2>3. \A q \in F!Procs, fd \in F!Slots : ofile[q][fd] = F!NULL
        BY <1>2, <2>2
    <2> QED BY <1>1, <2>1, <2>3 DEF FInv, Files0
<1>4. Counters'
    BY <1>1 DEF FInv, Counters, LoadInv
<1>5. Stages'
    BY <1>1 DEF FInv, Stages, F!StandardFiles
<1> QED BY <1>3, <1>4, <1>5 DEF FInv

(***************************************************************************)
(* A step keeps FInv.                                                      *)
(***************************************************************************)
LEMMA FilesKeep ==
    ASSUME F!BoundsAssumption, FInv, [F!Next]_(F!vars)
    PROVE  FInv'
<1>0. LoadInv'
    BY LoadKeeps DEF FInv
<1>1. CASE F!LoadBlock
    BY <1>0, <1>1, LoadBlockKeeps
<1>2. CASE F!InitSys
    <2>1. state = "load" /\ pid = 2 /\ ofile[1] = NoFiles
        BY <1>2 DEF F!InitSys, FInv, Stages
    <2>2. CASE F!Stop("panic")
        BY <1>0, <2>2, HaltKeeps DEF F!Stop, Halts
    <2>3. CASE ~F!Found(Console) /\ F!Stop("run")
        <3>1. Halts("run")
            BY <2>3 DEF F!Stop, Halts
        <3>2. F!StandardFiles'
            <4>1. ~(F!Found(Console)')
                BY <2>3, <3>1 DEF F!Found, Halts
            <4> QED BY <4>1 DEF F!StandardFiles
        <3> QED BY <1>0, <3>1, <3>2, HaltKeeps
    <2>4. CASE F!Found(Console) /\ F!Stop("boot")
        <3>1. Halts("boot")
            BY <2>4 DEF F!Stop, Halts
        <3>2. Tabled(NoFiles, 0) /\ \A fd \in F!Slots : NoFiles[fd] = F!NULL
            BY DEF Tabled, NoFiles, F!Slots, F!BoundsAssumption
        <3>3. Consoles
            <4>1. 0 \in 0..3
                OBVIOUS
            <4> QED BY <2>1, <2>4, <3>2, <4>1 DEF Consoles
        <3> QED BY <1>0, <2>1, <3>1, <3>3, HaltKeeps
    <2> QED BY <1>2, <2>2, <2>3, <2>4 DEF F!InitSys
<1>3. ASSUME NEW q \in F!Procs, NEW name, F!Found(name), F!Opens(q, name), q < pid,
             F!FirstFree(ofile[q]) < MaxOpen,
             \/ state = "run"
             \/ state = "boot" /\ q = 1 /\ name = Console /\ F!FirstFree(ofile[1]) < 3
      PROVE  FInv'
    <2>1. CASE \E how \in {"panic", "fault", "nomem"} : Halts(how)
        BY <1>0, <2>1, HaltKeeps
    <2>2. CASE \E f : Opened(q, name, f)
        BY <1>0, <1>3, <2>2, OpenKeeps
    <2> QED BY <1>3, <2>1, <2>2, OpenOutcomes
<1>4. CASE F!InitOpens
    <2>1. state = "boot" /\ pid = 2 /\ Consoles
        BY <1>4 DEF F!InitOpens, FInv, Stages
    <2>2. 1 \in F!Procs /\ 1 < pid /\ MaxOpen \in Nat /\ MaxOpen >= 3
        BY <2>1 DEF F!Procs, F!BoundsAssumption
    <2>3. PICK n \in 0..3 : Tabled(ofile[1], n)
        BY <2>1 DEF Consoles
    <2>4. F!FirstFree(ofile[1]) = n
        BY <2>3, FreeSlot
    <2>5. CASE F!FirstFree(ofile[1]) < 3 /\ F!Opens(1, Console)
        <3>1. F!FirstFree(ofile[1]) < MaxOpen
            BY <2>2, <2>4, <2>5
        <3>2. F!Found(Console)
            BY <2>1 DEF Consoles
        <3> QED BY <1>3, <2>1, <2>2, <2>5, <3>1, <3>2
    <2>6. CASE F!FirstFree(ofile[1]) = 3 /\ F!Stop("run")
        <3>1. Halts("run")
            BY <2>6 DEF F!Stop, Halts
        <3>2. F!Lookup(Console)' = F!Lookup(Console)
            BY <3>1 DEF F!Lookup, Halts
        <3>3. \A fd \in 0..2 : ofile[1][fd].inode = F!Lookup(Console)
            <4>1. \A fd \in 0..2 : fd \in F!Slots /\ fd < n
                BY <2>2, <2>4, <2>6 DEF F!Slots
            <4> QED BY <2>1, <2>3, <4>1 DEF Tabled, Consoles
        <3>4. \A u \in 1..(2 - 1) : u = 1
            OBVIOUS
        <3>5. F!StandardFiles'
            <4>1. UNCHANGED <<ofile, pid>>
                BY <3>1 DEF Halts
            <4> QED BY <2>1, <3>2, <3>3, <3>4, <4>1 DEF F!StandardFiles
        <3> QED BY <1>0, <3>1, <3>5, HaltKeeps
    <2> QED BY <1>4, <2>5, <2>6 DEF F!InitOpens
<1>5. ASSUME UNCHANGED F!vars PROVE FInv'
    <2>1. UNCHANGED <<archive, blk, inodes, ofile, pid, used, col, row, state>>
        BY <1>5 DEF F!vars
    <2>2. col' \in 0..(Cols + 1) /\ row' \in 0..MaxLine
        BY <2>1 DEF FInv, Counters
    <2> QED BY <1>0, <2>1, <2>2, CursorKeeps
<1>6. ASSUME NEW q \in F!Procs, NEW name \in Names, F!SysOpen(q, name)
      PROVE  FInv'
    BY <1>3, <1>5, <1>6 DEF F!SysOpen, F!Live
<1>7. ASSUME NEW q \in F!Procs, F!SysFork(q) PROVE FInv'
    BY <1>0, <1>7, ForkKeeps
<1>8. ASSUME NEW q \in F!Procs, NEW fd, NEW str \in Texts, F!SysWrite(q, fd, str)
      PROVE  FInv'
    <2> DEFINE c == F!Cursor(str)
    <2>1. c \in Cursors
        <3>1. col \in 0..(Cols + 1) /\ row \in Nat
            BY DEF FInv, Counters, F!BoundsAssumption
        <3> QED BY <3>1, CursorMoves
    <2>2. c.x \in 0..(Cols + 1) /\ c.y \in Nat /\ MaxLine \in Nat
        BY <2>1 DEF Cursors, F!BoundsAssumption
    <2>3. CASE UNCHANGED F!vars
        BY <1>5, <2>3
    <2> HIDE DEF c
    <2>4. CASE /\ c.y <= MaxLine /\ col' = c.x /\ row' = c.y
               /\ state' = IF c.off THEN "offscreen" ELSE state
               /\ UNCHANGED <<archive, blk, inodes, ofile, pid, used>>
        <3>1. col' \in 0..(Cols + 1) /\ row' \in 0..MaxLine
            BY <2>2, <2>4
        <3>2. state' = state \/ state' = "offscreen"
            BY <2>4
        <3> QED BY <1>0, <2>4, <3>1, <3>2, CursorKeeps
    <2> QED BY <1>8, <2>3, <2>4 DEF F!SysWrite, c
<1> QED BY <1>1, <1>2, <1>4, <1>5, <1>6, <1>7, <1>8 DEF F!Next, F!SysRead, F!Stopped

(***************************************************************************)
(* At the start no file is open.                                           *)
(***************************************************************************)
LEMMA FilesBegin ==
    ASSUME F!BoundsAssumption, F!Init
    PROVE  FInv
<1>1. LoadInv
    BY LoadBegins
<1>2. /\ inodes = <<>> /\ ofile = [q \in F!Procs |-> NoFiles] /\ pid = 2 /\ used = 0
      /\ col = 0 /\ row = 0 /\ state = "load"
    BY DEF F!Init, NoFiles
<1>3. 1 \in F!Procs /\ MaxOpen \in Nat /\ Objects \in Nat /\ MaxLine \in Nat /\ Cols \in Nat
      /\ MaxPid \in Nat \ {0}
    BY DEF F!Procs, F!BoundsAssumption
<1>4. Files0
    <2>1. Tabled(NoFiles, 0) /\ \A fd \in F!Slots : NoFiles[fd] = F!NULL
        BY <1>3 DEF Tabled, NoFiles, F!Slots
    <2>2. NoFiles \in [F!Slots -> F!file]
        BY DEF NoFiles, F!NULL, F!file
    <2>3. \A q \in F!Procs : ofile[q] = NoFiles
        BY <1>2
    <2>4. ofile \in [F!Procs -> [F!Slots -> F!file]] /\ inodes \in Seq(F!inode)
        BY <1>2, <2>2
    <2> QED BY <2>1, <2>3, <2>4 DEF Files0
<1>5. Counters
    BY <1>1, <1>2, <1>3 DEF Counters, LoadInv
<1>6. Stages
    BY <1>2, <1>3 DEF Stages, F!StandardFiles
<1> QED BY <1>1, <1>4, <1>5, <1>6 DEF FInv

(***************************************************************************)
(* FInv says that the descriptors are right.                               *)
(***************************************************************************)
LEMMA FilesRight ==
    ASSUME FInv
    PROVE  F!DescriptorsRight
<1>1. F!TypeOK
    <2>1. \A i \in DOMAIN inodes : inodes[i] \in F!inode
        BY DEF FInv, Files0
    <2>2. \A q \in F!Procs, fd \in F!Slots :
              ofile[q][fd] # F!NULL => ofile[q][fd].inode \in DOMAIN inodes
        BY DEF FInv, Files0
    <2>3. ofile \in [F!Procs -> [F!Slots -> F!file]]
        BY DEF FInv, Files0
    <2> QED BY <2>1, <2>2, <2>3 DEF F!TypeOK, FInv, Counters
<1>2. F!LeadsToFb
    BY DEF F!LeadsToFb, F!FRAMEBUFFER, FInv, Files0
<1>3. F!NoGaps
    BY DEF F!NoGaps, FInv, Files0, Tabled
<1> QED BY <1>1, <1>2, <1>3 DEF F!DescriptorsRight, FInv, Stages

(***************************************************************************)
(* Every descriptor leads to a frame buffer, and standard input, output    *)
(* and error of every process are the console, through any chain of forks; *)
(* a table has no gaps.                                                    *)
(***************************************************************************)
THEOREM DescriptorsRightAlways == F!Spec => []DescriptorsRight
<1>1. F!Init => FInv
    BY FilesAssumption, FilesBegin
<1>2. FInv /\ [F!Next]_(F!vars) => FInv'
    BY FilesAssumption, FilesKeep
<1>3. FInv => DescriptorsRight
    BY FilesAssumption, FilesRight DEF DescriptorsRight
<1> QED BY <1>1, <1>2, <1>3, PTL DEF F!Spec

-----------------------------------------------------------------------------
(***************************************************************************)
(* The serial line: what printk is meant to print is what it sends.        *)
(***************************************************************************)
LEMMA SerialFormat ==
    /\ \A b, k : S!Power(b, k) = PowerOf(b, k)
    /\ \A u, b : S!LowFirst(u, b) = LowDigits(u, b)
    /\ \A u, b : S!Numeral(u, b) = NumeralOf(u, b, Width)
    /\ \A s : S!Reverse(s) = Reverse(s)
<1>1. \A b, k : S!Power(b, k) = PowerOf(b, k)
    BY DEF S!Power, PowerOf
<1>2. \A u, b : S!LowFirst(u, b) = LowDigits(u, b)
    BY DEF S!LowFirst, LowDigits
<1>3. \A u, b : S!Numeral(u, b) = NumeralOf(u, b, Width)
    BY Zenon DEF S!Numeral, NumeralOf, S!Power, PowerOf
<1>4. \A s : S!Reverse(s) = Reverse(s)
    BY DEF S!Reverse, Reverse
<1> QED BY <1>1, <1>2, <1>3, <1>4

(***************************************************************************)
(* kitoa makes of a number what the conversion is for.                     *)
(***************************************************************************)
LEMMA PrintsNumber ==
    ASSUME S!WidthAssumption, NEW n \in S!int, NEW b \in {16, 10, 8, 2}
    PROVE  /\ S!kitoa(n, b) = IF b = 10 THEN S!SignedNumeral(n, b)
                              ELSE S!Numeral(S!AsUnsigned(n), b)
           /\ S!kitoa(n, b) \in Seq(Int)
<1>1. Width \in Nat /\ Width > 1
    BY DEF S!WidthAssumption
<1>2. b \in Nat /\ b > 1 /\ (b = 10 => b > 2)
    OBVIOUS
<1>3. n \in Int /\ -PowerOf(2, Width - 1) <= n /\ n < PowerOf(2, Width - 1)
    <2>0. PICK v \in Nat : v = Width - 1
        BY <1>1
    <2>1. PICK t \in Nat : t = 2 /\ t > 1
        OBVIOUS
    <2>2. PowerOf(t, v) \in Nat
        BY <2>1, Powers
    <2>3. PICK h \in Nat : h = PowerOf(2, Width - 1)
        BY <2>0, <2>1, <2>2
    <2>4. n \in (-h)..(h - 1)
        BY <2>3, SerialFormat DEF S!int
    <2>5. n \in Int /\ -h <= n /\ n < h
        BY <2>4
    <2> QED BY <2>3, <2>5
<1>4. ReadsUnsigned(n, b, Width) /\ (b > 2 => ReadsSigned(n, b, Width))
    BY <1>1, <1>2, <1>3, NumbersRead
<1>5. PICK wrap : wrap = PowerOf(2, Width) /\ \A k : S!AsUnsigned(k) = k % wrap
    BY SerialFormat DEF S!AsUnsigned
<1>6. <<0>> \in Seq(Int)
    OBVIOUS
<1>7. CASE b # 10
    <2>1. PICK s \in Seq(Nat) : /\ s = NumeralOf(n % wrap, b, Width)
                                /\ n = 0 => s = <<0>>
                                /\ n # 0 => Reverse(LowDigits(n % wrap, b)) = s
        BY <1>4, <1>5 DEF ReadsUnsigned
    <2>2. S!Numeral(S!AsUnsigned(n), b) = s
        BY <1>5, <2>1, SerialFormat
    <2>3. n # 0 => S!kitoa(n, b) = <<>> \o s
        BY <1>5, <1>7, <2>1, SerialFormat DEF S!kitoa, S!Turned
    <2>4. n = 0 => S!kitoa(n, b) = s
        BY <2>1 DEF S!kitoa
    <2>5. s \in Seq(Int) /\ <<>> \o s = s
        BY Signed
    <2> QED BY <1>7, <2>2, <2>3, <2>4, <2>5
<1>8. CASE b = 10
    <2>0. PICK a : a = IF n < 0 THEN -n ELSE n
        OBVIOUS
    <2>1. PICK s \in Seq(Nat) : /\ s = NumeralOf(a, b, Width)
                                /\ n = 0 => s = <<0>>
                                /\ n # 0 => Reverse(LowDigits(a % wrap, b)) = s
        BY <1>2, <1>4, <1>5, <1>8, <2>0 DEF ReadsSigned
    <2>2. /\ <<>> \o s = s /\ s \in Seq(Int) /\ <<-1>> \o s \in Seq(Int)
        BY Signed
    <2>3. CASE n < 0
        <3>1. a = -n /\ n # 0
            BY <1>3, <2>0, <2>3
        <3>2. S!SignedNumeral(n, b) = <<-1>> \o s
            BY <2>1, <2>3, <3>1, SerialFormat DEF S!SignedNumeral, S!MINUS
        <3>3. S!kitoa(n, b) = <<-1>> \o s
            BY <1>5, <1>8, <2>1, <2>3, <3>1, SerialFormat DEF S!kitoa, S!Turned, S!MINUS
        <3> QED BY <1>8, <2>2, <3>2, <3>3
    <2>4. CASE ~(n < 0)
        <3>1. a = n
            BY <2>0, <2>4
        <3>2. S!SignedNumeral(n, b) = s
            BY <2>1, <2>4, <3>1, SerialFormat DEF S!SignedNumeral
        <3>3. n # 0 => S!kitoa(n, b) = <<>> \o s
            BY <1>5, <1>8, <2>1, <2>4, <3>1, SerialFormat DEF S!kitoa, S!Turned
        <3>4. n = 0 => S!kitoa(n, b) = s
            BY <2>1 DEF S!kitoa
        <3> QED BY <1>8, <2>2, <3>2, <3>3, <3>4
    <2> QED BY <2>3, <2>4
<1> QED BY <1>7, <1>8

(***************************************************************************)
(* The invariant: the line, what the device holds and what printk has      *)
(* still to send are, one after the other, what callers printed.  base is  *)
(* one that the conversion knows.                                          *)
(***************************************************************************)
SerialInv ==
    /\ line \in Seq(Int) /\ holding \in Seq(Int) /\ text \in Seq(Int) /\ put \in Seq(Int)
    /\ sbase \in {S!UNSET, 16, 10, 8, 2}
    /\ (line \o holding) \o text = put

(***************************************************************************)
(* A directive is read when nothing is left to send.                       *)
(***************************************************************************)
LEMMA SendKeeps ==
    ASSUME SerialInv, text = <<>>, NEW out \in Seq(Int), S!Send(out, out),
           UNCHANGED <<holding, line>>
    PROVE  /\ text' \in Seq(Int) /\ put' \in Seq(Int)
           /\ (line' \o holding') \o text' = put'
<1>1. text' = out /\ put' = put \o out /\ line' = line /\ holding' = holding
    BY DEF S!Send
<1>2. line \o holding \in Seq(Int)
    BY ConcatProperties DEF SerialInv
<1>3. (line \o holding) \o <<>> = line \o holding
    BY <1>2, ConcatEmptySeq
<1>4. put = line \o holding
    BY <1>3 DEF SerialInv
<1>5. put \o out \in Seq(Int)
    BY <1>2, <1>4, ConcatProperties
<1> QED BY <1>1, <1>4, <1>5

(***************************************************************************)
(* Every step of the serial line keeps its invariant: setting up the port, *)
(* a directive of printk, the bytes it hands over one by one and the bytes *)
(* the device sends.                                                       *)
(***************************************************************************)
LEMMA SerialKeeps ==
    ASSUME S!WidthAssumption, S!SerialAssumption, SerialInv, [S!Next]_(S!vars)
    PROVE  SerialInv'
<1>1. CASE UNCHANGED S!vars
    BY <1>1 DEF S!vars, SerialInv
<1>2. CASE S!init_serial
    BY <1>2 DEF S!init_serial, SerialInv
<1>3. CASE S!Transmit
    <2>1. line' = line \o holding /\ holding' = <<>> /\ text' = text /\ sbase' = sbase /\ put' = put
        BY <1>3 DEF S!Transmit
    <2>2. line \o holding \in Seq(Int)
        BY ConcatProperties DEF SerialInv
    <2>3. (line \o holding) \o <<>> = line \o holding /\ <<>> \in Seq(Int)
        BY <2>2, ConcatEmptySeq
    <2> QED BY <2>1, <2>2, <2>3 DEF SerialInv
<1>4. CASE S!Poll
    BY <1>4 DEF S!Poll, S!vars, SerialInv
<1>5. CASE S!write_serial
    <2>1. /\ text # <<>> /\ holding = <<>> /\ holding' = <<Head(text)>> /\ text' = Tail(text)
          /\ line' = line /\ sbase' = sbase /\ put' = put
        BY <1>5 DEF S!write_serial, S!HoldingEmpty
    <2>2. text \in Seq(Int) /\ line \in Seq(Int)
        BY DEF SerialInv
    <2>3. Head(text) \in Int /\ Tail(text) \in Seq(Int)
        BY <2>1, <2>2, HeadTailProperties
    <2>4. <<Head(text)>> \in Seq(Int)
        BY <2>3
    <2>5. <<Head(text)>> \o Tail(text) = text
        BY <2>1, <2>2, <2>3
    <2>6. (line \o <<Head(text)>>) \o Tail(text) = line \o (<<Head(text)>> \o Tail(text))
        BY <2>2, <2>3, <2>4, ConcatAssociative
    <2>7. line \o <<>> = line
        BY <2>2, ConcatEmptySeq
    <2> QED BY <2>1, <2>3, <2>4, <2>5, <2>6, <2>7 DEF SerialInv
<1>6. CASE S!printk
    BY <1>6 DEF S!printk, SerialInv
<1>7. CASE S!Directive
    <2>0. text = <<>>
        BY <1>7 DEF S!Directive
    <2>1. ASSUME NEW out \in {<<>>, <<S!LETTER>>, <<S!PERCENT>>, <<S!LETTER, S!LETTER>>},
                 S!Copied(out)
          PROVE  SerialInv'
        <3>1. out \in Seq(Int)
            <4>1. S!LETTER \in Int /\ S!PERCENT \in Int
                BY DEF S!LETTER, S!PERCENT
            <4>2. \A c \in Int : <<c>> \in Seq(Int) /\ <<c, c>> \in Seq(Int)
                OBVIOUS
            <4>3. <<>> \in Seq(Int)
                OBVIOUS
            <4> QED BY <4>1, <4>2, <4>3
        <3>2. S!Send(out, out) /\ line' = line /\ holding' = holding /\ sbase' = sbase
            BY <2>1 DEF S!Copied
        <3>3. text' \in Seq(Int) /\ put' \in Seq(Int) /\ (line' \o holding') \o text' = put'
            BY <2>0, <3>1, <3>2, SendKeeps
        <3> QED BY <3>2, <3>3 DEF SerialInv
    <2>2. ASSUME S!Char PROVE SerialInv'
        <3>1. S!Copied(<<S!LETTER>>)
            BY <2>2 DEF S!Char
        <3> QED BY <2>1, <3>1
    <2>3. ASSUME NEW n \in Ints, S!Unknown(n) PROVE SerialInv'
        <3>1. CASE /\ sbase = S!UNSET /\ spc' = "unset"
                   /\ UNCHANGED <<holding, line, text, sbase, put>>
            BY <3>1 DEF SerialInv
        <3>2. CASE /\ sbase # S!UNSET /\ S!Send(S!kitoa(n, sbase), S!kitoa(n, sbase))
                   /\ UNCHANGED <<holding, line, sbase, spc>>
            <4>1. sbase \in {16, 10, 8, 2} /\ n \in S!int
                BY <3>2 DEF SerialInv, S!SerialAssumption
            <4>2. S!kitoa(n, sbase) \in Seq(Int)
                BY <4>1, PrintsNumber
            <4>3. line' = line /\ holding' = holding /\ sbase' = sbase
                BY <3>2
            <4>4. text' \in Seq(Int) /\ put' \in Seq(Int) /\ (line' \o holding') \o text' = put'
                BY <2>0, <3>2, <4>2, <4>3, SendKeeps
            <4> QED BY <4>3, <4>4 DEF SerialInv
        <3> QED BY <2>3, <3>1, <3>2 DEF S!Unknown
    <2>4. ASSUME NEW n \in Ints, NEW b \in {16, 10, 8, 2}, S!Number(b, n) PROVE SerialInv'
        <3>1. n \in S!int
            BY DEF S!SerialAssumption
        <3>2. S!kitoa(n, b) \in Seq(Int)
            BY <3>1, PrintsNumber
        <3>3. PICK out : out = S!kitoa(n, b) /\ out = IF b = 10 THEN S!SignedNumeral(n, b)
                                                     ELSE S!Numeral(S!AsUnsigned(n), b)
            BY <3>1, PrintsNumber
        <3>4. S!Send(out, out) /\ line' = line /\ holding' = holding /\ sbase' = b
            BY <2>4, <3>3 DEF S!Number
        <3>5. text' \in Seq(Int) /\ put' \in Seq(Int) /\ (line' \o holding') \o text' = put'
            BY <2>0, <3>2, <3>3, <3>4, SendKeeps
        <3> QED BY <3>4, <3>5 DEF SerialInv
    <2> QED BY <1>7, <2>1, <2>2, <2>3, <2>4 DEF S!Directive
<1>8. CASE S!Return
    BY <1>8 DEF S!Return, SerialInv
<1>9. CASE S!Quiet
    BY <1>9 DEF S!Quiet, S!vars, SerialInv
<1> QED BY <1>1, <1>2, <1>3, <1>4, <1>5, <1>6, <1>7, <1>8, <1>9 DEF S!Next

(***************************************************************************)
(* The serial line has what callers printed, in order, whatever the        *)
(* numbers and however long the device takes.                              *)
(***************************************************************************)
THEOREM LineInOrderAlways == S!Spec => []LineInOrder
<1>1. S!Init => SerialInv
    <2>1. <<>> \in Seq(Int) /\ <<>> \o <<>> = <<>>
        OBVIOUS
    <2> QED BY <2>1 DEF S!Init, SerialInv
<1>2. SerialInv /\ [S!Next]_(S!vars) => SerialInv'
    BY LineAssumption, SerialKeeps
<1>3. SerialInv => LineInOrder
    BY DEF SerialInv, LineInOrder, S!LineInOrder
<1> QED BY <1>1, <1>2, <1>3, PTL DEF S!Spec
-----------------------------------------------------------------------------
(***************************************************************************)
(* The console.  A cell is 16 pixels wide and 26 high; a screen has whole  *)
(* cells in its lines and its scan lines.                                  *)
(***************************************************************************)
LEMMA CellSize == C!CELL_W = 16 /\ C!CELL_H = 26 /\ C!PIXEL = 4
BY DEF C!CELL_W, C!CELL_H, C!PIXEL, C!FONT_W, C!FONT_H, C!SCALE

(***************************************************************************)
(* P bytes to a scan line, H of them, Z bytes to a pixel, N columns and K  *)
(* lines of cells.                                                         *)
(***************************************************************************)
ScreenIs(P, H, Z, N, K) ==
    /\ P = fb.pitch /\ H = fb.height /\ Z = C!Bytes /\ N = C!Columns /\ K = C!Lines
    /\ Z \in {2, 3, 4} /\ 1 <= N /\ (16 * N) * Z <= P
    /\ 26 * K <= H /\ H < 26 * K + 26 /\ 1 <= K

(***************************************************************************)
(* The sizes of a screen that ScreensAssumption allows.                    *)
(***************************************************************************)
LEMMA ScreenFacts ==
    ASSUME fb \in Screens
    PROVE  \E P \in Nat, H \in Nat, Z \in Nat, N \in Nat, K \in Nat : ScreenIs(P, H, Z, N, K)
<1>1. /\ fb.width \in Nat /\ fb.height \in Nat /\ fb.pitch \in Nat /\ fb.bpp \in {16, 24, 32}
      /\ fb.pitch >= fb.width * (fb.bpp \div 8) /\ fb.width >= 16 /\ fb.height >= 26
    BY ConsoleAssumption, CellSize DEF C!ScreensAssumption
<1>2. PICK w \in Nat, h \in Nat, p \in Nat : w = fb.width /\ h = fb.height /\ p = fb.pitch
    BY <1>1
<1>3. PICK Z \in Nat : Z = fb.bpp \div 8 /\ Z \in {2, 3, 4}
    BY <1>1
<1>4. p >= w * Z /\ w >= 16 /\ h >= 26
    BY <1>1, <1>2, <1>3
<1>5. PICK N \in Nat : N = w \div 16 /\ 16 * N <= w /\ 1 <= N
    BY <1>4
<1>6. PICK K \in Nat : K = h \div 26 /\ 26 * K <= h /\ h < 26 * K + 26 /\ 1 <= K
    BY <1>4
<1>7. (16 * N) * Z <= p
    <2>1. CASE Z = 2
        BY <1>4, <1>5, <2>1
    <2>2. CASE Z = 3
        BY <1>4, <1>5, <2>2
    <2>3. CASE Z = 4
        BY <1>4, <1>5, <2>3
    <2> QED BY <1>3, <2>1, <2>2, <2>3
<1>8. C!Columns = N /\ C!Lines = K /\ C!Bytes = Z
    BY <1>2, <1>3, <1>5, <1>6, CellSize DEF C!Columns, C!Lines, C!Bytes
<1>9. ScreenIs(p, h, Z, N, K)
    BY <1>2, <1>3, <1>5, <1>6, <1>7, <1>8 DEF ScreenIs
<1> QED BY <1>9

(***************************************************************************)
(* Byte k of the pixel in column sx of scan line sy, on the screen.        *)
(***************************************************************************)
PixelByte(b, sx, sy, k, P, Z, N) ==
    /\ sx < 16 * N /\ k < Z /\ b = sy * P + (sx * Z + k)

HasPlace(b, sx, sy, k, P, Z) ==
    /\ b \div P = sy /\ b - sy * P = sx * Z + k /\ (sx * Z + k) \div Z = sx
    /\ sx * Z + k < P /\ P # 0

(***************************************************************************)
(* The scan line and the column of a byte.                                 *)
(***************************************************************************)
LEMMA PixelPlace ==
    ASSUME NEW P \in Nat, NEW H \in Nat, NEW Z \in Nat, NEW N \in Nat, NEW K \in Nat,
           ScreenIs(P, H, Z, N, K),
           NEW b \in Nat, NEW sx \in Nat, NEW sy \in Nat, NEW k \in Nat, PixelByte(b, sx, sy, k, P, Z, N)
    PROVE  HasPlace(b, sx, sy, k, P, Z)
<1>1. Z \in {2, 3, 4} /\ 1 <= N /\ (16 * N) * Z <= P /\ sx < 16 * N /\ k < Z /\ b = sy * P + (sx * Z + k)
    BY DEF ScreenIs, PixelByte
<1>2. sx * Z + k < P /\ P # 0 /\ sx * Z + k \in Nat /\ (sx * Z + k) \div Z = sx
    <2>1. CASE Z = 2
        BY <1>1, <2>1
    <2>2. CASE Z = 3
        BY <1>1, <2>2
    <2>3. CASE Z = 4
        BY <1>1, <2>3
    <2> QED BY <1>1, <2>1, <2>2, <2>3
<1>3. PICK d \in Nat : d = sx * Z + k
    BY <1>2
<1>4. d < P /\ b = P * sy + d
    BY <1>1, <1>2, <1>3
<1>5. (P * sy + d) \div P = sy
    BY <1>2, <1>4, DivModUnique
<1>6. b - sy * P = d
    BY <1>4
<1> QED BY <1>2, <1>3, <1>4, <1>5, <1>6 DEF HasPlace

(***************************************************************************)
(* The pixel in column v of scan line w writes a byte of the one in column *)
(* sx of scan line sy: it is at most to the left of it, or in the scan     *)
(* line above.                                                             *)
(***************************************************************************)
Reaches(v, w, sx, sy, k, P, Z) ==
    \/ w = sy /\ v <= sx /\ v * Z + 4 > sx * Z + k
    \/ w + 1 = sy /\ v * Z + 4 > P + (sx * Z + k)

InCell(v, w, col_, row_) ==
    /\ 16 * col_ <= v /\ v <= 16 * col_ + 15
    /\ 26 * row_ <= w /\ w <= 26 * row_ + 25

WritesPixel(q, cc, cr, sx, sy, k, P, Z) ==
    \E v \in Nat, w \in Nat : q = <<v, w>> /\ InCell(v, w, cc, cr) /\ Reaches(v, w, sx, sy, k, P, Z)

(***************************************************************************)
(* The pixels of a cell that write a byte are in that cell and reach the   *)
(* byte.                                                                   *)
(***************************************************************************)
LEMMA WritersReach ==
    ASSUME fb \in Screens,
           NEW P \in Nat, NEW H \in Nat, NEW Z \in Nat, NEW N \in Nat, NEW K \in Nat,
           ScreenIs(P, H, Z, N, K), NEW cc \in Nat, NEW cr \in Nat,
           NEW b \in Nat, NEW sx \in Nat, NEW sy \in Nat, NEW k \in Nat, PixelByte(b, sx, sy, k, P, Z, N),
           NEW q \in C!Writers(cc, cr, b)
    PROVE  WritesPixel(q, cc, cr, sx, sy, k, P, Z)
<1>0. HasPlace(b, sx, sy, k, P, Z)
    BY PixelPlace
<1>a. /\ b \div P = sy /\ b - sy * P = sx * Z + k /\ (sx * Z + k) \div Z = sx
    BY <1>0 DEF HasPlace
<1>b. /\ fb.pitch = P /\ C!Bytes = Z /\ b = sy * P + (sx * Z + k)
    BY DEF ScreenIs, PixelByte
<1>1. /\ b \div P = sy /\ b - sy * P = sx * Z + k /\ (sx * Z + k) \div Z = sx
      /\ fb.pitch = P /\ C!Bytes = Z /\ b = sy * P + (sx * Z + k)
    BY <1>a, <1>b
<1>2. PICK w \in {sy - 1, sy} \cap ((cr * 26)..(cr * 26 + 26 - 1)) :
         \E v \in Int : /\ q = <<v, w>> /\ v \in (cc * 16)..((cc + 1) * 16 - 1)
                        /\ v <= (b - w * P) \div Z /\ (w * P + v * Z) + 4 > b
    BY <1>1, CellSize DEF C!Writers, C!COORD, C!Top
<1>3. PICK v \in Int : /\ q = <<v, w>> /\ v \in (cc * 16)..((cc + 1) * 16 - 1)
                       /\ v <= (b - w * P) \div Z /\ (w * P + v * Z) + 4 > b
    BY <1>2
<1>4. v \in Nat /\ w \in Nat /\ InCell(v, w, cc, cr)
    BY <1>2, <1>3 DEF InCell
<1>5. PICK u \in Nat, d \in Nat, t \in Nat : u = sy * P /\ d = sx * Z + k /\ t = v * Z
    BY <1>4
<1>c. b = u + d
    BY <1>b, <1>5
<1>6. ASSUME w = sy PROVE Reaches(v, w, sx, sy, k, P, Z)
    <2>1. v <= sx
        BY <1>1, <1>3, <1>6
    <2>2. u + t + 4 > u + d
        BY <1>3, <1>5, <1>6, <1>c
    <2>3. t + 4 > d
        BY <2>2
    <2> QED BY <1>5, <1>6, <2>1, <2>3 DEF Reaches
<1>7. ASSUME w = sy - 1 PROVE Reaches(v, w, sx, sy, k, P, Z)
    <2>1. w * P = u - P
        BY <1>5, <1>7
    <2>2. (u - P) + t + 4 > u + d
        BY <1>3, <1>5, <1>c, <2>1
    <2>3. t + 4 > P + d
        BY <2>2
    <2>4. w + 1 = sy
        BY <1>7
    <2> QED BY <1>5, <2>3, <2>4 DEF Reaches
<1>8. Reaches(v, w, sx, sy, k, P, Z)
    BY <1>2, <1>6, <1>7
<1> QED BY <1>3, <1>4, <1>8 DEF WritesPixel

(***************************************************************************)
(* A pixel writes its own bytes.                                           *)
(***************************************************************************)
LEMMA WritesItself ==
    ASSUME fb \in Screens,
           NEW P \in Nat, NEW H \in Nat, NEW Z \in Nat, NEW N \in Nat, NEW K \in Nat,
           ScreenIs(P, H, Z, N, K), NEW cc \in Nat, NEW cr \in Nat,
           NEW b \in Nat, NEW sx \in Nat, NEW sy \in Nat, NEW k \in Nat, PixelByte(b, sx, sy, k, P, Z, N),
           InCell(sx, sy, cc, cr)
    PROVE  <<sx, sy>> \in C!Writers(cc, cr, b)
<1>0. HasPlace(b, sx, sy, k, P, Z)
    BY PixelPlace
<1>a. /\ b \div P = sy /\ b - sy * P = sx * Z + k /\ (sx * Z + k) \div Z = sx
    BY <1>0 DEF HasPlace
<1>b. fb.pitch = P /\ C!Bytes = Z /\ b = sy * P + (sx * Z + k) /\ k < Z /\ Z \in {2, 3, 4}
    BY DEF ScreenIs, PixelByte
<1>1. /\ b \div P = sy /\ b - sy * P = sx * Z + k /\ (sx * Z + k) \div Z = sx
      /\ fb.pitch = P /\ C!Bytes = Z /\ b = sy * P + (sx * Z + k) /\ k < Z /\ Z \in {2, 3, 4}
    BY <1>a, <1>b
<1>2. /\ sx \in (cc * 16)..((cc + 1) * 16 - 1) /\ sy \in (cr * 26)..(cr * 26 + 26 - 1)
      /\ sx \in (sx - 4 + 1)..sx
    BY DEF InCell
<1>3. (sy * P + sx * Z) + 4 > b
    <2>1. PICK u \in Nat, t \in Nat : u = sy * P /\ t = sx * Z
        OBVIOUS
    <2>2. b = u + (t + k) /\ k < 4
        BY <1>1, <2>1
    <2> QED BY <2>1, <2>2
<1>4. (b - sy * P) \div Z = sx
    BY <1>1
<1> QED BY <1>1, <1>2, <1>3, <1>4, CellSize DEF C!Writers, C!COORD, C!Top
-----------------------------------------------------------------------------
(***************************************************************************)
(* A drawn cell (cc, cr), perhaps one past the last column, against byte k *)
(* of pixel (i, j) of a cell (dc, dr) of the screen.                       *)
(***************************************************************************)
CellByte(b, dc, dr, i, j, k, P, Z) ==
    b = (26 * dr + j) * P + ((16 * dc + i) * Z + k)

Hidden(i, k, Z) == i = 0 /\ k < 4 - Z

IsCellByte(dc, dr, i, j, k, Z, N) ==
    /\ dc \in Nat /\ dr \in Nat /\ i \in Nat /\ j \in Nat /\ k \in Nat
    /\ dc < N /\ i < 16 /\ j < 26 /\ k < Z /\ ~Hidden(i, k, Z)

MayReach(v, w, cc, cr, dc, dr, i, j, P, Z, N) ==
    \/ cc = dc /\ cr = dr /\ w = 26 * dr + j /\ v <= 16 * dc + i
    \/ cc = N /\ dc = 0 /\ (dr = cr \/ dr = cr + 1) /\ P < (16 * N + 16) * Z

(***************************************************************************)
(* Drawing a cell writes no byte of another that is not hidden, but for    *)
(* the cell past the last column, which may reach those of the first.      *)
(***************************************************************************)
LEMMA ReachedBytes ==
    ASSUME NEW P \in Nat, NEW H \in Nat, NEW Z \in Nat, NEW N \in Nat, NEW K \in Nat,
           ScreenIs(P, H, Z, N, K), NEW cc \in Nat, cc <= N, NEW cr \in Nat,
           NEW dc, NEW dr, NEW i, NEW j, NEW k, IsCellByte(dc, dr, i, j, k, Z, N),
           NEW v \in Nat, NEW w \in Nat, InCell(v, w, cc, cr),
           Reaches(v, w, 16 * dc + i, 26 * dr + j, k, P, Z)
    PROVE  MayReach(v, w, cc, cr, dc, dr, i, j, P, Z, N)
<1>1. /\ dc \in Nat /\ dr \in Nat /\ i \in Nat /\ j \in Nat /\ k \in Nat
      /\ dc < N /\ i < 16 /\ j < 26 /\ k < Z /\ ~(i = 0 /\ k < 4 - Z)
    BY DEF IsCellByte, Hidden
<1>2. Z \in {2, 3, 4} /\ (16 * N) * Z <= P /\ 1 <= N
    BY DEF ScreenIs
<1>3. /\ 16 * cc <= v /\ v <= 16 * cc + 15
      /\ 26 * cr <= w /\ w <= 26 * cr + 25
    BY DEF InCell
<1>4. PICK sx \in Nat, sy \in Nat : sx = 16 * dc + i /\ sy = 26 * dr + j
    BY <1>1
<1>5. \/ w = sy /\ v <= sx /\ v * Z + 4 > sx * Z + k
      \/ w + 1 = sy /\ v * Z + 4 > P + (sx * Z + k)
    BY <1>4 DEF Reaches
<1>6. ASSUME w = sy, v <= sx, v * Z + 4 > sx * Z + k
      PROVE  cc = dc /\ cr = dr /\ w = 26 * dr + j /\ v <= 16 * dc + i
    <2>1. cr = dr
        BY <1>1, <1>3, <1>4, <1>6
    <2>2. v + 1 >= sx
        <3>1. CASE Z = 2
            BY <1>1, <1>6, <3>1
        <3>2. CASE Z = 3
            BY <1>1, <1>6, <3>2
        <3>3. CASE Z = 4
            BY <1>1, <1>6, <3>3
        <3> QED BY <1>2, <3>1, <3>2, <3>3
    <2>3. v = sx \/ i # 0
        <3>1. CASE Z = 2
            BY <1>1, <1>6, <2>2, <3>1
        <3>2. CASE Z = 3
            BY <1>1, <1>6, <2>2, <3>2
        <3>3. CASE Z = 4
            BY <1>1, <1>6, <2>2, <3>3
        <3> QED BY <1>2, <3>1, <3>2, <3>3
    <2>4. cc = dc
        BY <1>1, <1>3, <1>4, <1>6, <2>2, <2>3
    <2> QED BY <1>4, <1>6, <2>1, <2>4
<1>7. ASSUME w + 1 = sy, v * Z + 4 > P + (sx * Z + k)
      PROVE  cc = N /\ dc = 0 /\ (dr = cr \/ dr = cr + 1) /\ P < (16 * N + 16) * Z
    <2>1. dr = cr \/ dr = cr + 1
        BY <1>1, <1>3, <1>4, <1>7
    <2>2. v * Z + 4 > (16 * N) * Z + (sx * Z + k)
        <3>1. PICK t \in Nat, u \in Nat, d \in Nat : t = v * Z /\ u = (16 * N) * Z /\ d = sx * Z + k
            BY <1>1
        <3>2. t + 4 > P + d /\ u <= P
            BY <1>2, <1>7, <3>1
        <3>3. t + 4 > u + d
            BY <3>2
        <3> QED BY <3>1, <3>3
    <2>3. v + 1 >= 16 * N + sx /\ (v >= 16 * N + sx \/ i # 0)
        <3>1. CASE Z = 2
            BY <1>1, <2>2, <1>4, <1>3, <3>1
        <3>2. CASE Z = 3
            BY <1>1, <2>2, <1>4, <1>3, <3>2
        <3>3. CASE Z = 4
            BY <1>1, <2>2, <1>4, <1>3, <3>3
        <3> QED BY <1>2, <3>1, <3>2, <3>3
    <2>4. cc = N /\ dc = 0
        BY <1>1, <1>3, <1>4, <2>3
    <2>5. P < (16 * N + 16) * Z
        <3>1. CASE Z = 2
            BY <1>1, <1>3, <1>4, <1>7, <2>4, <3>1
        <3>2. CASE Z = 3
            BY <1>1, <1>3, <1>4, <1>7, <2>4, <3>2
        <3>3. CASE Z = 4
            BY <1>1, <1>3, <1>4, <1>7, <2>4, <3>3
        <3> QED BY <1>2, <3>1, <3>2, <3>3
    <2> QED BY <2>1, <2>4, <2>5
<1> QED BY <1>5, <1>6, <1>7 DEF MayReach

(***************************************************************************)
(* The bytes of the cells are bytes of pixels, and in the frame buffer.    *)
(***************************************************************************)
LEMMA CellBytes ==
    ASSUME NEW P \in Nat, NEW H \in Nat, NEW Z \in Nat, NEW N \in Nat, NEW K \in Nat,
           ScreenIs(P, H, Z, N, K),
           NEW dc, NEW dr, NEW i, NEW j, NEW k, IsCellByte(dc, dr, i, j, k, Z, N),
           NEW b, CellByte(b, dc, dr, i, j, k, P, Z)
    PROVE  /\ b \in Nat
           /\ 16 * dc + i \in Nat /\ 26 * dr + j \in Nat
           /\ PixelByte(b, 16 * dc + i, 26 * dr + j, k, P, Z, N)
           /\ dr < K => b \in 0..(P * H - 1)
           /\ (26 * dr) * P + (16 * dc) * Z <= b
<1>1. /\ dc \in Nat /\ dr \in Nat /\ i \in Nat /\ j \in Nat /\ k \in Nat
      /\ dc < N /\ i < 16 /\ j < 26 /\ k < Z
    BY DEF IsCellByte
<1>2. Z \in {2, 3, 4} /\ 26 * K <= H
    BY DEF ScreenIs
<1>3. PICK sx \in Nat, sy \in Nat : sx = 16 * dc + i /\ sy = 26 * dr + j
    BY <1>1
<1>4. b = sy * P + (sx * Z + k) /\ b \in Nat /\ sx < 16 * N
    BY <1>1, <1>3 DEF CellByte
<1>5. PixelByte(b, sx, sy, k, P, Z, N)
    BY <1>1, <1>4 DEF PixelByte
<1>6. HasPlace(b, sx, sy, k, P, Z)
    BY <1>1, <1>4, <1>5, PixelPlace
<1>7. sx * Z + k < P
    BY <1>6 DEF HasPlace
<1>8. ASSUME dr < K PROVE b \in 0..(P * H - 1)
    <2>1. PICK g \in Nat : H = sy + 1 + g
        <3>1. H - (sy + 1) \in Nat
            BY <1>1, <1>2, <1>3, <1>8
        <3> QED BY <3>1
    <2>2. P * H = sy * P + (P + P * g)
        BY <2>1
    <2>3. PICK u \in Nat, d \in Nat, t \in Nat : u = sy * P /\ d = sx * Z + k /\ t = P * g
        BY <1>1
    <2>4. b = u + d /\ P * H = u + (P + t) /\ d < P
        BY <1>4, <1>7, <2>2, <2>3
    <2> QED BY <1>4, <2>4
<1>9. (26 * dr) * P + (16 * dc) * Z <= b
    <2>1. sy * P = (26 * dr) * P + j * P /\ sx * Z = (16 * dc) * Z + i * Z
        BY <1>1, <1>3
    <2>2. PICK u \in Nat, d \in Nat, t \in Nat, s \in Nat :
             u = (26 * dr) * P /\ d = (16 * dc) * Z /\ t = j * P /\ s = i * Z
        BY <1>1
    <2>3. b = (u + t) + ((d + s) + k)
        BY <1>4, <2>1, <2>2
    <2> QED BY <1>1, <2>2, <2>3
<1> QED BY <1>3, <1>4, <1>5, <1>8, <1>9
-----------------------------------------------------------------------------
(***************************************************************************)
(* The console's invariant, over the sizes of its screen: what CellsShow   *)
(* says, the cursor in the line or up to two cells behind it, and a byte   *)
(* that was drawn outside the frame buffer for one of the three reasons.   *)
(***************************************************************************)
Exempt(dc, dr, ov, P, Z, N) ==
    dc = 0 /\ (dr \in ov \/ dr - 1 \in ov) /\ P < (16 * N + 16) * Z

ShowsByte(mm, ch, dc, dr, i, j, k, P, Z) ==
    mm[(26 * dr + j) * P + ((16 * dc + i) * Z + k)] = C!Lit(ch, i \div C!SCALE, j \div C!SCALE)

AllShow(mm, sh, ov, P, Z, N, K) ==
    \A dc, dr, i, j, k :
        /\ IsCellByte(dc, dr, i, j, k, Z, N) /\ dr < K
        /\ sh[<<dc, dr>>] # C!Nothing /\ ~Exempt(dc, dr, ov, P, Z, N)
        => ShowsByte(mm, sh[<<dc, dr>>], dc, dr, i, j, k, P, Z)

ScreenCells(N, K) == (0..(N - 1)) \X (0..(K - 1))

DrawnWithin(md, cury, ov, Z, K) ==
    md = "offscreen" => cury >= K \/ K - 1 \in ov \/ (Z < 4 /\ cury = K - 1)

ConState(mm, curx, cury, sh, ov, md, P, H, Z, N, K) ==
    /\ DOMAIN mm = 0..(P * H - 1)
    /\ curx \in Nat /\ curx <= N + 1 /\ cury \in Nat
    /\ \E T_ : sh \in [ScreenCells(N, K) -> T_]
    /\ md = "ok" => AllShow(mm, sh, ov, P, Z, N, K)
    /\ DrawnWithin(md, cury, ov, Z, K)

ConsoleInv ==
    /\ fb \in Screens
    /\ ConState(mem, cx, cy, shown, over, cmode,
                fb.pitch, fb.height, C!Bytes, C!Columns, C!Lines)

(***************************************************************************)
(* The invariant gives what ScreenShows says.                              *)
(***************************************************************************)
LEMMA ConsoleRight ==
    ASSUME ConsoleInv
    PROVE  C!ScreenShows
<1>1. fb \in Screens
    BY DEF ConsoleInv
<1>2. PICK P \in Nat, H \in Nat, Z \in Nat, N \in Nat, K \in Nat : ScreenIs(P, H, Z, N, K)
    BY <1>1, ScreenFacts
<1>3. /\ P = fb.pitch /\ H = fb.height /\ Z = C!Bytes /\ N = C!Columns /\ K = C!Lines
      /\ Z \in {2, 3, 4}
    BY <1>2 DEF ScreenIs
<1>4. ConState(mem, cx, cy, shown, over, cmode, P, H, Z, N, K)
    BY <1>3 DEF ConsoleInv
<1>5. /\ cx \in Nat /\ cx <= N + 1 /\ (cmode = "ok" => AllShow(mem, shown, over, P, Z, N, K))
      /\ DrawnWithin(cmode, cy, over, Z, K)
    BY <1>4 DEF ConState
<1>6. C!CursorOnLine
    BY <1>3, <1>5 DEF C!CursorOnLine
<1>7. C!OnScreen
    BY <1>3, <1>5, CellSize DEF C!OnScreen, DrawnWithin
<1>8. C!CellsShow
    <2>a. SUFFICES ASSUME cmode = "ok", NEW cell \in C!Cells,
                          shown[cell] # C!Nothing, ~(cell[1] = 0 /\ C!RunsOver(cell[2])),
                          NEW i \in 0..(C!CELL_W - 1), NEW j \in 0..(C!CELL_H - 1),
                          NEW k \in 0..(C!Bytes - 1), ~C!Exposed(cell[1] * C!CELL_W + i, k)
                   PROVE  mem[C!COORD(cell[1] * C!CELL_W + i, cell[2] * C!CELL_H + j) + k]
                             = C!Lit(shown[cell], i \div C!SCALE, j \div C!SCALE)
        BY DEF C!CellsShow
    <2>1. /\ i \in 0..15 /\ j \in 0..25 /\ k \in 0..(Z - 1) /\ ~C!Exposed(cell[1] * 16 + i, k)
          /\ cmode = "ok" /\ shown[cell] # C!Nothing /\ ~(cell[1] = 0 /\ C!RunsOver(cell[2]))
        BY <1>3, <2>a, CellSize
    <2>2. PICK dc \in 0..(N - 1), dr \in 0..(K - 1) : cell = <<dc, dr>>
        BY <1>3 DEF C!Cells
    <2>3. dc \in Nat /\ dr \in Nat /\ dc < N /\ dr < K
        BY <2>2
    <2>4. ~Hidden(i, k, Z)
        <3>1. i = 0 => (dc * 16 + i) % 16 = 0
            BY <2>3
        <3> QED BY <1>3, <2>1, <2>2, <3>1, CellSize DEF C!Exposed, Hidden
    <2>5. IsCellByte(dc, dr, i, j, k, Z, N)
        BY <1>3, <2>1, <2>3, <2>4 DEF IsCellByte
    <2>6. ~Exempt(dc, dr, over, P, Z, N)
        <3>1. (N + 1) * 16 = 16 * N + 16
            OBVIOUS
        <3> QED BY <1>3, <2>1, <2>2, <3>1, CellSize DEF Exempt, C!RunsOver
    <2>7. ShowsByte(mem, shown[<<dc, dr>>], dc, dr, i, j, k, P, Z)
        BY <1>5, <2>1, <2>2, <2>3, <2>5, <2>6 DEF AllShow
    <2>8. C!COORD(dc * 16 + i, dr * 26 + j) + k = (26 * dr + j) * P + ((16 * dc + i) * Z + k)
        <3>1. dc * 16 + i = 16 * dc + i /\ dr * 26 + j = 26 * dr + j
            BY <2>1, <2>3
        <3>2. PICK u \in Nat, d \in Nat : u = (26 * dr + j) * P /\ d = (16 * dc + i) * Z
            BY <2>1, <2>3
        <3> QED BY <1>3, <3>1, <3>2 DEF C!COORD
    <2> QED BY <2>2, <2>7, <2>8, CellSize DEF ShowsByte
<1> QED BY <1>6, <1>7, <1>8 DEF C!ScreenShows

(***************************************************************************)
(* Nothing is shown at the start.                                          *)
(***************************************************************************)
LEMMA ConsoleBegins ==
    ASSUME C!Init
    PROVE  ConsoleInv
<1>1. fb \in Screens
    BY DEF C!Init
<1>2. PICK P \in Nat, H \in Nat, Z \in Nat, N \in Nat, K \in Nat : ScreenIs(P, H, Z, N, K)
    BY <1>1, ScreenFacts
<1>3. /\ P = fb.pitch /\ H = fb.height /\ Z = C!Bytes /\ N = C!Columns /\ K = C!Lines
    BY <1>2 DEF ScreenIs
<1>4. /\ mem = [b \in 0..(P * H - 1) |-> FALSE] /\ cx = 0 /\ cy = 0 /\ cmode = "ok"
      /\ shown = [cell \in ScreenCells(N, K) |-> C!Nothing]
    BY <1>3 DEF C!Init, C!Cells, ScreenCells
<1>5. shown \in [ScreenCells(N, K) -> {C!Nothing}]
    BY <1>4
<1>6. AllShow(mem, shown, over, P, Z, N, K)
    <2>1. SUFFICES ASSUME NEW dc, NEW dr, NEW i, NEW j, NEW k, IsCellByte(dc, dr, i, j, k, Z, N),
                          dr < K
                   PROVE  shown[<<dc, dr>>] = C!Nothing
        BY DEF AllShow
    <2>2. <<dc, dr>> \in ScreenCells(N, K)
        BY <2>1 DEF IsCellByte, ScreenCells
    <2> QED BY <1>4, <2>2
<1>7. DrawnWithin(cmode, cy, over, Z, K)
    BY <1>4 DEF DrawnWithin
<1>8. DOMAIN mem = 0..(P * H - 1) /\ cx \in Nat /\ cx <= N + 1 /\ cy \in Nat
    BY <1>4
<1>9. ConState(mem, cx, cy, shown, over, cmode, P, H, Z, N, K)
    BY <1>5, <1>6, <1>7, <1>8 DEF ConState
<1> QED BY <1>1, <1>3, <1>9 DEF ConsoleInv
-----------------------------------------------------------------------------
(***************************************************************************)
(* Drawing a cell of the screen puts the glyph in all of its bytes.        *)
(***************************************************************************)
LEMMA GlyphDrawn ==
    ASSUME fb \in Screens,
           NEW P \in Nat, NEW H \in Nat, NEW Z \in Nat, NEW N \in Nat, NEW K \in Nat,
           ScreenIs(P, H, Z, N, K), DOMAIN mem = 0..(P * H - 1),
           NEW dc, NEW dr, NEW i, NEW j, NEW k, IsCellByte(dc, dr, i, j, k, Z, N), dr < K, NEW c
    PROVE  ShowsByte(C!fbconchar(dc, dr, c), c, dc, dr, i, j, k, P, Z)
<1>1. /\ dc \in Nat /\ dr \in Nat /\ i \in Nat /\ j \in Nat /\ k \in Nat
      /\ dc < N /\ i < 16 /\ j < 26 /\ k < Z
    BY DEF IsCellByte
<1>2. PICK b : b = (26 * dr + j) * P + ((16 * dc + i) * Z + k)
    OBVIOUS
<1>3. CellByte(b, dc, dr, i, j, k, P, Z)
    BY <1>2 DEF CellByte
<1>4. /\ b \in Nat /\ 16 * dc + i \in Nat /\ 26 * dr + j \in Nat
      /\ PixelByte(b, 16 * dc + i, 26 * dr + j, k, P, Z, N) /\ b \in DOMAIN mem
    BY <1>3, CellBytes
<1>5. PICK sx \in Nat, sy \in Nat : sx = 16 * dc + i /\ sy = 26 * dr + j
    BY <1>4
<1>6. PixelByte(b, sx, sy, k, P, Z, N) /\ InCell(sx, sy, dc, dr)
    BY <1>1, <1>4, <1>5 DEF InCell
<1>7. <<sx, sy>> \in C!Writers(dc, dr, b)
    BY <1>1, <1>4, <1>6, WritesItself
<1>8. ASSUME NEW q \in C!Writers(dc, dr, b)
      PROVE  \E v \in Nat : q = <<v, sy>> /\ v <= sx
    <2>0. WritesPixel(q, dc, dr, sx, sy, k, P, Z)
        BY <1>1, <1>4, <1>6, WritersReach
    <2>1. PICK v \in Nat, w \in Nat : q = <<v, w>> /\ InCell(v, w, dc, dr) /\ Reaches(v, w, sx, sy, k, P, Z)
        BY <2>0 DEF WritesPixel
    <2>2. InCell(v, w, dc, dr) /\ Reaches(v, w, 16 * dc + i, 26 * dr + j, k, P, Z)
        BY <1>5, <2>1
    <2>3. \/ w = 26 * dr + j /\ v <= 16 * dc + i
          \/ dc = N
        <3>1. dc <= N
            BY <1>1
        <3>2. MayReach(v, w, dc, dr, dc, dr, i, j, P, Z, N)
            BY <1>1, <2>2, <3>1, ReachedBytes
        <3> QED BY <3>2 DEF MayReach
    <2> QED BY <1>1, <1>5, <2>1, <2>3
<1>9. PICK h : h = sy \div C!SCALE /\ h \in Int
    BY DEF C!SCALE
<1>10. ASSUME NEW v \in Nat, NEW u \in Nat
       PROVE  C!Later(<<v, sy>>, <<u, sy>>) <=> v >= u
    BY <1>9 DEF C!Later
<1>11. \A q \in C!Writers(dc, dr, b) : C!Later(<<sx, sy>>, q)
    BY <1>8, <1>10
<1>12. ASSUME NEW p \in C!Writers(dc, dr, b), \A q \in C!Writers(dc, dr, b) : C!Later(p, q)
       PROVE  p = <<sx, sy>>
    <2>1. PICK v \in Nat : p = <<v, sy>> /\ v <= sx
        BY <1>8
    <2>2. C!Later(<<v, sy>>, <<sx, sy>>)
        BY <1>7, <1>12, <2>1
    <2> QED BY <1>10, <2>1, <2>2
<1>13. (CHOOSE p \in C!Writers(dc, dr, b) : \A q \in C!Writers(dc, dr, b) : C!Later(p, q)) = <<sx, sy>>
    BY <1>7, <1>11, <1>12
<1>14. C!fbconchar(dc, dr, c)[b] = C!Glyph(dc, dr, <<sx, sy>>, c)
    BY <1>4, <1>7, <1>13 DEF C!fbconchar
<1>15. sx - dc * 16 = i /\ sy - dr * 26 = j
    BY <1>1, <1>5
<1>16. C!Glyph(dc, dr, <<sx, sy>>, c) = C!Lit(c, i \div C!SCALE, j \div C!SCALE)
    BY <1>15, CellSize DEF C!Glyph, C!Top
<1> QED BY <1>2, <1>14, <1>16 DEF ShowsByte

(***************************************************************************)
(* It leaves the bytes of the others, but for those of the first column    *)
(* under a character past the last.                                        *)
(***************************************************************************)
LEMMA OthersKept ==
    ASSUME fb \in Screens,
           NEW P \in Nat, NEW H \in Nat, NEW Z \in Nat, NEW N \in Nat, NEW K \in Nat,
           ScreenIs(P, H, Z, N, K), DOMAIN mem = 0..(P * H - 1),
           NEW cc \in Nat, cc <= N, NEW cr \in Nat, NEW c, NEW ch,
           NEW dc, NEW dr, NEW i, NEW j, NEW k, IsCellByte(dc, dr, i, j, k, Z, N), dr < K,
           ~(cc = dc /\ cr = dr),
           ~(cc = N /\ dc = 0 /\ (dr = cr \/ dr = cr + 1) /\ P < (16 * N + 16) * Z),
           ShowsByte(mem, ch, dc, dr, i, j, k, P, Z)
    PROVE  ShowsByte(C!fbconchar(cc, cr, c), ch, dc, dr, i, j, k, P, Z)
<1>2. PICK b : b = (26 * dr + j) * P + ((16 * dc + i) * Z + k)
    OBVIOUS
<1>3. CellByte(b, dc, dr, i, j, k, P, Z)
    BY <1>2 DEF CellByte
<1>4. /\ b \in Nat /\ 16 * dc + i \in Nat /\ 26 * dr + j \in Nat
      /\ PixelByte(b, 16 * dc + i, 26 * dr + j, k, P, Z, N) /\ b \in DOMAIN mem
    BY <1>3, CellBytes
<1>5. PICK sx \in Nat, sy \in Nat : sx = 16 * dc + i /\ sy = 26 * dr + j
    BY <1>4
<1>6. PixelByte(b, sx, sy, k, P, Z, N) /\ k \in Nat
    BY <1>4, <1>5 DEF IsCellByte
<1>7. C!Writers(cc, cr, b) = {}
    <2>1. SUFFICES ASSUME NEW q \in C!Writers(cc, cr, b) PROVE FALSE
        OBVIOUS
    <2>a. WritesPixel(q, cc, cr, sx, sy, k, P, Z)
        BY <1>4, <1>6, WritersReach
    <2>2. PICK v \in Nat, w \in Nat : q = <<v, w>> /\ InCell(v, w, cc, cr) /\ Reaches(v, w, sx, sy, k, P, Z)
        BY <2>a DEF WritesPixel
    <2>3. InCell(v, w, cc, cr) /\ Reaches(v, w, 16 * dc + i, 26 * dr + j, k, P, Z)
        BY <1>5, <2>2
    <2>4. MayReach(v, w, cc, cr, dc, dr, i, j, P, Z, N)
        BY <2>3, ReachedBytes
    <2> QED BY <2>4 DEF MayReach
<1>8. C!fbconchar(cc, cr, c)[b] = mem[b]
    BY <1>4, <1>7 DEF C!fbconchar
<1> QED BY <1>2, <1>8 DEF ShowsByte

(***************************************************************************)
(* The last byte a drawn cell writes.                                      *)
(***************************************************************************)
LEMMA LastInside ==
    ASSUME NEW P \in Nat, NEW H \in Nat, NEW Z \in Nat, NEW N \in Nat, NEW K \in Nat,
           ScreenIs(P, H, Z, N, K), NEW cc \in Nat, cc <= N, NEW cr \in Nat, cr < K,
           ~(cr = K - 1 /\ (cc = N \/ Z < 4))
    PROVE  C!LastByte(cc, cr) \in 0..(P * H - 1)
<1>1. /\ P = fb.pitch /\ Z = C!Bytes /\ Z \in {2, 3, 4} /\ 1 <= N /\ (16 * N) * Z <= P
      /\ 26 * K <= H
    BY DEF ScreenIs
<1>2. C!LastByte(cc, cr) = (cr * 26 + 26 - 1) * P + ((cc + 1) * 16 - 1) * Z + 4 - 1
    BY <1>1, CellSize DEF C!LastByte, C!COORD, C!Top
<1>3. PICK sy \in Nat, sx \in Nat : sy = 26 * cr + 25 /\ sx = 16 * cc + 15
    OBVIOUS
<1>4. cr * 26 + 26 - 1 = sy /\ (cc + 1) * 16 - 1 = sx
    BY <1>3
<1>5. PICK u \in Nat, t \in Nat : u = sy * P /\ t = sx * Z
    BY <1>3
<1>6. C!LastByte(cc, cr) = u + t + 3
    BY <1>2, <1>4, <1>5
<1>7. PICK g \in Nat : H = sy + 1 + g /\ (cr # K - 1 => g >= 26)
    <2>1. H - (sy + 1) \in Nat /\ (cr # K - 1 => H - (sy + 1) >= 26)
        BY <1>1, <1>3
    <2>2. H = (sy + 1) + (H - (sy + 1))
        BY <1>3
    <2> QED BY <2>1, <2>2
<1>8. P * H = u + (P + P * g)
    BY <1>5, <1>7
<1>9. PICK z \in Nat : z = P * g /\ (g >= 26 => z >= P + P)
    <2>1. P * g \in Nat
        OBVIOUS
    <2>2. ASSUME g >= 26 PROVE P * g >= P + P
        <3>1. PICK f \in Nat : g = 2 + f
            <4>1. g - 2 \in Nat
                BY <2>2
            <4> QED BY <4>1
        <3>2. P * g = P + P + P * f /\ P * f \in Nat
            BY <3>1
        <3> QED BY <3>2
    <2> QED BY <2>1, <2>2
<1>10. CASE cr # K - 1
    <2>1. t <= P + 16 * Z /\ 16 * Z <= P
        <3>1. CASE Z = 2
            BY <1>1, <1>3, <1>5, <3>1
        <3>2. CASE Z = 3
            BY <1>1, <1>3, <1>5, <3>2
        <3>3. CASE Z = 4
            BY <1>1, <1>3, <1>5, <3>3
        <3> QED BY <1>1, <3>1, <3>2, <3>3
    <2>2. P >= 32
        BY <1>1, <2>1
    <2>3. u + t + 3 < u + (P + z)
        BY <1>7, <1>9, <1>10, <2>1, <2>2
    <2> QED BY <1>6, <1>8, <1>9, <2>3
<1>11. CASE cr = K - 1
    <2>1. cc < N /\ Z = 4
        BY <1>1, <1>11
    <2>2. t + 3 < P
        BY <1>1, <1>3, <1>5, <2>1
    <2>3. u + t + 3 < u + (P + z)
        BY <2>2
    <2> QED BY <1>6, <1>8, <1>9, <2>3
<1> QED BY <1>10, <1>11
-----------------------------------------------------------------------------
(***************************************************************************)
(* The invariant over named sizes.                                         *)
(***************************************************************************)
LEMMA ConsoleSizes ==
    ASSUME ConsoleInv
    PROVE  /\ fb \in Screens
           /\ \E P \in Nat, H \in Nat, Z \in Nat, N \in Nat, K \in Nat :
                 /\ ScreenIs(P, H, Z, N, K)
                 /\ ConState(mem, cx, cy, shown, over, cmode, P, H, Z, N, K)
<1>1. fb \in Screens
    BY DEF ConsoleInv
<1>2. PICK P \in Nat, H \in Nat, Z \in Nat, N \in Nat, K \in Nat : ScreenIs(P, H, Z, N, K)
    BY <1>1, ScreenFacts
<1>3. ConState(mem, cx, cy, shown, over, cmode, P, H, Z, N, K)
    BY <1>2 DEF ConsoleInv, ScreenIs
<1> QED BY <1>1, <1>2, <1>3

(***************************************************************************)
(* The invariant after a step, over the sizes before it.                   *)
(***************************************************************************)
LEMMA ConsoleAfter ==
    ASSUME fb \in Screens, fb' = fb,
           NEW P \in Nat, NEW H \in Nat, NEW Z \in Nat, NEW N \in Nat, NEW K \in Nat,
           ScreenIs(P, H, Z, N, K),
           ConState(mem', cx', cy', shown', over', cmode', P, H, Z, N, K)
    PROVE  ConsoleInv'
<1>1. C!Bytes' = C!Bytes /\ C!Columns' = C!Columns /\ C!Lines' = C!Lines
    BY DEF C!Bytes, C!Columns, C!Lines
<1>2. P = fb.pitch /\ H = fb.height /\ Z = C!Bytes /\ N = C!Columns /\ K = C!Lines
    BY DEF ScreenIs
<1> QED BY <1>1, <1>2 DEF ConsoleInv

(***************************************************************************)
(* A character drawn at the cursor, which may be one past the last column. *)
(***************************************************************************)
LEMMA DrawKeeps ==
    ASSUME ConsoleInv, cmode = "ok", cx <= C!Columns, NEW c, C!Draw(cx, cy, c),
           cx' = cx + 1, cy' = cy, fb' = fb
    PROVE  ConsoleInv'
<1>1. fb \in Screens
    BY ConsoleSizes
<1>2. PICK P \in Nat, H \in Nat, Z \in Nat, N \in Nat, K \in Nat :
         /\ ScreenIs(P, H, Z, N, K)
         /\ ConState(mem, cx, cy, shown, over, cmode, P, H, Z, N, K)
    BY ConsoleSizes
<1>3. /\ DOMAIN mem = 0..(P * H - 1) /\ cx \in Nat /\ cy \in Nat
      /\ AllShow(mem, shown, over, P, Z, N, K)
    BY <1>2 DEF ConState
<1>4. PICK T_ : shown \in [ScreenCells(N, K) -> T_]
    BY <1>2 DEF ConState
<1>5. N = C!Columns /\ C!Cells = ScreenCells(N, K) /\ cx <= N
    BY <1>2 DEF ScreenIs, ScreenCells, C!Cells
<1>6. /\ mem' = C!fbconchar(cx, cy, c)
      /\ shown' = IF <<cx, cy>> \in ScreenCells(N, K) THEN [shown EXCEPT ![<<cx, cy>>] = c] ELSE shown
      /\ over' = IF cx >= N THEN over \cup {cy} ELSE over
      /\ cmode' = IF C!LastByte(cx, cy) \in 0..(P * H - 1) THEN cmode ELSE "offscreen"
    BY <1>3, <1>5 DEF C!Draw
<1>7. DOMAIN mem' = 0..(P * H - 1)
    BY <1>3, <1>6 DEF C!fbconchar
<1>8. shown' \in [ScreenCells(N, K) -> T_ \cup {c}]
    BY <1>4, <1>6
<1>9. AllShow(mem', shown', over', P, Z, N, K)
    <2>1. SUFFICES ASSUME NEW dc, NEW dr, NEW i, NEW j, NEW k, IsCellByte(dc, dr, i, j, k, Z, N),
                          dr < K, shown'[<<dc, dr>>] # C!Nothing, ~Exempt(dc, dr, over', P, Z, N)
                   PROVE  ShowsByte(mem', shown'[<<dc, dr>>], dc, dr, i, j, k, P, Z)
        BY DEF AllShow
    <2>2. <<dc, dr>> \in ScreenCells(N, K) /\ dc \in Nat /\ dr \in Nat
        BY <2>1 DEF IsCellByte, ScreenCells
    <2>3. CASE dc = cx /\ dr = cy
        <3>1. shown'[<<dc, dr>>] = c
            BY <1>4, <1>6, <2>2, <2>3
        <3>2. ShowsByte(C!fbconchar(dc, dr, c), c, dc, dr, i, j, k, P, Z)
            BY <1>1, <1>2, <1>3, <2>1, GlyphDrawn
        <3> QED BY <1>6, <2>3, <3>1, <3>2
    <2>4. CASE ~(dc = cx /\ dr = cy)
        <3>1. shown'[<<dc, dr>>] = shown[<<dc, dr>>]
            BY <1>4, <1>6, <2>2, <2>4
        <3>2. ~Exempt(dc, dr, over, P, Z, N)
            BY <1>6, <2>1 DEF Exempt
        <3>3. ShowsByte(mem, shown[<<dc, dr>>], dc, dr, i, j, k, P, Z)
            BY <1>3, <2>1, <3>1, <3>2 DEF AllShow
        <3>4. ~(cx = N /\ dc = 0 /\ (dr = cy \/ dr = cy + 1) /\ P < (16 * N + 16) * Z)
            <4>1. SUFFICES ASSUME cx = N, dc = 0, dr = cy \/ dr = cy + 1, P < (16 * N + 16) * Z
                           PROVE  FALSE
                OBVIOUS
            <4>2. cy \in over'
                BY <1>6, <4>1
            <4>3. dr \in over' \/ dr - 1 \in over'
                BY <1>3, <2>2, <4>1, <4>2
            <4> QED BY <2>1, <4>1, <4>3 DEF Exempt
        <3>5. ShowsByte(C!fbconchar(cx, cy, c), shown[<<dc, dr>>], dc, dr, i, j, k, P, Z)
            BY <1>1, <1>2, <1>3, <1>5, <2>1, <2>4, <3>3, <3>4, OthersKept
        <3> QED BY <1>6, <3>1, <3>5
    <2> QED BY <2>3, <2>4
<1>10. DrawnWithin(cmode', cy', over', Z, K)
    <2>1. SUFFICES ASSUME cmode' = "offscreen", cy < K
                   PROVE  K - 1 \in over' \/ (Z < 4 /\ cy = K - 1)
        BY <1>3 DEF DrawnWithin
    <2>2. C!LastByte(cx, cy) \notin 0..(P * H - 1)
        BY <1>6, <2>1
    <2>3. cy = K - 1 /\ (cx = N \/ Z < 4)
        BY <1>2, <1>3, <1>5, <2>1, <2>2, LastInside
    <2> QED BY <1>6, <2>3
<1>11. ConState(mem', cx', cy', shown', over', cmode', P, H, Z, N, K)
    <2>1. \E X_ : shown' \in [ScreenCells(N, K) -> X_]
        BY <1>8
    <2>2. cx' \in Nat /\ cx' <= N + 1 /\ cy' \in Nat
        BY <1>3, <1>5
    <2> QED BY <1>7, <1>9, <1>10, <2>1, <2>2 DEF ConState
<1> QED BY <1>1, <1>2, <1>11, ConsoleAfter

(***************************************************************************)
(* fbcon_write keeps the invariant: a new line, a backspace, a character   *)
(* drawn.                                                                  *)
(***************************************************************************)
LEMMA WriteKeeps ==
    ASSUME ConsoleInv, NEW c, C!fbcon_write(c)
    PROVE  ConsoleInv'
<1>1. fb \in Screens
    BY ConsoleSizes
<1>2. PICK P \in Nat, H \in Nat, Z \in Nat, N \in Nat, K \in Nat :
         /\ ScreenIs(P, H, Z, N, K)
         /\ ConState(mem, cx, cy, shown, over, cmode, P, H, Z, N, K)
    BY ConsoleSizes
<1>3. cmode = "ok" /\ fb' = fb /\ N = C!Columns /\ cx \in Nat /\ cx <= N + 1 /\ cy \in Nat
    BY <1>2 DEF C!fbcon_write, ConState, ScreenIs
<1>4. \/ /\ cy' = cy + 1 /\ cx' = 0 /\ UNCHANGED <<mem, shown, over, cmode>>
      \/ /\ cx > 0 /\ cx' = cx - 1 /\ UNCHANGED <<cy, mem, shown, over, cmode>>
      \/ /\ ~(cx > N) /\ C!Draw(cx, cy, c) /\ cx' = cx + 1 /\ cy' = cy
    BY <1>3 DEF C!fbcon_write, C!LineFull
<1>5. ASSUME cx' \in Nat, cx' <= N + 1, cy' \in Nat, UNCHANGED <<mem, shown, over, cmode>>
      PROVE  ConsoleInv'
    <2>1. DrawnWithin(cmode, cy', over, Z, K)
        BY <1>3 DEF DrawnWithin
    <2>2. ConState(mem', cx', cy', shown', over', cmode', P, H, Z, N, K)
        BY <1>2, <1>5, <2>1 DEF ConState
    <2> QED BY <1>1, <1>2, <1>3, <2>2, ConsoleAfter
<1>6. CASE C!Draw(cx, cy, c) /\ ~(cx > N) /\ cx' = cx + 1 /\ cy' = cy
    BY <1>3, <1>6, DrawKeeps
<1>7. CASE cy' = cy + 1 /\ cx' = 0 /\ UNCHANGED <<mem, shown, over, cmode>>
    BY <1>3, <1>5, <1>7
<1>8. CASE cx > 0 /\ cx' = cx - 1 /\ UNCHANGED <<cy, mem, shown, over, cmode>>
    BY <1>3, <1>5, <1>8
<1> QED BY <1>4, <1>6, <1>7, <1>8

(***************************************************************************)
(* What is written to /dev/fb lies before every cell that stays shown.     *)
(***************************************************************************)
LEMMA FbWriteKeeps ==
    ASSUME ConsoleInv, NEW sz \in FbSizes, C!fbdev_write(sz)
    PROVE  ConsoleInv'
<1>1. fb \in Screens /\ sz \in Nat
    BY ConsoleSizes, ConsoleAssumption DEF C!ScreensAssumption
<1>2. PICK P \in Nat, H \in Nat, Z \in Nat, N \in Nat, K \in Nat :
         /\ ScreenIs(P, H, Z, N, K)
         /\ ConState(mem, cx, cy, shown, over, cmode, P, H, Z, N, K)
    BY ConsoleSizes
<1>3. /\ P = fb.pitch /\ Z = C!Bytes /\ C!Cells = ScreenCells(N, K)
    BY <1>2 DEF ScreenIs, ScreenCells, C!Cells
<1>4. /\ cmode = "ok" /\ fb' = fb /\ cx' = cx /\ cy' = cy /\ over' = over
      /\ mem' = [b \in DOMAIN mem |-> mem[b] \/ b < sz]
      /\ shown' = [cell \in ScreenCells(N, K) |-> IF C!Touched(cell, sz) THEN C!Nothing ELSE shown[cell]]
      /\ cmode' # "offscreen"
    BY <1>3 DEF C!fbdev_write
<1>5. /\ DOMAIN mem = 0..(P * H - 1) /\ cx \in Nat /\ cx <= N + 1 /\ cy \in Nat
      /\ AllShow(mem, shown, over, P, Z, N, K)
    BY <1>2, <1>4 DEF ConState
<1>6. PICK T_ : shown \in [ScreenCells(N, K) -> T_]
    BY <1>2 DEF ConState
<1>7. shown' \in [ScreenCells(N, K) -> T_ \cup {C!Nothing}]
    BY <1>4, <1>6
<1>8. DOMAIN mem' = 0..(P * H - 1) /\ DrawnWithin(cmode', cy', over', Z, K)
    BY <1>4, <1>5 DEF DrawnWithin
<1>9. AllShow(mem', shown', over', P, Z, N, K)
    <2>1. SUFFICES ASSUME NEW dc, NEW dr, NEW i, NEW j, NEW k, IsCellByte(dc, dr, i, j, k, Z, N),
                          dr < K, shown'[<<dc, dr>>] # C!Nothing, ~Exempt(dc, dr, over', P, Z, N)
                   PROVE  ShowsByte(mem', shown'[<<dc, dr>>], dc, dr, i, j, k, P, Z)
        BY DEF AllShow
    <2>2. <<dc, dr>> \in ScreenCells(N, K) /\ dc \in Nat /\ dr \in Nat
        BY <2>1 DEF IsCellByte, ScreenCells
    <2>3. ~C!Touched(<<dc, dr>>, sz) /\ shown'[<<dc, dr>>] = shown[<<dc, dr>>]
        BY <1>4, <2>1, <2>2
    <2>4. ShowsByte(mem, shown[<<dc, dr>>], dc, dr, i, j, k, P, Z)
        BY <1>4, <1>5, <2>1, <2>3 DEF AllShow
    <2>5. PICK b : b = (26 * dr + j) * P + ((16 * dc + i) * Z + k)
        OBVIOUS
    <2>6. CellByte(b, dc, dr, i, j, k, P, Z)
        BY <2>5 DEF CellByte
    <2>7. b \in Nat /\ b \in DOMAIN mem /\ (26 * dr) * P + (16 * dc) * Z <= b
        BY <1>2, <1>5, <2>1, <2>6, CellBytes
    <2>8. ~(b < sz)
        <3>1. ~((dr * 26) * P + (dc * 16) * Z < sz)
            BY <1>3, <2>3, CellSize DEF C!Touched, C!COORD
        <3>2. PICK z \in Nat : z = (26 * dr) * P + (16 * dc) * Z
            BY <1>2, <2>2
        <3>3. dr * 26 = 26 * dr /\ dc * 16 = 16 * dc
            BY <2>2
        <3>4. ~(z < sz) /\ z <= b
            BY <2>7, <3>1, <3>2, <3>3
        <3> QED BY <1>1, <2>7, <3>4
    <2>9. PICK l \in BOOLEAN : l = C!Lit(shown[<<dc, dr>>], i \div C!SCALE, j \div C!SCALE)
        BY DEF C!Lit
    <2>10. mem[b] = l
        BY <2>4, <2>5, <2>9 DEF ShowsByte
    <2>11. mem'[b] = (mem[b] \/ b < sz)
        BY <1>4, <2>7
    <2>12. mem'[b] = l
        BY <2>8, <2>10, <2>11, Zenon
    <2> QED BY <2>3, <2>5, <2>9, <2>12 DEF ShowsByte
<1>10. ConState(mem', cx', cy', shown', over', cmode', P, H, Z, N, K)
    BY <1>4, <1>5, <1>7, <1>8, <1>9 DEF ConState
<1> QED BY <1>1, <1>2, <1>4, <1>10, ConsoleAfter

(***************************************************************************)
(* Every step of the console and of the frame buffer device keeps the      *)
(* invariant.                                                              *)
(***************************************************************************)
LEMMA ConsoleKeeps == ConsoleInv /\ [C!Next]_C!vars => ConsoleInv'
<1>1. ASSUME ConsoleInv, C!Next PROVE ConsoleInv'
    <2>1. CASE C!Stopped
        <3>1. UNCHANGED <<fb, mem, cx, cy, shown, over, cmode>>
            BY <2>1 DEF C!Stopped, C!vars
        <3> QED BY <1>1, <3>1 DEF ConsoleInv, ConState, C!Bytes, C!Columns, C!Lines
    <2> QED BY <1>1, <2>1, WriteKeeps, FbWriteKeeps DEF C!Next
<1>2. ASSUME ConsoleInv, UNCHANGED C!vars PROVE ConsoleInv'
    <2>1. UNCHANGED <<fb, mem, cx, cy, shown, over, cmode>>
        BY <1>2 DEF C!vars
    <2> QED BY <1>2, <2>1 DEF ConsoleInv, ConState, C!Bytes, C!Columns, C!Lines
<1> QED BY <1>1, <1>2

(***************************************************************************)
(* The screen shows what was written to the console, byte by byte of the   *)
(* frame buffer, on every screen a boot loader sets up: fbconchar leaves   *)
(* the cells around the one it draws alone, but for the character it draws *)
(* past the edge and the first bytes of the next pixel; it stays in the    *)
(* frame buffer while the cursor is on the screen; and fbcon_write keeps   *)
(* the cursor within two cells of the last column.                         *)
(***************************************************************************)
THEOREM ScreenShowsAlways == C!Spec => []ScreenShows
<1>1. ConsoleInv => ScreenShows
    BY ConsoleRight DEF ScreenShows
<1> QED BY <1>1, ConsoleBegins, ConsoleKeeps, PTL DEF C!Spec
=============================================================================
